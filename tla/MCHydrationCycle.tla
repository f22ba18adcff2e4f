-------------------------- MODULE MCHydrationCycle --------------------------
(* HydrationCycle with small sets of processes for TLC. *)
EXTENDS HydrationCycle, TLC

CONSTANTS s1, s2, c1

OneScheduler  == {s1}
TwoSchedulers == {s1, s2}
OneCli        == {c1}

SchedulerSymmetry == Permutations(TwoSchedulers)
=============================================================================
