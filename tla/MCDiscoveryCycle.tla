-------------------------- MODULE MCDiscoveryCycle --------------------------
(* DiscoveryCycle with small sets of processes for TLC. *)
EXTENDS DiscoveryCycle, TLC

CONSTANTS p1, p2

OneProcess   == {p1}
TwoProcesses == {p1, p2}

ProcessSymmetry == Permutations(TwoProcesses)
=============================================================================
