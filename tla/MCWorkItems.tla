---------------------------- MODULE MCWorkItems ----------------------------
(* WorkItems with small sets and kinds of vacancies for TLC. *)
EXTENDS WorkItems, TLC

CONSTANTS v1, v2, v3, u1, w1, w2

OneVacancy     == {v1}
ThreeVacancies == {v1, v2, v3}
OneUser        == {u1}
OneWorker      == {w1}
TwoWorkers     == {w1, w2}

WorkerSymmetry == Permutations(TwoWorkers)

AllPass == [c \in Gate |-> "pass"]
Mixed == {[AllPass EXCEPT !["salary"] = "unknown"],
             [AllPass EXCEPT !["region"] = "conflict"]}
Plain == {AllPass}
=============================================================================
