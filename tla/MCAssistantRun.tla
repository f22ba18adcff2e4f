--------------------------- MODULE MCAssistantRun ---------------------------
(* AssistantRun with small sets of users and workers for TLC. *)
EXTENDS AssistantRun, TLC

CONSTANTS u1, u2, w1, w2

OneUser    == {u1}
TwoUsers   == {u1, u2}
OneWorker  == {w1}
TwoWorkers == {w1, w2}

\* Workers are interchangeable; used by the runs that check no liveness.
WorkerSymmetry == Permutations(TwoWorkers)
=============================================================================
