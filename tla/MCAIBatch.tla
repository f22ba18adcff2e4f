------------------------------ MODULE MCAIBatch ------------------------------
(* AIBatch with a category of each kind of error for TLC. *)
EXTENDS AIBatch

Costs  == {1, 3}
Errors == {"rate_limit", "auth"}
=============================================================================
