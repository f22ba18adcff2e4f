-------------------------- MODULE MCSchedulerEngine --------------------------
(* SchedulerEngine for TLC: its constants are numbers. *)
EXTENDS SchedulerEngine
=============================================================================
