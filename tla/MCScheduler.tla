---------------------------- MODULE MCScheduler ----------------------------
(* The scheduler alone, with arbitrary clients. *)
EXTENDS Scheduler
=============================================================================
