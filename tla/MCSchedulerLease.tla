-------------------------- MODULE MCSchedulerLease --------------------------
(***************************************************************************)
(* SchedulerLease for TLC: the job tick alone.                             *)
(***************************************************************************)
EXTENDS SchedulerLease

TickOnly == {"tick"}
=============================================================================
