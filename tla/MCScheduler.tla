---------------------------- MODULE MCScheduler ----------------------------
(* Instances of the scheduler for TLC: see the cfg files for the values.   *)
EXTENDS SchedulerRefinement
============================================================================
