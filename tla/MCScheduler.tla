----------------------------- MODULE MCScheduler -----------------------------
(* The scheduler's model-checking run.  Its constants are in the .cfg; no   *)
(* symmetry, since the run has liveness properties.                         *)
EXTENDS Scheduler
=============================================================================
