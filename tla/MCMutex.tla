------------------------------- MODULE MCMutex -------------------------------
(* Constants of the mutex runs. *)
EXTENDS MutexClients

TaskSymmetry == Permutations(Task)
=============================================================================
