---------------------------- MODULE MCInterruptPath ---------------------------
(* Constants of the runs of the way into and out of the kernel. *)
EXTENDS InterruptPath, TLC

TaskSymmetry == Permutations(Task)
=============================================================================
