------------------------------- MODULE MCPages --------------------------------
(* Constants of the runs on frames and page tables. *)
EXTENDS Pages
=============================================================================
