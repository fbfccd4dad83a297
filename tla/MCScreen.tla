------------------------------ MODULE MCScreen -------------------------------
(* A screen of three rows of two cells in a memory of five and a half rows. *)
EXTENDS Screen

CONSTANTS letter, blank

MCChar == {letter, blank}
=============================================================================
