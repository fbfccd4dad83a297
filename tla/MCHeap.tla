------------------------------- MODULE MCHeap --------------------------------
(* Three units of two bytes, and twelve bytes for blocks with headers of    *)
(* one byte.                                                                *)
EXTENDS Heap

(* Requests for less than a unit, a unit, and more than a unit. *)
MCSize == {1, 2, 3, 5}
=============================================================================
