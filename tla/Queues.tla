------------------------------- MODULE Queues --------------------------------
(* The queues of the kernel (queue.c over list.c) as sequences: operations  *)
(* that Sequences and SequencesExt do not have.                             *)
EXTENDS Integers, SequencesExt

(* The elements of s that are in S, in the order of s: what a walk over a   *)
(* list leaves when it unlinks the other nodes.  Entry k is the element     *)
(* whose index has rank k among the indices that stay.                      *)
SelectIn(s, S) ==
    LET I == {i \in DOMAIN s : s[i] \in S}
    IN  [k \in 1 .. Cardinality(I) |->
            s[CHOOSE i \in I : Cardinality({j \in I : j <= i}) = k]]

(* Queue_Rotate: the front goes to the tail. *)
Rotate(s) == IF s = <<>> THEN <<>> ELSE Append(Tail(s), Head(s))
=============================================================================
