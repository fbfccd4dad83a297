------------------------------ MODULE Allocator -------------------------------
(* What malloc and free promise: a block that lies in memory and shares no  *)
(* cell with any other, until it is given back.                             *)
EXTENDS Integers, Functions

CONSTANTS Memory, Size

VARIABLE live   \* size of each block, by its address

Chunk(ptr, size) == ptr .. ptr + size - 1

Init == live = <<>>

Alloc(size) ==
    \E ptr \in Memory \ DOMAIN live :
        /\ Chunk(ptr, size) \subseteq Memory
        /\ \A p \in DOMAIN live : Chunk(ptr, size) \intersect Chunk(p, live[p]) = {}
        /\ live' = [p \in DOMAIN live \union {ptr} |-> IF p = ptr THEN size ELSE live[p]]

Free(ptr) == live' = Restrict(live, DOMAIN live \ {ptr})

Next == (\E size \in Size : Alloc(size)) \/ (\E ptr \in DOMAIN live : Free(ptr))

Spec == Init /\ [][Next]_live
=============================================================================
