--------------------------------- MODULE Heap ---------------------------------
(***************************************************************************)
(* malloc and free (pMemory.c) on the memory map of the emulated machine:  *)
(* one list of fixed units for small requests, one list of blocks of any   *)
(* size.  The three other lists of each kind are empty.                    *)
(***************************************************************************)
EXTENDS Integers, SequencesExt

CONSTANTS
    FM_ALLOC_SIZE, VM_HEAD_SIZE,    \* bytes of a unit, of a block's header
    UnitBase, UnitMax,  \* first unit, number of units
    BlockBase, BlockEnd,    \* memory of the blocks
    Size        \* bytes callers ask for

Unit == 0 .. UnitMax - 1

ASSUME HeapAssumption ==
    /\ FM_ALLOC_SIZE \in Nat \ {0} /\ VM_HEAD_SIZE \in Nat \ {0}
    /\ UnitBase \in Nat \ {0} /\ UnitMax \in Nat
    /\ BlockBase \in Nat \ {0} /\ BlockEnd \in Nat /\ BlockBase + VM_HEAD_SIZE < BlockEnd
    /\ UnitBase + UnitMax * FM_ALLOC_SIZE <= BlockBase \/ BlockEnd <= UnitBase
    /\ Size \subseteq Nat \ {0}

VARIABLES
    freeUnits,  \* the chain from pMemList->node
    held,       \* units whose node points to the unit, not to the next node
    blocks,     \* the block list: where each block starts, bytes used, free
    live        \* what callers hold: address and size they asked for

vars == <<freeUnits, held, blocks, live>>

UnitAddr(u) == UnitBase + u * FM_ALLOC_SIZE

-----------------------------------------------------------------------------
Init ==
    /\ freeUnits = [i \in 1 .. UnitMax |-> i - 1]
    /\ held = {}
    /\ blocks = <<[ptr |-> BlockBase + VM_HEAD_SIZE, used |-> 0,
                   free |-> BlockEnd - BlockBase - VM_HEAD_SIZE]>>
    /\ live = <<>>

Given(ptr, size) ==
    live' = [p \in DOMAIN live \union {ptr} |-> IF p = ptr THEN size ELSE live[p]]

(* FMemAlloc: the unit of the first free node. *)
UnitKept == freeUnits
UnitTaken == Tail(freeUnits)

FMemAlloc(size) ==
    /\ freeUnits' = UnitTaken
    /\ held' = held \union {Head(freeUnits)}
    /\ Given(UnitAddr(Head(freeUnits)), size)
    /\ UNCHANGED blocks

(* VMemAlloc: the first block with room, whose free end becomes a block of  *)
(* its own.                                                                 *)
Suits(b, size) == b.free >= size + VM_HEAD_SIZE

Fitting(size) == {i \in DOMAIN blocks : Suits(blocks[i], size)}

Split(i, size) ==
    LET b == blocks[i]
        alloc == [ptr |-> b.ptr + b.used + b.free - size, used |-> size, free |-> 0]
    IN  InsertAt([blocks EXCEPT ![i].free = b.free - (size + VM_HEAD_SIZE)], i + 1, alloc)

VMemAlloc(size) ==
    /\ Fitting(size) # {}
    /\ LET i == CHOOSE i \in Fitting(size) : \A j \in Fitting(size) : i <= j
       IN  /\ blocks' = Split(i, size)
           /\ Given(Split(i, size)[i + 1].ptr, size)
    /\ UNCHANGED <<freeUnits, held>>

(* Without room, pMalloc goes on to the lists that were never initialised:  *)
(* no step of this module.                                                  *)
malloc(size) ==
    IF size <= FM_ALLOC_SIZE /\ freeUnits # <<>> THEN FMemAlloc(size) ELSE VMemAlloc(size)

-----------------------------------------------------------------------------
(* FMemFree: the node goes first in the chain. *)
UnitBack(u) == <<u>> \o freeUnits

FMemFree(u) ==
    /\ freeUnits' = UnitBack(u)
    /\ held' = held \ {u}
    /\ UNCHANGED blocks

(* VMemFree: all of the block, its header too, becomes free space of the    *)
(* block before it.                                                         *)
GrownUnheaded(prev, b) == [prev EXCEPT !.free = @ + b.used + b.free]
Grown(prev, b) == [prev EXCEPT !.free = @ + VM_HEAD_SIZE + b.used + b.free]

StillLinked(i) == [blocks EXCEPT ![i - 1] = Grown(@, blocks[i])]
Merged(i) == RemoveAt([blocks EXCEPT ![i - 1] = Grown(@, blocks[i])], i)

VMemFree(i) ==
    /\ blocks' = Merged(i)
    /\ UNCHANGED <<freeUnits, held>>

(* pFree looks for a unit at that address, then for a block. *)
free(ptr) ==
    /\ ptr \in DOMAIN live
    /\ live' = Restrict(live, DOMAIN live \ {ptr})
    /\ \/ \E u \in held : UnitAddr(u) = ptr /\ FMemFree(u)
       \/ /\ ptr \notin {UnitAddr(u) : u \in held}
          /\ \E i \in DOMAIN blocks \ {1} : blocks[i].ptr = ptr /\ VMemFree(i)

Next ==
    \/ \E size \in Size : malloc(size)
    \/ \E ptr \in DOMAIN live : free(ptr)

Spec == Init /\ [][Next]_vars

-----------------------------------------------------------------------------
(* The blocks tile their memory in address order, headers between them: no  *)
(* header lies in a block a caller writes, no byte is lost by splitting and *)
(* merging.                                                                 *)
Tiles ==
    /\ blocks[1].ptr = BlockBase + VM_HEAD_SIZE
    /\ \A i \in DOMAIN blocks :
        /\ blocks[i].used >= 0 /\ blocks[i].free >= 0
        /\ blocks[i].ptr + blocks[i].used + blocks[i].free =
            IF i = Len(blocks) THEN BlockEnd ELSE blocks[i + 1].ptr - VM_HEAD_SIZE

(* Nothing is lost or handed out twice, whatever the order of frees: a unit *)
(* is either in the chain, once, or held, and every block but the first     *)
(* belongs to a caller, so that with nothing allocated the memory is one    *)
(* free block again.                                                        *)
NothingLost ==
    /\ IsInjective(freeUnits)
    /\ Range(freeUnits) \intersect held = {}
    /\ Range(freeUnits) \union held = Unit
    /\ blocks[1].used = 0
    /\ {<<blocks[i].ptr, blocks[i].used>> : i \in DOMAIN blocks \ {1}} =
       {<<p, live[p]>> : p \in DOMAIN live \ {UnitAddr(u) : u \in held}}

(* Callers see the abstract allocator, whichever list serves them. *)
Abstract == INSTANCE Allocator WITH
    Memory <- UnitAddr(0) .. UnitAddr(UnitMax) - 1 \union BlockBase .. BlockEnd - 1

ImplementsAllocator == Abstract!Spec
=============================================================================
