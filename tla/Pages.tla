-------------------------------- MODULE Pages ---------------------------------
(***************************************************************************)
(* Page frames and page tables (pMemory.c, vMemory.c).  Frames are counted *)
(* and kept in a free list; the first region of memory is mapped at boot,  *)
(* every other page is mapped to itself by the fault of its first use.     *)
(* Addresses are page numbers.                                             *)
(***************************************************************************)
EXTENDS Integers, SequencesExt

CONSTANTS
    PAGE_MAX,   \* entries of a page table
    FrameBase, FrameMax,    \* first frame of PMemList, number of frames
    DataPage,   \* a page the kernel uses that is no frame (the FMemList)
    MaxTasks    \* bound: tasks alive at once

Frame == FrameBase .. FrameBase + FrameMax - 1
gMemSize == FrameBase + FrameMax    \* last page of memory

Page == 0 .. gMemSize
PDEIndex(page) == page \div PAGE_MAX
Region == {PDEIndex(page) : page \in Page}

Absent == -1    \* no entry, no frame

ASSUME PagesAssumption ==
    /\ PAGE_MAX \in Nat \ {0} /\ FrameBase \in Nat \ {0} /\ FrameMax \in Nat
    /\ FrameMax >= 2 /\ FrameBase + 3 <= PAGE_MAX
    /\ DataPage \in Page \ Frame

VARIABLES
    free,       \* the chain from pMemList->head
    refCount,
    stacks,     \* frames AppInfoToTaskNode took for the stacks of live tasks
    pde,        \* table of each region
    pte,        \* pages present in each table: all of them map to themselves
    faults,     \* page faults being handled, the innermost last
    halted,     \* an assertion has failed
    crowded     \* ghost: more tasks have lived than the first region holds

vars == <<free, refCount, stacks, pde, pte, faults, halted, crowded>>

Mapped(page) == pde[PDEIndex(page)] # Absent /\ page \in pte[pde[PDEIndex(page)]]

-----------------------------------------------------------------------------
(* PMemAlloc: the first frame of the chain; its assertion fails when there  *)
(* is none.                                                                 *)
StillFirst(chain) == chain
NextFirst(chain) == Tail(chain)

PageAlloc(frame) ==
    /\ free # <<>> /\ frame = Head(free)
    /\ free' = NextFirst(free)
    /\ refCount' = [refCount EXCEPT ![frame] = 1]

NoFrame ==
    /\ free = <<>>
    /\ halted' = TRUE
    /\ UNCHANGED <<free, refCount, stacks, pde, pte, faults, crowded>>

(* PMemFree: the last reference puts the frame first in the chain. *)
FreedLast(chain, frame) == Append(chain, frame)
Freed(chain, frame) == <<frame>> \o chain

KeptCount(count) == count
CountedDown(count) == count - 1

PageFree(frame) ==
    /\ refCount[frame] > 0
    /\ refCount' = [refCount EXCEPT ![frame] = CountedDown(@)]
    /\ free' = IF refCount'[frame] = 0 THEN Freed(free, frame) ELSE free

-----------------------------------------------------------------------------
(* Stacks the first region holds besides the directory and the two tables    *)
(* any task needs: that of the first region, and of the kernel's data.       *)
Roomy == PAGE_MAX - FrameBase - 3

Idle == faults = <<>> /\ ~halted

(* AppInfoToTaskNode and KillTask. *)
CreateTask ==
    /\ Idle /\ Cardinality(stacks) < MaxTasks
    /\ \/ /\ \E frame \in Frame : PageAlloc(frame) /\ stacks' = stacks \union {frame}
          /\ crowded' = (crowded \/ Cardinality(stacks') > Roomy)
          /\ UNCHANGED <<pde, pte, faults, halted>>
       \/ NoFrame

(* A task dies running, so that its stack has been used. *)
KillTask(frame) ==
    /\ Idle
    /\ Mapped(frame)
    /\ PageFree(frame)
    /\ stacks' = stacks \ {frame}
    /\ UNCHANGED <<pde, pte, faults, halted, crowded>>

(* A task uses its stack, the kernel its data: a page that is not present   *)
(* faults.                                                                  *)
Fault(page) == [page |-> page, table |-> Absent]

Access(page) ==
    /\ Idle
    /\ ~Mapped(page)
    /\ faults' = <<Fault(page)>>
    /\ UNCHANGED <<free, refCount, stacks, pde, pte, halted, crowded>>

-----------------------------------------------------------------------------
(* PageFault, LinkPage and GetPTE for the innermost fault.  A new table is  *)
(* cleared at its own address, which may fault in turn; only then does the  *)
(* directory get it.                                                        *)
InFault == faults # <<>> /\ ~halted
Now == Last(faults)

NeedsTableAlways(page) == TRUE
NeedsTable(page) == pde[PDEIndex(page)] = Absent

AllocTable ==
    /\ InFault /\ NeedsTable(Now.page) /\ Now.table = Absent
    /\ \/ /\ \E frame \in Frame :
                PageAlloc(frame) /\ faults' = [faults EXCEPT ![Len(faults)].table = frame]
          /\ UNCHANGED <<stacks, pde, pte, halted, crowded>>
       \/ NoFrame

ClearFaults ==
    /\ InFault /\ Now.table # Absent
    /\ ~Mapped(Now.table)
    /\ faults' = Append(faults, Fault(Now.table))
    /\ UNCHANGED <<free, refCount, stacks, pde, pte, halted, crowded>>

SetTable ==
    /\ InFault /\ Now.table # Absent
    /\ Mapped(Now.table)
    /\ pte' = [pte EXCEPT ![Now.table] = {}]
    /\ pde' = [pde EXCEPT ![PDEIndex(Now.page)] = Now.table]
    /\ faults' = [faults EXCEPT ![Len(faults)].table = Absent]
    /\ UNCHANGED <<free, refCount, stacks, halted, crowded>>

LinkPage ==
    /\ InFault /\ ~NeedsTable(Now.page) /\ Now.table = Absent
    /\ pte' = [pte EXCEPT ![pde[PDEIndex(Now.page)]] = @ \union {Now.page}]
    /\ faults' = Front(faults)
    /\ UNCHANGED <<free, refCount, stacks, pde, halted, crowded>>

-----------------------------------------------------------------------------
(* CreatePDE: the first frame is the directory, the second the table of the *)
(* first region, where every page but the first is present.                 *)
Init ==
    /\ free = [i \in 1 .. FrameMax - 2 |-> FrameBase + i + 1]
    /\ refCount = [f \in Frame |-> IF f <= FrameBase + 1 THEN 1 ELSE 0]
    /\ stacks = {}
    /\ pde = [r \in Region |-> IF r = 0 THEN FrameBase + 1 ELSE Absent]
    /\ pte = [f \in Frame |-> IF f = FrameBase + 1 THEN 1 .. PAGE_MAX - 1 ELSE {}]
    /\ faults = <<>>
    /\ halted = FALSE /\ crowded = FALSE

Next ==
    \/ CreateTask
    \/ \E frame \in stacks : KillTask(frame)
    \/ \E page \in stacks \union {DataPage} : Access(page)
    \/ AllocTable \/ ClearFaults \/ SetTable \/ LinkPage

Spec == Init /\ [][Next]_vars

-----------------------------------------------------------------------------
Tables == {pde[r] : r \in Region} \ {Absent}
Pending == {faults[i].table : i \in DOMAIN faults} \ {Absent}

(* A frame is in the free list once or counted, and none has two holders,   *)
(* also when faults nest and frames run out: a stack is never a table, nor  *)
(* two tasks' stack.                                                        *)
FramesHeldOnce ==
    /\ IsInjective(free) /\ \A f \in Frame : f \in Range(free) <=> refCount[f] = 0
    /\ {FrameBase} \union Tables \union stacks \union Pending \subseteq {f \in Frame : refCount[f] = 1}
    /\ FrameBase \notin Tables \union stacks \union Pending
    /\ Tables \intersect stacks = {} /\ Pending \intersect (Tables \union stacks) = {}

(* A counted frame is the directory, a table, a live task's stack or about  *)
(* to be a table, as long as the first region has frames left for every     *)
(* stack and table: no frame leaks.                                         *)
NoFrameLeaked == ~crowded =>
    {f \in Frame : refCount[f] > 0} = {FrameBase} \union Tables \union stacks \union Pending

(* A region's table is never replaced, so that no mapping is lost, as long  *)
(* as the first region has frames left for every stack and table.           *)
NoTableLost == [][~crowded => \A r \in Region : pde[r] # Absent => pde'[r] = pde[r]]_vars

(* With that many tasks a fault never meets another: tables come from the   *)
(* frames that were mapped at boot, in whatever order tasks die.            *)
FaultsDoNotNest == ~crowded => Len(faults) <= 1

(* "assert(!IsEqual(ret, nullptr) ...)" (pMemory.c:230): PMemAlloc finds a  *)
(* frame.  It does not when the faults of one access have taken them all:   *)
(* clearing a new table beyond the first region faults, which takes another.*)
FaultsLeaveFrames == halted => Len(faults) <= 1
=============================================================================
