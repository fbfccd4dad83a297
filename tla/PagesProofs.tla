----------------------------- MODULE PagesProofs ------------------------------
(***************************************************************************)
(* Proofs about page frames and page tables, for memory of any size, page  *)
(* tables of any length and any number of tasks.                           *)
(***************************************************************************)
EXTENDS Pages, QueueLemmas

FaultRecord == [page : Page, table : Frame \cup {Absent}]

Types ==
    /\ free \in Seq(Frame) /\ refCount \in [Frame -> Nat] /\ stacks \in SUBSET Frame
    /\ pde \in [Region -> Frame \cup {Absent}] /\ pte \in [Frame -> SUBSET Int]
    /\ faults \in Seq(FaultRecord)
    /\ halted \in BOOLEAN /\ crowded \in BOOLEAN

(* Two faults never have the same table in hand. *)
TablesApart ==
    \A i, j \in DOMAIN faults :
        faults[i].table = faults[j].table => i = j \/ faults[i].table = Absent

(* The first region always has the table it got at boot, which maps all its *)
(* pages but the first, and no fault has a table for it in hand.            *)
FirstRegion ==
    /\ pde[0] = FrameBase + 1
    /\ 1 .. PAGE_MAX - 1 \subseteq pte[FrameBase + 1]
    /\ \A i \in DOMAIN faults : faults[i].table # Absent => PDEIndex(faults[i].page) # 0

(* The region of the kernel's data. *)
DataRegion == PDEIndex(DataPage)

(* The chain has the frames of the first region first. *)
LowFirst ==
    \A i, j \in DOMAIN free : i < j /\ free[j] < PAGE_MAX => free[i] < PAGE_MAX

(* What holds as long as the first region has frames for all: no frame      *)
(* beyond it is in use, so that a new table is always mapped, and only the  *)
(* region of the kernel's data ever needs one.                              *)
RoomLeft ==
    /\ Len(faults) <= 1
    /\ Cardinality(stacks) <= Roomy
    /\ \A f \in Frame : refCount[f] > 0 => f < PAGE_MAX
    /\ LowFirst
    /\ \A r \in Region : pde[r] # Absent => r \in {0, DataRegion}
    /\ \A i \in DOMAIN faults :
         /\ PDEIndex(faults[i].page) \in {0, DataRegion}
         /\ faults[i].table # Absent => pde[PDEIndex(faults[i].page)] = Absent

(* The inductive invariant. *)
PInv ==
    /\ Types
    /\ FramesHeldOnce
    /\ TablesApart
    /\ FirstRegion
    /\ NoFrameLeaked
    /\ ~crowded => RoomLeft

-----------------------------------------------------------------------------
(* Pages, frames and regions as numbers. *)
LEMMA Numbers ==
    /\ Frame \subseteq Page /\ Absent \notin Frame /\ IsFiniteSet(Frame)
    /\ FrameBase \in Frame /\ FrameBase + 1 \in Frame
    /\ FrameBase \in Nat \ {0} /\ PAGE_MAX \in Nat /\ FrameMax \in Nat /\ Roomy \in Nat
    /\ DataPage \in Page
    /\ Page \subseteq Nat /\ Frame \subseteq Nat
<1>1. /\ FrameBase \in Nat \ {0} /\ PAGE_MAX \in Nat /\ FrameMax \in Nat /\ FrameMax >= 2
      /\ FrameBase + 3 <= PAGE_MAX /\ DataPage \in Page
  BY PagesAssumption
<1>2. IsFiniteSet(Frame)
  BY <1>1, FS_Interval DEF Frame
<1> QED  BY <1>1, <1>2 DEF Frame, Page, gMemSize, Absent, Roomy

LEMMA Regions ==
    /\ \A page \in Page : PDEIndex(page) \in Region
    /\ \A page \in Page : page < PAGE_MAX => PDEIndex(page) = 0
    /\ 0 \in Region /\ DataRegion \in Region
<1>1. \A page \in Page : PDEIndex(page) \in Region
  BY DEF Region
<1>2. ASSUME NEW page \in Page, page < PAGE_MAX  PROVE  PDEIndex(page) = 0
  <2>1. page \in Nat /\ PAGE_MAX \in Nat
    BY Numbers
  <2> QED  BY <1>2, <2>1 DEF PDEIndex
<1>3. 0 \in Page /\ 0 < PAGE_MAX
  BY Numbers, PagesAssumption DEF Page, gMemSize
<1>4. 0 \in Region
  BY <1>1, <1>2, <1>3
<1>5. DataRegion \in Region
  BY <1>1, Numbers DEF DataRegion
<1> QED  BY <1>1, <1>2, <1>4, <1>5

(* Every page of the first region but page 0 is mapped. *)
LEMMA LowMapped ==
    ASSUME FirstRegion, NEW page \in Page, 0 < page, page < PAGE_MAX
    PROVE  Mapped(page)
<1>1. PDEIndex(page) = 0
  BY Regions
<1>2. page \in 1 .. PAGE_MAX - 1 /\ FrameBase + 1 # Absent
  BY Numbers DEF Absent
<1> QED  BY <1>1, <1>2 DEF Mapped, FirstRegion

(* The innermost fault. *)
LEMMA Innermost ==
    ASSUME Types, faults # <<>>
    PROVE  /\ Len(faults) \in DOMAIN faults /\ DOMAIN faults = 1 .. Len(faults)
           /\ Len(faults) \in Nat /\ Len(faults) >= 1
           /\ Now = faults[Len(faults)] /\ Now \in FaultRecord
           /\ Now.page \in Page /\ Now.table \in Frame \cup {Absent}
<1>1. Len(faults) \in Nat /\ Len(faults) >= 1 /\ DOMAIN faults = 1 .. Len(faults)
  BY DEF Types
<1>2. Now = faults[Len(faults)] /\ Now \in FaultRecord
  BY <1>1 DEF Types, Now, Last
<1> QED  BY <1>1, <1>2 DEF FaultRecord

-----------------------------------------------------------------------------
(* The holders of frames by name. *)
LEMMA InTables ==
    ASSUME Types, NEW f
    PROVE  f \in Tables <=> f \in Frame /\ \E r \in Region : pde[r] = f
BY Numbers DEF Types, Tables

LEMMA InPending ==
    ASSUME Types, NEW f
    PROVE  f \in Pending <=> f \in Frame /\ \E i \in DOMAIN faults : faults[i].table = f
<1>1. \A i \in DOMAIN faults : faults[i] \in FaultRecord
  BY DEF Types
<1>2. \A i \in DOMAIN faults : faults[i].table \in Frame \cup {Absent}
  BY <1>1 DEF FaultRecord
<1> QED  BY <1>2, Numbers DEF Pending

LEMMA SameTables == ASSUME pde' = pde  PROVE  Tables' = Tables
BY DEF Tables

LEMMA SamePending == ASSUME faults' = faults  PROVE  Pending' = Pending
BY DEF Pending

-----------------------------------------------------------------------------
(* FramesHeldOnce in two parts: the chain and the counts, the counts and    *)
(* the holders.                                                             *)
Counted == IsInjective(free) /\ \A f \in Frame : f \in ToSet(free) <=> refCount[f] = 0

HeldOnce ==
    /\ \A f \in {FrameBase} \cup Tables \cup stacks \cup Pending : f \in Frame /\ refCount[f] = 1
    /\ FrameBase \notin Tables \cup stacks \cup Pending
    /\ Tables \cap stacks = {} /\ Pending \cap (Tables \cup stacks) = {}

LEMMA TwoParts == FramesHeldOnce <=> Counted /\ HeldOnce
BY DEF FramesHeldOnce, Counted, HeldOnce, Range, ToSet

LEMMA TwoPartsNext == FramesHeldOnce' <=> Counted' /\ HeldOnce'
BY DEF FramesHeldOnce, Counted, HeldOnce, Range, ToSet

(* PageAlloc takes a frame nobody holds and counts it. *)
LEMMA Taken ==
    ASSUME Types, Counted, NEW frame \in Frame, PageAlloc(frame)
    PROVE  /\ free' \in Seq(Frame) /\ refCount' \in [Frame -> Nat]
           /\ refCount[frame] = 0 /\ refCount'[frame] = 1
           /\ \A f \in Frame \ {frame} : refCount'[f] = refCount[f]
           /\ Counted'
<1>1. free \in Seq(Frame) /\ free # <<>> /\ frame = Head(free) /\ free' = Tail(free)
  BY DEF Types, PageAlloc, NextFirst
<1>2. refCount' = [refCount EXCEPT ![frame] = 1] /\ refCount \in [Frame -> Nat]
  BY DEF Types, PageAlloc
<1>3. /\ free' \in Seq(Frame) /\ frame \in ToSet(free)
      /\ ToSet(free) = {frame} \cup ToSet(free')
      /\ IsInjective(free) <=> frame \notin ToSet(free') /\ IsInjective(free')
  BY <1>1, FrontAndRest
<1>4. refCount[frame] = 0
  BY <1>3 DEF Counted
<1>5. refCount'[frame] = 1 /\ \A f \in Frame \ {frame} : refCount'[f] = refCount[f]
  BY <1>2
<1>6. Counted'
  BY <1>3, <1>5 DEF Counted
<1>7. refCount' \in [Frame -> Nat]
  BY <1>2
<1> QED  BY <1>3, <1>4, <1>5, <1>6, <1>7

(* The chain keeps its order. *)
LEMMA TakenInOrder ==
    ASSUME Types, LowFirst, NEW frame \in Frame, PageAlloc(frame)
    PROVE  LowFirst'
<1>1. free \in Seq(Frame) /\ free # <<>> /\ free' = Tail(free)
  BY DEF Types, PageAlloc, NextFirst
<1>2. /\ Len(free) \in Nat /\ DOMAIN free = 1 .. Len(free)
      /\ DOMAIN free' = 1 .. Len(free) - 1
      /\ \A i \in DOMAIN free' : free'[i] = free[i + 1]
  BY <1>1
<1>3. ASSUME NEW i \in DOMAIN free', NEW j \in DOMAIN free', i < j, free'[j] < PAGE_MAX
      PROVE  free'[i] < PAGE_MAX
  <2>1. i + 1 \in DOMAIN free /\ j + 1 \in DOMAIN free /\ i + 1 < j + 1
    BY <1>2, <1>3
  <2> QED  BY <1>2, <1>3, <2>1 DEF LowFirst
<1> QED  BY <1>3 DEF LowFirst

(* When a frame beyond the first region is next, all those in it are held. *)
LEMMA LowHeld ==
    ASSUME Types, Counted, LowFirst, NEW frame \in Frame, PageAlloc(frame), frame >= PAGE_MAX
    PROVE  \A f \in FrameBase .. PAGE_MAX - 1 : f \in Frame /\ refCount[f] # 0
<1>1. /\ free \in Seq(Frame) /\ free # <<>> /\ frame = free[1]
      /\ Len(free) \in Nat /\ DOMAIN free = 1 .. Len(free) /\ 1 \in DOMAIN free
  BY DEF Types, PageAlloc
<1> SUFFICES ASSUME NEW f \in FrameBase .. PAGE_MAX - 1  PROVE  f \in Frame /\ refCount[f] # 0
  OBVIOUS
<1>2. f \in Frame /\ f < PAGE_MAX /\ frame \in Nat /\ PAGE_MAX \in Nat /\ f \in Nat
  BY Numbers DEF Frame
<1>3. ASSUME refCount[f] = 0  PROVE  FALSE
  <2>1. PICK j \in DOMAIN free : free[j] = f
    BY <1>2, <1>3 DEF Counted, ToSet
  <2>2. j # 1 /\ j \in Nat /\ 1 < j
    BY <1>1, <1>2, <2>1
  <2>3. free[1] < PAGE_MAX
    BY <1>1, <1>2, <2>1, <2>2 DEF LowFirst
  <2> QED  BY <1>1, <1>2, <2>3
<1> QED  BY <1>2, <1>3

(* PageFree of a frame with one reference gives it back, ahead of others. *)
LEMMA GivenBack ==
    ASSUME Types, Counted, NEW frame \in Frame, refCount[frame] = 1, PageFree(frame)
    PROVE  /\ free' \in Seq(Frame) /\ refCount' \in [Frame -> Nat]
           /\ refCount'[frame] = 0
           /\ \A f \in Frame \ {frame} : refCount'[f] = refCount[f]
           /\ Counted'
           /\ LowFirst /\ frame < PAGE_MAX => LowFirst'
<1>1. /\ free \in Seq(Frame) /\ refCount \in [Frame -> Nat]
      /\ refCount' = [refCount EXCEPT ![frame] = 0]
  BY DEF Types, PageFree, CountedDown
<1>2. refCount'[frame] = 0 /\ \A f \in Frame \ {frame} : refCount'[f] = refCount[f]
  BY <1>1
<1>3. free' = <<frame>> \o free
  BY <1>2 DEF PageFree, Freed
<1>4. /\ free' \in Seq(Frame) /\ ToSet(free') = {frame} \cup ToSet(free)
      /\ IsInjective(free') <=> IsInjective(free) /\ frame \notin ToSet(free)
  BY <1>1, <1>3, ConsSet
<1>5. frame \notin ToSet(free)
  BY DEF Counted
<1>6. Counted'
  BY <1>2, <1>4, <1>5 DEF Counted
<1>7. ASSUME LowFirst, frame < PAGE_MAX  PROVE  LowFirst'
  <2>1. /\ Len(free) \in Nat /\ DOMAIN free = 1 .. Len(free)
        /\ DOMAIN free' = 1 .. Len(free) + 1 /\ free'[1] = frame
        /\ \A i \in 2 .. Len(free) + 1 : free'[i] = free[i - 1]
    BY <1>1, <1>3
  <2>2. ASSUME NEW i \in DOMAIN free', NEW j \in DOMAIN free', i < j, free'[j] < PAGE_MAX
        PROVE  free'[i] < PAGE_MAX
    <3>1. CASE i = 1
      BY <1>7, <2>1, <3>1
    <3>2. CASE i # 1
      <4>1. i - 1 \in DOMAIN free /\ j - 1 \in DOMAIN free /\ i - 1 < j - 1
        BY <2>1, <2>2, <3>2
      <4>2. free'[i] = free[i - 1] /\ free'[j] = free[j - 1]
        BY <2>1, <2>2, <3>2
      <4> QED  BY <1>7, <2>2, <4>1, <4>2 DEF LowFirst
    <3> QED  BY <3>1, <3>2
  <2> QED  BY <2>2 DEF LowFirst
<1> QED  BY <1>1, <1>2, <1>4, <1>6, <1>7

-----------------------------------------------------------------------------
(* A set with one more element. *)
LEMMA OneMore ==
    ASSUME NEW S, IsFiniteSet(S), NEW x
    PROVE  /\ IsFiniteSet(S \cup {x}) /\ Cardinality(S) \in Nat
           /\ Cardinality(S \cup {x}) \in Nat
           /\ Cardinality(S \cup {x}) <= Cardinality(S) + 1
           /\ x \in S => Cardinality(S \cup {x}) = Cardinality(S)
<1>1. /\ IsFiniteSet(S \cup {x})
      /\ Cardinality(S \cup {x}) = IF x \in S THEN Cardinality(S) ELSE Cardinality(S) + 1
  BY FS_AddElement
<1>2. Cardinality(S) \in Nat
  BY FS_CardinalityType
<1> QED  BY <1>1, <1>2

(* Counting: while there is room, the frames of the first region are not    *)
(* all held by the directory, the table of the first region, another one    *)
(* and the stacks.                                                          *)
LEMMA RoomCounts ==
    ASSUME NEW S \in SUBSET Frame, NEW a, NEW b, NEW c,
           FrameBase .. PAGE_MAX - 1 \subseteq {a, b, c} \cup S
    PROVE  /\ IsFiniteSet(S) /\ Cardinality(S) \in Nat
           /\ PAGE_MAX - FrameBase <= Cardinality(S) + 3
           /\ c \in {a, b} => PAGE_MAX - FrameBase <= Cardinality(S) + 2
<1>1. IsFiniteSet(S) /\ Cardinality(S) \in Nat
  BY Numbers, FS_Subset, FS_CardinalityType
<1> DEFINE A == S \cup {a}
           B == A \cup {b}
           C == B \cup {c}
<1>2. IsFiniteSet(A) /\ Cardinality(A) \in Nat /\ Cardinality(A) <= Cardinality(S) + 1
  BY <1>1, OneMore
<1>3. IsFiniteSet(B) /\ Cardinality(B) \in Nat /\ Cardinality(B) <= Cardinality(A) + 1
  BY <1>2, OneMore
<1>4. /\ IsFiniteSet(C) /\ Cardinality(C) \in Nat /\ Cardinality(C) <= Cardinality(B) + 1
      /\ c \in {a, b} => Cardinality(C) = Cardinality(B)
  <2>1. c \in {a, b} => c \in B
    OBVIOUS
  <2> QED  BY <1>3, <2>1, OneMore
<1>5. FrameBase .. PAGE_MAX - 1 \in SUBSET C
  OBVIOUS
<1>6. Cardinality(FrameBase .. PAGE_MAX - 1) = PAGE_MAX - FrameBase
  <2>1. FrameBase \in Int /\ PAGE_MAX - 1 \in Int /\ ~(FrameBase > PAGE_MAX - 1)
    BY Numbers, PagesAssumption
  <2>2. Cardinality(FrameBase .. PAGE_MAX - 1) = PAGE_MAX - 1 - FrameBase + 1
    BY <2>1, FS_Interval
  <2> QED  BY <2>2, Numbers
<1> HIDE DEF C
<1>7. Cardinality(FrameBase .. PAGE_MAX - 1) <= Cardinality(C)
  BY <1>4, <1>5, FS_Subset
<1> HIDE DEF A, B
<1>8. PAGE_MAX - FrameBase <= Cardinality(C) /\ PAGE_MAX \in Nat /\ FrameBase \in Nat
  BY <1>6, <1>7, Numbers
<1>9. PAGE_MAX - FrameBase <= Cardinality(S) + 3
  BY <1>1, <1>2, <1>3, <1>4, <1>8
<1>10. c \in {a, b} => PAGE_MAX - FrameBase <= Cardinality(S) + 2
  BY <1>1, <1>2, <1>3, <1>4, <1>8
<1> QED  BY <1>1, <1>9, <1>10

(* While there is room, the next frame is one of the first region.          *)
LEMMA NextIsLow ==
    ASSUME PInv, ~crowded, Pending = {}, NEW frame \in Frame, PageAlloc(frame),
           Cardinality(stacks) < Roomy \/ pde[DataRegion] = Absent
    PROVE  frame < PAGE_MAX
<1>1. /\ Types /\ Counted /\ NoFrameLeaked /\ LowFirst /\ stacks \in SUBSET Frame
      /\ Cardinality(stacks) <= Roomy
      /\ \A r \in Region : pde[r] # Absent => r \in {0, DataRegion}
  BY TwoParts DEF PInv, RoomLeft, Types
<1>2. SUFFICES ASSUME frame >= PAGE_MAX  PROVE  FALSE
  BY Numbers
<1>3. ASSUME NEW f \in FrameBase .. PAGE_MAX - 1
      PROVE  f \in {FrameBase} \cup Tables \cup stacks
  <2>1. f \in Frame /\ refCount[f] # 0
    BY <1>1, <1>2, LowHeld
  <2>2. refCount[f] > 0
    BY <1>1, <2>1 DEF Types
  <2> QED  BY <1>1, <2>1, <2>2 DEF NoFrameLeaked
<1>4. Tables \subseteq {pde[0], pde[DataRegion]} /\ Absent \notin Tables
  BY <1>1, InTables, Numbers
<1>5. CASE Cardinality(stacks) < Roomy
  <2>1. FrameBase .. PAGE_MAX - 1 \subseteq {FrameBase, pde[0], pde[DataRegion]} \cup stacks
    BY <1>3, <1>4
  <2>2. PAGE_MAX - FrameBase <= Cardinality(stacks) + 3 /\ Cardinality(stacks) \in Nat
    BY <1>1, <2>1, RoomCounts
  <2> QED  BY <1>5, <2>2, Numbers DEF Roomy
<1>6. CASE pde[DataRegion] = Absent
  <2>1. FrameBase .. PAGE_MAX - 1 \subseteq {FrameBase, pde[0], pde[0]} \cup stacks
    BY <1>3, <1>4, <1>6
  <2>2. PAGE_MAX - FrameBase <= Cardinality(stacks) + 2 /\ Cardinality(stacks) \in Nat
    <3> DEFINE first == pde[0]
    <3>1. first \in {FrameBase, first}
      OBVIOUS
    <3>2. FrameBase .. PAGE_MAX - 1 \subseteq {FrameBase, first, first} \cup stacks
      BY <2>1
    <3> HIDE DEF first
    <3> QED  BY <1>1, <3>1, <3>2, RoomCounts
  <2> QED  BY <1>1, <2>2, Numbers DEF Roomy
<1> QED  BY <1>5, <1>6

-----------------------------------------------------------------------------
(* The state after CreatePDE. *)
LEMMA PInitially == Init => PInv
<1> SUFFICES ASSUME Init  PROVE  PInv
  OBVIOUS
<1> DEFINE n == FrameMax - 2
<1>1. n \in Nat /\ free = [i \in 1 .. n |-> FrameBase + i + 1]
  BY Numbers, PagesAssumption DEF Init
<1>2. /\ stacks = {} /\ faults = <<>> /\ halted = FALSE /\ crowded = FALSE
      /\ pde = [r \in Region |-> IF r = 0 THEN FrameBase + 1 ELSE Absent]
      /\ refCount = [f \in Frame |-> IF f <= FrameBase + 1 THEN 1 ELSE 0]
      /\ pte = [f \in Frame |-> IF f = FrameBase + 1 THEN 1 .. PAGE_MAX - 1 ELSE {}]
  BY DEF Init
<1>3. Types
  <2>1. free \in Seq(Frame)
    <3>1. \A i \in 1 .. n : FrameBase + i + 1 \in Frame
      BY Numbers DEF Frame
    <3> QED  BY <1>1, <3>1
  <2>2. pde \in [Region -> Frame \cup {Absent}]
    BY <1>2, Numbers
  <2>3. pte \in [Frame -> SUBSET Int] /\ refCount \in [Frame -> Nat]
    BY <1>2, Numbers
  <2>4. stacks \in SUBSET Frame /\ faults \in Seq(FaultRecord)
    BY <1>2, EmptySet
  <2>5. halted \in BOOLEAN /\ crowded \in BOOLEAN
    BY <1>2
  <2> QED  BY <2>1, <2>2, <2>3, <2>4, <2>5, Zenon DEF Types
<1>4. Counted
  <2>1. IsInjective(free)
    BY <1>1, Numbers DEF IsInjective
  <2>2. ASSUME NEW f \in Frame  PROVE  f \in ToSet(free) <=> refCount[f] = 0
    <3>1. refCount[f] = 0 <=> f > FrameBase + 1
      BY <1>2, Numbers
    <3>2. f \in ToSet(free) <=> \E i \in 1 .. n : f = FrameBase + i + 1
      BY <1>1 DEF ToSet
    <3>3. ASSUME f > FrameBase + 1  PROVE  \E i \in 1 .. n : f = FrameBase + i + 1
      <4>1. f - FrameBase - 1 \in 1 .. n /\ f = FrameBase + (f - FrameBase - 1) + 1
        BY <3>3, Numbers DEF Frame
      <4> QED  BY <4>1
    <3> QED  BY <3>1, <3>2, <3>3, Numbers
  <2> QED  BY <2>1, <2>2 DEF Counted
<1>5. Tables = {FrameBase + 1} /\ Pending = {}
  <2>1. Tables = {FrameBase + 1}
    BY <1>2, Regions, Numbers DEF Tables
  <2>2. Pending = {}
    BY <1>2 DEF Pending
  <2> QED  BY <2>1, <2>2
<1>6. HeldOnce
  BY <1>2, <1>5, Numbers DEF HeldOnce
<1>7. TablesApart /\ FirstRegion
  <2>1. DOMAIN faults = {}
    BY <1>2
  <2> QED  BY <1>2, <2>1, Regions, Numbers DEF TablesApart, FirstRegion
<1>8. NoFrameLeaked
  <2>1. ASSUME NEW f \in Frame  PROVE  refCount[f] > 0 <=> f \in {FrameBase, FrameBase + 1}
    BY <1>2, Numbers DEF Frame
  <2> QED  BY <1>2, <1>5, <2>1, Numbers DEF NoFrameLeaked
<1>9. RoomLeft
  <2>1. DOMAIN faults = {} /\ Len(faults) = 0
    BY <1>2
  <2>2. Cardinality(stacks) <= Roomy
    BY <1>2, Numbers, FS_EmptySet
  <2>3. \A f \in Frame : refCount[f] > 0 => f < PAGE_MAX
    BY <1>2, Numbers, PagesAssumption
  <2>4. LowFirst
    BY <1>1, Numbers DEF LowFirst
  <2>5. \A r \in Region : pde[r] # Absent => r \in {0, DataRegion}
    BY <1>2
  <2> QED  BY <2>1, <2>2, <2>3, <2>4, <2>5 DEF RoomLeft
<1> QED  BY <1>3, <1>4, <1>6, <1>7, <1>8, <1>9, TwoParts DEF PInv

-----------------------------------------------------------------------------
(* AppInfoToTaskNode: a task gets a stack. *)
LEMMA CreateTaskKeeps ==
    ASSUME PInv, Idle, NEW frame \in Frame, PageAlloc(frame),
           stacks' = stacks \cup {frame},
           crowded' = (crowded \/ Cardinality(stacks') > Roomy),
           UNCHANGED <<pde, pte, faults, halted>>
    PROVE  PInv'
<1>1. /\ Types /\ Counted /\ HeldOnce /\ TablesApart /\ FirstRegion /\ NoFrameLeaked
      /\ stacks \in SUBSET Frame
  BY TwoParts DEF PInv, Types
<1>2. /\ free' \in Seq(Frame) /\ refCount' \in [Frame -> Nat]
      /\ refCount[frame] = 0 /\ refCount'[frame] = 1
      /\ \A f \in Frame \ {frame} : refCount'[f] = refCount[f]
      /\ Counted'
  BY <1>1, Taken
<1>3. Tables' = Tables /\ Pending' = Pending
  BY SameTables, SamePending
<1>4. frame \notin {FrameBase} \cup Tables \cup stacks \cup Pending
  BY <1>1, <1>2 DEF HeldOnce
<1>5. Types'
  BY <1>1, <1>2 DEF Types
<1>6. HeldOnce'
  BY <1>1, <1>2, <1>3, <1>4 DEF HeldOnce
<1>7. TablesApart' /\ FirstRegion'
  BY <1>1 DEF TablesApart, FirstRegion
<1>7a. ASSUME ~crowded'
       PROVE  ~crowded /\ Cardinality(stacks') <= Roomy
  <2>1. ~(Cardinality(stacks') > Roomy) /\ ~crowded
    BY <1>7a, Zenon
  <2>2. Cardinality(stacks') \in Nat
    BY <1>5, Numbers, FS_Subset, FS_CardinalityType DEF Types
  <2> QED  BY <2>1, <2>2, Numbers
<1>8. NoFrameLeaked'
  <2>1. ASSUME ~crowded'
        PROVE  {f \in Frame : refCount'[f] > 0} =
                 {FrameBase} \cup Tables' \cup stacks' \cup Pending'
    <3>1. {f \in Frame : refCount[f] > 0} = {FrameBase} \cup Tables \cup stacks \cup Pending
      BY <1>1, <1>7a, <2>1 DEF NoFrameLeaked
    <3> QED  BY <1>2, <1>3, <3>1
  <2> QED  BY <2>1, Zenon DEF NoFrameLeaked
<1>9. ASSUME ~crowded'  PROVE  RoomLeft'
  <2>1. RoomLeft /\ ~crowded
    BY <1>7a, <1>9, Zenon DEF PInv
  <2>2. Cardinality(stacks) < Roomy /\ Cardinality(stacks') <= Roomy
    <3>1. IsFiniteSet(stacks)
      BY <1>1, Numbers, FS_Subset
    <3>2. Cardinality(stacks') = Cardinality(stacks) + 1 /\ Cardinality(stacks) \in Nat
      BY <1>4, <3>1, FS_AddElement, FS_CardinalityType
    <3> QED  BY <1>7a, <1>9, <3>2, Numbers
  <2>3. Pending = {}
    BY DEF Idle, Pending
  <2>4. frame < PAGE_MAX
    BY <2>1, <2>2, <2>3, NextIsLow
  <2>5. \A f \in Frame : refCount'[f] > 0 => f < PAGE_MAX
    BY <1>2, <2>1, <2>4 DEF RoomLeft
  <2>6. LowFirst'
    BY <1>1, <2>1, TakenInOrder DEF RoomLeft
  <2> QED  BY <2>1, <2>2, <2>5, <2>6 DEF RoomLeft
<1> QED  BY <1>5, <1>2, <1>6, <1>7, <1>8, <1>9, TwoPartsNext DEF PInv

(* KillTask: the stack goes back to the chain. *)
LEMMA KillTaskKeeps ==
    ASSUME PInv, NEW frame \in stacks, KillTask(frame)
    PROVE  PInv'
<1>1. /\ Types /\ Counted /\ HeldOnce /\ TablesApart /\ FirstRegion /\ NoFrameLeaked
      /\ stacks \in SUBSET Frame /\ frame \in Frame /\ refCount[frame] = 1
  BY TwoParts DEF PInv, Types, HeldOnce
<1>2. PageFree(frame) /\ stacks' = stacks \ {frame}
      /\ UNCHANGED <<pde, pte, faults, halted, crowded>>
  BY DEF KillTask
<1>3. /\ free' \in Seq(Frame) /\ refCount' \in [Frame -> Nat]
      /\ refCount'[frame] = 0
      /\ \A f \in Frame \ {frame} : refCount'[f] = refCount[f]
      /\ Counted'
      /\ LowFirst /\ frame < PAGE_MAX => LowFirst'
  BY <1>1, <1>2, GivenBack
<1>4. Tables' = Tables /\ Pending' = Pending
  BY <1>2, SameTables, SamePending
<1>5. frame \notin {FrameBase} \cup Tables \cup Pending
  BY <1>1 DEF HeldOnce
<1>6. Types'
  BY <1>1, <1>2, <1>3 DEF Types
<1>7. HeldOnce'
  BY <1>1, <1>2, <1>3, <1>4, <1>5 DEF HeldOnce
<1>8. TablesApart' /\ FirstRegion'
  BY <1>1, <1>2 DEF TablesApart, FirstRegion
<1>9. NoFrameLeaked'
  BY <1>1, <1>2, <1>3, <1>4, <1>5 DEF NoFrameLeaked
<1>10. ASSUME ~crowded'  PROVE  RoomLeft'
  <2>1. RoomLeft
    BY <1>2, <1>10 DEF PInv
  <2>2. Cardinality(stacks') <= Cardinality(stacks) /\ Cardinality(stacks') \in Nat
        /\ Cardinality(stacks) \in Nat
    <3>1. IsFiniteSet(stacks)
      BY <1>1, Numbers, FS_Subset
    <3>2. stacks' \in SUBSET stacks
      BY <1>2
    <3> QED  BY <3>1, <3>2, FS_Subset, FS_CardinalityType
  <2>3. frame < PAGE_MAX
    BY <1>1, <2>1 DEF RoomLeft
  <2>4. LowFirst' /\ \A f \in Frame : refCount'[f] > 0 => f < PAGE_MAX
    BY <1>1, <1>3, <2>1, <2>3 DEF RoomLeft
  <2>5. Cardinality(stacks') <= Roomy
    BY <2>1, <2>2, Numbers DEF RoomLeft
  <2> QED  BY <1>2, <2>1, <2>4, <2>5 DEF RoomLeft
<1> QED  BY <1>3, <1>6, <1>7, <1>8, <1>9, <1>10, TwoPartsNext DEF PInv

-----------------------------------------------------------------------------
(* A page that is not present faults. *)
LEMMA AccessKeeps ==
    ASSUME PInv, NEW page \in stacks \cup {DataPage}, Access(page)
    PROVE  PInv'
<1>1. /\ Types /\ Counted /\ HeldOnce /\ TablesApart /\ FirstRegion /\ NoFrameLeaked
      /\ stacks \in SUBSET Frame
  BY TwoParts DEF PInv, Types
<1>2. /\ faults' = <<Fault(page)>>
      /\ UNCHANGED <<free, refCount, stacks, pde, pte, halted, crowded>> /\ faults = <<>>
  BY DEF Access, Idle
<1>3. page \in Page
  BY <1>1, Numbers
<1>4. /\ faults' \in Seq(FaultRecord) /\ DOMAIN faults' = {1} /\ Len(faults') = 1
      /\ faults'[1].page = page /\ faults'[1].table = Absent
  <2>1. Fault(page) \in FaultRecord /\ Fault(page).page = page /\ Fault(page).table = Absent
    BY <1>3 DEF Fault, FaultRecord
  <2> HIDE DEF Fault
  <2> QED  BY <1>2, <2>1
<1>5. Tables' = Tables /\ Pending' = Pending
  <2>1. Pending = {} /\ Pending' = {}
    BY <1>2, <1>4 DEF Pending
  <2> QED  BY <1>2, <2>1, SameTables
<1>6. Types'
  BY <1>1, <1>2, <1>4 DEF Types
<1>7. Counted' /\ HeldOnce' /\ NoFrameLeaked'
  BY <1>1, <1>2, <1>5 DEF Counted, HeldOnce, NoFrameLeaked
<1>8. TablesApart' /\ FirstRegion'
  BY <1>1, <1>2, <1>4 DEF TablesApart, FirstRegion
<1>9. ASSUME ~crowded'  PROVE  RoomLeft'
  <2>1. RoomLeft
    BY <1>2, <1>9 DEF PInv
  <2>2. PDEIndex(page) \in {0, DataRegion}
    <3>1. CASE page = DataPage
      BY <3>1 DEF DataRegion
    <3>2. CASE page \in stacks
      <4>1. page \in Frame /\ refCount[page] > 0
        BY <1>1, <3>2 DEF HeldOnce
      <4> QED  BY <1>3, <2>1, <4>1, Regions DEF RoomLeft
    <3> QED  BY <3>1, <3>2
  <2> QED  BY <1>2, <1>4, <2>1, <2>2 DEF RoomLeft, LowFirst
<1> QED  BY <1>6, <1>7, <1>8, <1>9, TwoPartsNext DEF PInv

-----------------------------------------------------------------------------
(* GetPTE takes a frame for the table of a region that has none. *)
LEMMA AllocTableKeeps ==
    ASSUME PInv, InFault, NeedsTable(Now.page), Now.table = Absent,
           NEW frame \in Frame, PageAlloc(frame),
           faults' = [faults EXCEPT ![Len(faults)].table = frame],
           UNCHANGED <<stacks, pde, pte, halted, crowded>>
    PROVE  PInv'
<1> DEFINE n == Len(faults)
<1>1. /\ Types /\ Counted /\ HeldOnce /\ TablesApart /\ FirstRegion /\ NoFrameLeaked
      /\ stacks \in SUBSET Frame
  BY TwoParts DEF PInv, Types
<1>2. /\ free' \in Seq(Frame) /\ refCount' \in [Frame -> Nat]
      /\ refCount[frame] = 0 /\ refCount'[frame] = 1
      /\ \A f \in Frame \ {frame} : refCount'[f] = refCount[f]
      /\ Counted'
  BY <1>1, Taken
<1>3. /\ n \in DOMAIN faults /\ faults[n].table = Absent /\ faults[n] \in FaultRecord
      /\ faults[n].page \in Page
      /\ n \in Nat /\ n >= 1 /\ DOMAIN faults = 1 .. n
      /\ pde[PDEIndex(faults[n].page)] = Absent
  BY <1>1, Innermost DEF InFault, NeedsTable
<1>4. /\ faults' \in Seq(FaultRecord) /\ DOMAIN faults' = DOMAIN faults /\ Len(faults') = n
      /\ faults'[n].table = frame /\ faults'[n].page = faults[n].page
      /\ \A i \in DOMAIN faults \ {n} : faults'[i] = faults[i]
  <2> DEFINE e == [faults[n] EXCEPT !.table = frame]
  <2>1. e \in FaultRecord /\ e.table = frame /\ e.page = faults[n].page
    BY <1>3 DEF FaultRecord
  <2>2. faults' = [faults EXCEPT ![n] = e]
    OBVIOUS
  <2> HIDE DEF e
  <2>3. faults \in Seq(FaultRecord) /\ n \in 1 .. Len(faults)
    BY <1>1, <1>3 DEF Types
  <2>4. /\ faults' \in Seq(FaultRecord) /\ Len(faults') = n
        /\ \A i \in 1 .. Len(faults) : faults'[i] = IF i = n THEN e ELSE faults[i]
    BY <2>1, <2>2, <2>3, ExceptSeq
  <2> QED  BY <1>3, <2>1, <2>4
<1>5. Types'
  BY <1>1, <1>2, <1>4 DEF Types
<1>6. Tables' = Tables /\ Pending' = Pending \cup {frame}
  <2>1. ASSUME NEW f  PROVE  f \in Pending' <=> f \in Pending \/ f = frame
    <3>1. f \in Pending' <=> f # Absent /\ \E i \in DOMAIN faults' : faults'[i].table = f
      BY DEF Pending
    <3>2. f \in Pending <=> f # Absent /\ \E i \in DOMAIN faults : faults[i].table = f
      BY DEF Pending
    <3> QED  BY <1>3, <1>4, <3>1, <3>2, Numbers
  <2> QED  BY <2>1, SameTables
<1>7. frame \notin {FrameBase} \cup Tables \cup stacks \cup Pending
  BY <1>1, <1>2 DEF HeldOnce
<1>8. HeldOnce'
  BY <1>1, <1>2, <1>6, <1>7 DEF HeldOnce
<1>9. TablesApart'
  <2>1. \A i \in DOMAIN faults : faults[i].table # frame
    BY <1>1, <1>7, InPending
  <2> QED  BY <1>1, <1>3, <1>4, <2>1 DEF TablesApart
<1>10. FirstRegion'
  <2>1. PDEIndex(faults[n].page) # 0
    BY <1>1, <1>3, Numbers DEF FirstRegion
  <2> QED  BY <1>1, <1>4, <2>1 DEF FirstRegion
<1>11. NoFrameLeaked'
  <2>1. ASSUME ~crowded'
        PROVE  {f \in Frame : refCount'[f] > 0} =
                 {FrameBase} \cup Tables' \cup stacks' \cup Pending'
    <3>1. {f \in Frame : refCount[f] > 0} = {FrameBase} \cup Tables \cup stacks \cup Pending
      BY <1>1, <2>1 DEF NoFrameLeaked
    <3>2. ASSUME NEW f \in Frame
          PROVE  refCount'[f] > 0 <=> f \in {f2 \in Frame : refCount[f2] > 0} \cup {frame}
      BY <1>2, <1>7
    <3>3. {frame} \subseteq Frame /\ stacks' = stacks
      OBVIOUS
    <3> QED  BY <1>6, <3>1, <3>2, <3>3
  <2> QED  BY <2>1, Zenon DEF NoFrameLeaked
<1>12. ASSUME ~crowded'  PROVE  RoomLeft'
  <2>1. RoomLeft /\ ~crowded
    BY <1>12 DEF PInv
  <2>2. n = 1
    BY <1>3, <2>1 DEF RoomLeft
  <2>3. Pending = {}
    BY <1>3, <2>2 DEF Pending
  <2>4. pde[DataRegion] = Absent
    <3>1. PDEIndex(faults[n].page) \in {0, DataRegion}
      BY <1>3, <2>1 DEF RoomLeft
    <3> QED  BY <1>1, <1>3, <3>1, Numbers DEF FirstRegion
  <2>5. frame < PAGE_MAX
    BY <2>1, <2>3, <2>4, NextIsLow
  <2>6. \A f \in Frame : refCount'[f] > 0 => f < PAGE_MAX
    BY <1>2, <2>1, <2>5 DEF RoomLeft
  <2>7. LowFirst'
    BY <1>1, <2>1, TakenInOrder DEF RoomLeft
  <2> QED  BY <1>3, <1>4, <2>1, <2>6, <2>7 DEF RoomLeft
<1> QED  BY <1>2, <1>5, <1>8, <1>9, <1>10, <1>11, <1>12, TwoPartsNext DEF PInv

(* The new table is cleared at its own address, which may fault: never      *)
(* while there is room.                                                     *)
LEMMA ClearFaultsKeeps ==
    ASSUME PInv, ClearFaults
    PROVE  PInv'
<1> DEFINE n == Len(faults)
           e == Fault(Now.table)
<1>1. /\ Types /\ Counted /\ HeldOnce /\ TablesApart /\ FirstRegion /\ NoFrameLeaked
  BY TwoParts DEF PInv
<1>2. /\ faults' = Append(faults, e) /\ ~Mapped(Now.table) /\ Now.table # Absent
      /\ UNCHANGED <<free, refCount, stacks, pde, pte, halted, crowded>> /\ faults # <<>>
  BY DEF ClearFaults, InFault
<1>3. /\ n \in DOMAIN faults /\ Now = faults[n] /\ Now.table \in Frame
      /\ n \in Nat /\ DOMAIN faults = 1 .. n
  BY <1>1, <1>2, Innermost
<1>4. e \in FaultRecord /\ e.table = Absent
  BY <1>3, Numbers DEF Fault, FaultRecord
<1>5. crowded
  <2>1. ASSUME ~crowded  PROVE  Mapped(Now.table)
    <3>1. Now.table \in Pending
      BY <1>1, <1>3, InPending
    <3>2. refCount[Now.table] > 0
      BY <1>1, <3>1 DEF HeldOnce
    <3>3. Now.table < PAGE_MAX
      BY <1>3, <2>1, <3>2 DEF PInv, RoomLeft
    <3>4. 0 < Now.table
      BY <1>3, Numbers DEF Frame
    <3> QED  BY <1>1, <1>3, <3>3, <3>4, LowMapped, Numbers
  <2> QED  BY <1>2, <2>1
<1> HIDE DEF e
<1>6. /\ faults' \in Seq(FaultRecord) /\ DOMAIN faults' = 1 .. n + 1
      /\ faults'[n + 1].table = Absent
      /\ \A i \in DOMAIN faults : faults'[i] = faults[i]
  BY <1>1, <1>2, <1>3, <1>4 DEF Types
<1>7. Types'
  BY <1>1, <1>2, <1>6 DEF Types
<1>8. Tables' = Tables /\ Pending' = Pending
  <2>1. ASSUME NEW f  PROVE  f \in Pending' <=> f \in Pending
    <3>1. f \in Pending' <=> f # Absent /\ \E i \in DOMAIN faults' : faults'[i].table = f
      BY DEF Pending
    <3>2. f \in Pending <=> f # Absent /\ \E i \in DOMAIN faults : faults[i].table = f
      BY DEF Pending
    <3> QED  BY <1>3, <1>6, <3>1, <3>2
  <2> QED  BY <1>2, <2>1, SameTables
<1>9. Counted' /\ HeldOnce' /\ NoFrameLeaked'
  BY <1>1, <1>2, <1>8 DEF Counted, HeldOnce, NoFrameLeaked
<1>10. TablesApart' /\ FirstRegion'
  BY <1>1, <1>2, <1>3, <1>6 DEF TablesApart, FirstRegion
<1> QED  BY <1>2, <1>5, <1>7, <1>9, <1>10, TwoPartsNext DEF PInv

(* The directory gets the table, which was in the hand of one fault only.   *)
LEMMA SetTableKeeps ==
    ASSUME PInv, SetTable
    PROVE  /\ PInv'
           /\ ~crowded => \A r \in Region : pde[r] # Absent => pde'[r] = pde[r]
<1> DEFINE n == Len(faults)
           frame == Now.table
           here == PDEIndex(Now.page)
<1>1. /\ Types /\ Counted /\ HeldOnce /\ TablesApart /\ FirstRegion /\ NoFrameLeaked
  BY TwoParts DEF PInv
<1>2. /\ frame # Absent /\ faults # <<>>
      /\ pte' = [pte EXCEPT ![frame] = {}]
      /\ pde' = [pde EXCEPT ![here] = frame]
      /\ faults' = [faults EXCEPT ![n].table = Absent]
      /\ UNCHANGED <<free, refCount, stacks, halted, crowded>>
  BY DEF SetTable, InFault
<1>3. /\ n \in DOMAIN faults /\ Now = faults[n] /\ Now \in FaultRecord
      /\ frame \in Frame /\ Now.page \in Page
      /\ n \in Nat /\ n >= 1 /\ DOMAIN faults = 1 .. n
  BY <1>1, <1>2, Innermost
<1>4. /\ faults' \in Seq(FaultRecord) /\ DOMAIN faults' = DOMAIN faults /\ Len(faults') = n
      /\ faults'[n].table = Absent /\ faults'[n].page = Now.page
      /\ \A i \in DOMAIN faults \ {n} : faults'[i] = faults[i]
  <2> DEFINE e == [faults[n] EXCEPT !.table = Absent]
  <2>1. e \in FaultRecord /\ e.table = Absent /\ e.page = Now.page
    BY <1>3 DEF FaultRecord
  <2>2. faults' = [faults EXCEPT ![n] = e]
    BY <1>2
  <2> HIDE DEF e
  <2>3. faults \in Seq(FaultRecord) /\ n \in 1 .. Len(faults)
    BY <1>1, <1>3 DEF Types
  <2>4. /\ faults' \in Seq(FaultRecord) /\ Len(faults') = n
        /\ \A i \in 1 .. Len(faults) : faults'[i] = IF i = n THEN e ELSE faults[i]
    BY <2>1, <2>2, <2>3, ExceptSeq
  <2>5. DOMAIN faults' = 1 .. n
    BY <2>4
  <2>6. faults'[n] = e /\ \A i \in DOMAIN faults \ {n} : faults'[i] = faults[i]
    BY <1>3, <2>4
  <2> QED  BY <1>3, <2>1, <2>4, <2>5, <2>6
<1>5. here \in Region /\ here # 0
  BY <1>1, <1>2, <1>3, Regions DEF FirstRegion
<1> HIDE DEF frame, here
<1>6. /\ pde' \in [Region -> Frame \cup {Absent}]
      /\ pde'[here] = frame /\ \A r \in Region \ {here} : pde'[r] = pde[r]
  BY <1>1, <1>2, <1>3, <1>5 DEF Types
<1>7. /\ pte' \in [Frame -> SUBSET Int]
      /\ \A f \in Frame \ {frame} : pte'[f] = pte[f]
  BY <1>1, <1>2, <1>3 DEF Types
<1>8. Types'
  BY <1>1, <1>2, <1>4, <1>6, <1>7 DEF Types
<1>9. frame \in Pending
  BY <1>1, <1>3, InPending DEF frame
<1>10. Pending' = Pending \ {frame}
  <2>1. ASSUME NEW f  PROVE  f \in Pending' <=> f \in Pending /\ f # frame
    <3>1. f \in Pending' <=> f # Absent /\ \E i \in DOMAIN faults' : faults'[i].table = f
      BY DEF Pending
    <3>2. f \in Pending <=> f # Absent /\ \E i \in DOMAIN faults : faults[i].table = f
      BY DEF Pending
    <3>3. \A i \in DOMAIN faults \ {n} : faults[i].table # frame
      BY <1>1, <1>2, <1>3 DEF TablesApart, frame
    <3> QED  BY <1>3, <1>4, <3>1, <3>2, <3>3 DEF frame
  <2> QED  BY <2>1
<1>11. /\ frame \in Tables' /\ Tables' \subseteq Tables \cup {frame}
       /\ pde[here] = Absent => Tables' = Tables \cup {frame}
  <2>1. \A f : f \in Tables' <=> f # Absent /\ \E r \in Region : pde'[r] = f
    BY DEF Tables
  <2>2. \A f : f \in Tables <=> f # Absent /\ \E r \in Region : pde[r] = f
    BY DEF Tables
  <2> QED  BY <1>2, <1>5, <1>6, <2>1, <2>2
<1>12. HeldOnce'
  BY <1>1, <1>2, <1>9, <1>10, <1>11 DEF HeldOnce
<1>13. Counted'
  BY <1>1, <1>2 DEF Counted
<1>14. TablesApart'
  BY <1>1, <1>3, <1>4 DEF TablesApart
<1>15. FirstRegion'
  <2>1. frame # FrameBase + 1
    <3>1. FrameBase + 1 \in Tables
      BY <1>1, Regions, Numbers, InTables DEF FirstRegion
    <3> QED  BY <1>1, <1>9, <3>1 DEF HeldOnce
  <2>2. pde'[0] = pde[0] /\ pte'[FrameBase + 1] = pte[FrameBase + 1]
    BY <1>5, <1>6, <1>7, <2>1, Regions, Numbers
  <2>3. \A i \in DOMAIN faults' : faults'[i].table # Absent => PDEIndex(faults'[i].page) # 0
    BY <1>1, <1>4 DEF FirstRegion
  <2> QED  BY <1>1, <2>2, <2>3 DEF FirstRegion
<1>16. ASSUME ~crowded  PROVE  RoomLeft /\ pde[here] = Absent
  <2>1. RoomLeft
    BY <1>16 DEF PInv
  <2> QED  BY <1>2, <1>3, <2>1 DEF RoomLeft, here, frame
<1>17. NoFrameLeaked'
  <2>1. ASSUME ~crowded'
        PROVE  {f \in Frame : refCount'[f] > 0} =
                 {FrameBase} \cup Tables' \cup stacks' \cup Pending'
    <3>1. {f \in Frame : refCount[f] > 0} = {FrameBase} \cup Tables \cup stacks \cup Pending
      BY <1>1, <1>2, <2>1 DEF NoFrameLeaked
    <3> QED  BY <1>2, <1>9, <1>10, <1>11, <1>16, <2>1, <3>1
  <2> QED  BY <2>1, Zenon DEF NoFrameLeaked
<1>18. ASSUME ~crowded'  PROVE  RoomLeft'
  <2>1. RoomLeft
    BY <1>2, <1>16, <1>18
  <2>2. here \in {0, DataRegion}
    BY <1>3, <2>1 DEF RoomLeft, here
  <2>3. \A r \in Region : pde'[r] # Absent => r \in {0, DataRegion}
    BY <1>6, <2>1, <2>2 DEF RoomLeft
  <2>4. DOMAIN faults' = {n} /\ n <= 1
    BY <1>3, <1>4, <2>1 DEF RoomLeft
  <2>5. \A i \in DOMAIN faults' :
          /\ PDEIndex(faults'[i].page) \in {0, DataRegion}
          /\ faults'[i].table # Absent => pde'[PDEIndex(faults'[i].page)] = Absent
    BY <1>4, <2>2, <2>4 DEF here
  <2>6. /\ LowFirst' /\ Cardinality(stacks') <= Roomy
        /\ \A f \in Frame : refCount'[f] > 0 => f < PAGE_MAX
    BY <1>2, <2>1 DEF RoomLeft, LowFirst
  <2> QED  BY <1>4, <2>3, <2>4, <2>5, <2>6 DEF RoomLeft
<1> QED  BY <1>5, <1>6, <1>8, <1>12, <1>13, <1>14, <1>15, <1>16, <1>17, <1>18,
            TwoPartsNext DEF PInv

(* LinkPage: the page becomes present, and its access is tried again. *)
LEMMA LinkPageKeeps ==
    ASSUME PInv, LinkPage
    PROVE  PInv'
<1> DEFINE n == Len(faults)
           table == pde[PDEIndex(Now.page)]
<1>1. /\ Types /\ Counted /\ HeldOnce /\ TablesApart /\ FirstRegion /\ NoFrameLeaked
  BY TwoParts DEF PInv
<1>2. /\ faults # <<>> /\ Now.table = Absent /\ table # Absent
      /\ pte' = [pte EXCEPT ![table] = @ \cup {Now.page}]
      /\ faults' = Front(faults)
      /\ UNCHANGED <<free, refCount, stacks, pde, halted, crowded>>
  BY DEF LinkPage, InFault, NeedsTable
<1>3. /\ n \in DOMAIN faults /\ faults[n].table = Absent /\ Now.page \in Page
      /\ n \in Nat /\ n >= 1 /\ DOMAIN faults = 1 .. n
  BY <1>1, <1>2, Innermost
<1>4. table \in Frame
  BY <1>1, <1>2, <1>3, Regions DEF Types
<1>5. /\ faults' \in Seq(FaultRecord) /\ DOMAIN faults' = 1 .. n - 1 /\ Len(faults') = n - 1
      /\ \A i \in DOMAIN faults' : i \in DOMAIN faults /\ faults'[i] = faults[i]
  <2>1. faults \in Seq(FaultRecord) /\ n - 1 \in 0 .. Len(faults)
    BY <1>1, <1>3 DEF Types
  <2>2. faults' = SubSeq(faults, 1, n - 1)
    BY <1>2 DEF Front
  <2>3. /\ faults' \in Seq(FaultRecord) /\ Len(faults') = n - 1
        /\ \A i \in 1 .. n - 1 : faults'[i] = faults[i]
    <3>1. SubSeq(faults, 1, n - 1) \in Seq(FaultRecord) /\ Len(SubSeq(faults, 1, n - 1)) = n - 1
      BY <2>1, CutSet
    <3>2. \A i \in 1 .. n - 1 : SubSeq(faults, 1, n - 1)[i] = faults[i]
      BY <1>3, <2>1
    <3> QED  BY <2>2, <3>1, <3>2
  <2> QED  BY <1>3, <2>3
<1> HIDE DEF table
<1>6. /\ pte' \in [Frame -> SUBSET Int]
      /\ \A f \in Frame : pte[f] \subseteq pte'[f]
  <2>1. Now.page \in Int
    <3>1. \A page \in Page : page \in Int
      BY Numbers
    <3> QED  BY <1>3, <3>1, Zenon
  <2>2. pte \in [Frame -> SUBSET Int]
    BY <1>1 DEF Types
  <2>3. pte[table] \in SUBSET Int
    BY <1>4, <2>2
  <2> HIDE DEF table
  <2> DEFINE more == pte[table] \cup {Now.page}
  <2>4. more \in SUBSET Int /\ pte[table] \subseteq more
    BY <2>1, <2>3
  <2>5. pte' = [pte EXCEPT ![table] = more]
    BY <1>2
  <2> HIDE DEF more
  <2> QED  BY <1>4, <2>2, <2>4, <2>5
<1>7. Types'
  BY <1>1, <1>2, <1>5, <1>6 DEF Types
<1>8. Tables' = Tables /\ Pending' = Pending
  <2>1. ASSUME NEW f  PROVE  f \in Pending' <=> f \in Pending
    <3>1. f \in Pending' <=> f # Absent /\ \E i \in DOMAIN faults' : faults'[i].table = f
      BY DEF Pending
    <3>2. f \in Pending <=> f # Absent /\ \E i \in DOMAIN faults : faults[i].table = f
      BY DEF Pending
    <3>3. \A i \in DOMAIN faults : i = n \/ i \in DOMAIN faults'
      BY <1>3, <1>5
    <3> QED  BY <1>3, <1>5, <3>1, <3>2, <3>3
  <2> QED  BY <1>2, <2>1, SameTables
<1>9. Counted' /\ HeldOnce' /\ NoFrameLeaked'
  BY <1>1, <1>2, <1>8 DEF Counted, HeldOnce, NoFrameLeaked
<1>10. TablesApart' /\ FirstRegion'
  <2>1. TablesApart'
    BY <1>1, <1>5 DEF TablesApart
  <2>2. FirstRegion'
    BY <1>1, <1>2, <1>5, <1>6, Numbers DEF FirstRegion
  <2> QED  BY <2>1, <2>2
<1>11. ASSUME ~crowded'  PROVE  RoomLeft'
  <2>1. RoomLeft
    BY <1>2, <1>11 DEF PInv
  <2> QED  BY <1>2, <1>3, <1>5, <2>1 DEF RoomLeft, LowFirst
<1> QED  BY <1>7, <1>9, <1>10, <1>11, TwoPartsNext DEF PInv

(* PMemAlloc fails its assertion. *)
LEMMA NoFrameKeeps ==
    ASSUME PInv, NoFrame
    PROVE  PInv'
<1>1. /\ halted' = TRUE
      /\ UNCHANGED <<free, refCount, stacks, pde, pte, faults, crowded>>
  BY DEF NoFrame
<1>2. Tables' = Tables /\ Pending' = Pending
  BY <1>1, SameTables, SamePending
<1> QED  BY <1>1, <1>2
         DEF PInv, Types, FramesHeldOnce, TablesApart, FirstRegion, NoFrameLeaked, RoomLeft,
             LowFirst

-----------------------------------------------------------------------------
LEMMA PStep ==
    ASSUME PInv, [Next]_vars
    PROVE  /\ PInv'
           /\ ~crowded => \A r \in Region : pde[r] # Absent => pde'[r] = pde[r]
<1>1. CASE CreateTask
  <2>1. pde' = pde
    BY <1>1 DEF CreateTask, NoFrame
  <2>2. CASE NoFrame
    BY <2>1, <2>2, NoFrameKeeps
  <2>3. CASE ~NoFrame
    <3>1. PICK frame \in Frame : PageAlloc(frame) /\ stacks' = stacks \cup {frame}
      BY <1>1, <2>3 DEF CreateTask
    <3>2. PInv'
      BY <1>1, <2>3, <3>1, CreateTaskKeeps DEF CreateTask
    <3> QED  BY <2>1, <3>2
  <2> QED  BY <2>2, <2>3
<1>2. ASSUME NEW frame \in stacks, KillTask(frame)
      PROVE  PInv' /\ pde' = pde
  BY <1>2, KillTaskKeeps DEF KillTask
<1>3. ASSUME NEW page \in stacks \cup {DataPage}, Access(page)
      PROVE  PInv' /\ pde' = pde
  BY <1>3, AccessKeeps DEF Access
<1>4. CASE AllocTable
  <2>1. pde' = pde
    BY <1>4 DEF AllocTable, NoFrame
  <2>2. CASE NoFrame
    BY <2>1, <2>2, NoFrameKeeps
  <2>3. CASE ~NoFrame
    <3>1. PICK frame \in Frame :
            PageAlloc(frame) /\ faults' = [faults EXCEPT ![Len(faults)].table = frame]
      BY <1>4, <2>3 DEF AllocTable
    <3>2. PInv'
      BY <1>4, <2>3, <3>1, AllocTableKeeps DEF AllocTable
    <3> QED  BY <2>1, <3>2
  <2> QED  BY <2>2, <2>3
<1>5. CASE ClearFaults
  BY <1>5, ClearFaultsKeeps DEF ClearFaults
<1>6. CASE SetTable
  BY <1>6, SetTableKeeps
<1>7. CASE LinkPage
  BY <1>7, LinkPageKeeps DEF LinkPage
<1>8. CASE UNCHANGED vars
  <2>1. UNCHANGED <<free, refCount, stacks, pde, pte, faults, halted, crowded>>
    BY <1>8 DEF vars
  <2>2. Tables' = Tables /\ Pending' = Pending
    BY <2>1, SameTables, SamePending
  <2> QED  BY <2>1, <2>2
           DEF PInv, Types, FramesHeldOnce, TablesApart, FirstRegion, NoFrameLeaked, RoomLeft,
               LowFirst
<1> QED  BY <1>1, <1>2, <1>3, <1>4, <1>5, <1>6, <1>7, <1>8 DEF Next

(* The inductive invariant. *)
THEOREM PagesInvariant == Spec => []PInv
<1>1. PInv /\ [Next]_vars => PInv'
  BY PStep
<1> QED  BY <1>1, PInitially, PTL DEF Spec

(* PMemAlloc, PMemFree, GetPTE: no frame has two holders, however faults    *)
(* nest and however many tasks there are.                                   *)
THEOREM HoldersDiffer == Spec => []FramesHeldOnce
<1>1. PInv => FramesHeldOnce
  BY DEF PInv
<1> QED  BY <1>1, PagesInvariant, PTL

(* KillTask, GetPTE: with room in the first region every counted frame has  *)
(* a holder.                                                                *)
THEOREM FramesReturn == Spec => []NoFrameLeaked
<1>1. PInv => NoFrameLeaked
  BY DEF PInv
<1> QED  BY <1>1, PagesInvariant, PTL

(* GetPTE: with room in the first region clearing a new table never faults. *)
THEOREM FaultsStaySingle == Spec => []FaultsDoNotNest
<1>1. PInv => FaultsDoNotNest
  BY DEF PInv, RoomLeft, FaultsDoNotNest
<1> QED  BY <1>1, PagesInvariant, PTL

(* GetPTE: with room in the first region it never replaces a table.         *)
THEOREM TablesStay == Spec => NoTableLost
<1>1. PInv /\ [Next]_vars =>
        [~crowded => \A r \in Region : pde[r] # Absent => pde'[r] = pde[r]]_vars
  BY PStep
<1> QED  BY <1>1, PagesInvariant, PTL DEF Spec, NoTableLost
=============================================================================
