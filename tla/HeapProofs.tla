------------------------------ MODULE HeapProofs ------------------------------
(***************************************************************************)
(* Proofs about malloc and free, for any number and size of units, any     *)
(* memory for blocks and any sizes callers ask for.                        *)
(***************************************************************************)
EXTENDS Heap, QueueLemmas

Block == [ptr : Nat, used : Nat, free : Nat]

(* The first address behind a block. *)
Stop(b) == b.ptr + b.used + b.free

HTypes ==
    /\ freeUnits \in Seq(Unit) /\ held \in SUBSET Unit
    /\ DOMAIN live \in SUBSET Nat /\ live \in [DOMAIN live -> Size]

(* A list of blocks fills its memory: Tiles, with the order of the          *)
(* addresses of all blocks and not only of neighbours.                      *)
Laid(list) ==
    /\ list \in Seq(Block) /\ list # <<>>
    /\ list[1].ptr = BlockBase + VM_HEAD_SIZE /\ list[1].used = 0
    /\ \A i \in DOMAIN list : i # 1 => list[i].used > 0
    /\ \A i \in DOMAIN list : i < Len(list) => Stop(list[i]) + VM_HEAD_SIZE = list[i + 1].ptr
    /\ Stop(list[Len(list)]) = BlockEnd
    /\ \A i, j \in DOMAIN list : i < j => Stop(list[i]) + VM_HEAD_SIZE <= list[j].ptr

(* A unit is in the chain, once, or held. *)
UnitsOnce ==
    /\ IsInjective(freeUnits)
    /\ ToSet(freeUnits) \cap held = {}
    /\ ToSet(freeUnits) \cup held = Unit

(* What callers hold are the held units and the blocks but the first. *)
Callers ==
    /\ DOMAIN live = {UnitAddr(u) : u \in held} \cup {blocks[i].ptr : i \in DOMAIN blocks \ {1}}
    /\ \A u \in held : live[UnitAddr(u)] <= FM_ALLOC_SIZE
    /\ \A i \in DOMAIN blocks \ {1} : live[blocks[i].ptr] = blocks[i].used

(* The inductive invariant. *)
HInv == HTypes /\ Laid(blocks) /\ UnitsOnce /\ Callers

-----------------------------------------------------------------------------
(* Sizes and addresses as numbers. *)
LEMMA Sizes ==
    /\ FM_ALLOC_SIZE \in Nat /\ FM_ALLOC_SIZE > 0 /\ VM_HEAD_SIZE \in Nat /\ VM_HEAD_SIZE > 0
    /\ UnitBase \in Nat /\ UnitMax \in Nat /\ Unit \subseteq Nat
    /\ BlockBase \in Nat /\ BlockEnd \in Nat /\ BlockBase + VM_HEAD_SIZE < BlockEnd
    /\ \A size \in Size : size \in Nat /\ size > 0
<1>1. UnitMax \in Nat /\ Unit \subseteq Nat
  BY HeapAssumption DEF Unit
<1> QED  BY <1>1, HeapAssumption

LEMMA HeadSize == VM_HEAD_SIZE \in Nat
BY Sizes

LEMMA Multiples ==
    ASSUME NEW u \in Nat, NEW v \in Nat, u < v, NEW s \in Nat
    PROVE  u * s \in Nat /\ v * s \in Nat /\ u * s + s <= v * s
<1>1. v - u - 1 \in Nat
  OBVIOUS
<1>2. u * s \in Nat /\ v * s \in Nat /\ (v - u - 1) * s \in Nat
  BY <1>1
<1>3. v * s = u * s + s + (v - u - 1) * s
  OBVIOUS
<1> QED  BY <1>2, <1>3

(* Units lie side by side, apart from the blocks. *)
LEMMA UnitAddresses ==
    /\ \A u \in Unit : /\ UnitAddr(u) \in Nat /\ UnitBase <= UnitAddr(u)
                       /\ UnitAddr(u) + FM_ALLOC_SIZE <= UnitAddr(UnitMax)
    /\ \A u, v \in Unit : u < v => UnitAddr(u) + FM_ALLOC_SIZE <= UnitAddr(v)
    /\ UnitAddr(0) = UnitBase /\ UnitAddr(UnitMax) \in Nat
    /\ UnitAddr(UnitMax) <= BlockBase \/ BlockEnd <= UnitBase
<1>1. ASSUME NEW u \in Nat, NEW v \in Nat, u < v
      PROVE  /\ UnitAddr(u) \in Nat /\ UnitAddr(v) \in Nat /\ UnitBase <= UnitAddr(u)
             /\ UnitAddr(u) + FM_ALLOC_SIZE <= UnitAddr(v)
  <2>1. /\ u * FM_ALLOC_SIZE \in Nat /\ v * FM_ALLOC_SIZE \in Nat
        /\ u * FM_ALLOC_SIZE + FM_ALLOC_SIZE <= v * FM_ALLOC_SIZE
    BY <1>1, Sizes, Multiples
  <2> QED  BY <2>1, Sizes DEF UnitAddr
<1>2. \A u \in Unit : u \in Nat /\ u < UnitMax
  BY Sizes DEF Unit
<1>3. UnitAddr(0) = UnitBase
  BY Sizes DEF UnitAddr
<1>4. UnitAddr(UnitMax) \in Nat /\ (UnitAddr(UnitMax) <= BlockBase \/ BlockEnd <= UnitBase)
  <2>1. UnitMax * FM_ALLOC_SIZE \in Nat
    BY Sizes
  <2> QED  BY <2>1, Sizes, HeapAssumption DEF UnitAddr
<1> QED  BY <1>1, <1>2, <1>3, <1>4, Sizes

LEMMA UnitAddressesDiffer ==
    ASSUME NEW u \in Unit, NEW v \in Unit, UnitAddr(u) = UnitAddr(v)
    PROVE  u = v
BY Sizes, UnitAddresses

(* The blocks of a list lie in its memory, behind their headers. *)
LEMMA Within ==
    ASSUME NEW list, Laid(list), NEW i \in DOMAIN list
    PROVE  /\ list[i] \in Block /\ DOMAIN list = 1 .. Len(list) /\ Len(list) \in Nat
           /\ list[i].ptr \in Nat /\ list[i].used \in Nat /\ list[i].free \in Nat
           /\ Stop(list[i]) = list[i].ptr + list[i].used + list[i].free
           /\ BlockBase + VM_HEAD_SIZE <= list[i].ptr /\ Stop(list[i]) <= BlockEnd
           /\ i # 1 => BlockBase + VM_HEAD_SIZE < list[i].ptr
<1>1. list \in Seq(Block) /\ DOMAIN list = 1 .. Len(list) /\ Len(list) \in Nat
  BY DEF Laid
<1>2. ASSUME NEW j \in DOMAIN list
      PROVE  /\ list[j] \in Block /\ Stop(list[j]) = list[j].ptr + list[j].used + list[j].free
             /\ list[j].ptr \in Nat /\ list[j].used \in Nat /\ list[j].free \in Nat
  <2>1. list[j] \in Block
    BY <1>1
  <2> QED  BY <2>1 DEF Block, Stop
<1>3. 1 \in DOMAIN list /\ Len(list) \in DOMAIN list
  BY <1>1
<1>4. BlockBase + VM_HEAD_SIZE <= list[i].ptr /\ (i # 1 => BlockBase + VM_HEAD_SIZE < list[i].ptr)
  <2>1. CASE i = 1
    BY <1>2, <2>1, Sizes DEF Laid
  <2>2. CASE i # 1
    <3>1. Stop(list[1]) + VM_HEAD_SIZE <= list[i].ptr
      BY <1>1, <1>3, <2>2 DEF Laid
    <3>2. list[1].ptr = BlockBase + VM_HEAD_SIZE
      BY DEF Laid
    <3>3. Stop(list[1]) >= list[1].ptr /\ Stop(list[1]) \in Nat /\ list[i].ptr \in Nat
      <4>1. Stop(list[1]) = list[1].ptr + list[1].used + list[1].free
        BY <1>2, <1>3
      <4>2. list[1].ptr \in Nat /\ list[1].used \in Nat /\ list[1].free \in Nat
        BY <1>2, <1>3
      <4> QED  BY <1>2, <4>1, <4>2
    <3> HIDE DEF Stop
    <3> QED  BY <2>2, <3>1, <3>2, <3>3, Sizes
  <2> QED  BY <2>1, <2>2
<1>5. Stop(list[i]) <= BlockEnd
  <2>1. CASE i = Len(list)
    BY <1>2, <2>1, Sizes DEF Laid
  <2>2. CASE i # Len(list)
    <3>1. Stop(list[i]) + VM_HEAD_SIZE <= list[Len(list)].ptr
      BY <1>1, <1>3, <2>2 DEF Laid
    <3>2. Stop(list[Len(list)]) = BlockEnd
      BY DEF Laid
    <3>3. Stop(list[i]) \in Nat /\ list[Len(list)].ptr <= BlockEnd
      <4>1. /\ Stop(list[Len(list)]) = list[Len(list)].ptr + list[Len(list)].used
                                       + list[Len(list)].free
            /\ list[Len(list)].ptr \in Nat /\ list[Len(list)].used \in Nat
            /\ list[Len(list)].free \in Nat
        BY <1>2, <1>3
      <4>2. Stop(list[i]) = list[i].ptr + list[i].used + list[i].free
        BY <1>2
      <4>3. list[i].ptr \in Nat /\ list[i].used \in Nat /\ list[i].free \in Nat
        BY <1>2
      <4>4. Stop(list[i]) \in Nat
        BY <4>2, <4>3
      <4>5. list[Len(list)].ptr <= BlockEnd
        BY <3>2, <4>1
      <4> QED  BY <4>4, <4>5
    <3>4. list[Len(list)].ptr \in Nat
      BY <1>2, <1>3
    <3> QED  BY <3>1, <3>3, <3>4, Sizes
  <2> QED  BY <2>1, <2>2
<1> QED  BY <1>1, <1>2, <1>4, <1>5

(* A unit has no address of a block. *)
LEMMA UnitsApart ==
    ASSUME NEW list, Laid(list), NEW i \in DOMAIN list, NEW u \in Unit
    PROVE  UnitAddr(u) # list[i].ptr
<1>1. /\ BlockBase + VM_HEAD_SIZE <= list[i].ptr /\ list[i].ptr < BlockEnd
      /\ list[i].ptr \in Nat
  <2>1. /\ BlockBase + VM_HEAD_SIZE <= list[i].ptr /\ Stop(list[i]) <= BlockEnd
        /\ list[i].ptr \in Nat /\ list[i].used \in Nat /\ list[i].free \in Nat
        /\ Stop(list[i]) = list[i].ptr + list[i].used + list[i].free
    BY Within
  <2>2. i = 1 => list[i].ptr = BlockBase + VM_HEAD_SIZE
    BY DEF Laid
  <2>3. i # 1 => list[i].used > 0
    BY DEF Laid
  <2> QED  BY <2>1, <2>2, <2>3, Sizes
<1>2. /\ UnitAddr(u) \in Nat /\ UnitBase <= UnitAddr(u)
      /\ UnitAddr(u) + FM_ALLOC_SIZE <= UnitAddr(UnitMax)
      /\ UnitAddr(UnitMax) \in Nat
      /\ UnitAddr(UnitMax) <= BlockBase \/ BlockEnd <= UnitBase
  BY UnitAddresses
<1> QED  BY <1>1, <1>2, Sizes

LEMMA BlocksDiffer ==
    ASSUME NEW list, Laid(list), NEW i \in DOMAIN list, NEW j \in DOMAIN list,
           list[i].ptr = list[j].ptr
    PROVE  i = j
<1>1. ASSUME NEW a \in DOMAIN list, NEW b \in DOMAIN list, a < b
      PROVE  list[a].ptr < list[b].ptr
  <2>1. Stop(list[a]) + VM_HEAD_SIZE <= list[b].ptr
    BY <1>1 DEF Laid
  <2>2. /\ Stop(list[a]) = list[a].ptr + list[a].used + list[a].free
        /\ list[a].ptr \in Nat /\ list[a].used \in Nat /\ list[a].free \in Nat
    BY Within
  <2>3. list[b].ptr \in Nat
    BY Within
  <2> QED  BY <2>1, <2>2, <2>3, Sizes
<1>2. i \in Nat /\ j \in Nat /\ list[i].ptr \in Nat
  BY Within
<1> QED  BY <1>1, <1>2

-----------------------------------------------------------------------------
(* What InsertAt and RemoveAt return. *)
LEMMA InsertAtEntries ==
    ASSUME NEW T, NEW s \in Seq(T), NEW i \in 1 .. Len(s) + 1, NEW e \in T
    PROVE  /\ InsertAt(s, i, e) \in Seq(T) /\ Len(InsertAt(s, i, e)) = Len(s) + 1
           /\ \A j \in 1 .. i - 1 : InsertAt(s, i, e)[j] = s[j]
           /\ InsertAt(s, i, e)[i] = e
           /\ \A j \in i + 1 .. Len(s) + 1 : InsertAt(s, i, e)[j] = s[j - 1]
<1> DEFINE a == SubSeq(s, 1, i - 1)
           m == <<e>>
           b == SubSeq(s, i, Len(s))
<1>1. a \in Seq(T) /\ Len(a) = i - 1 /\ \A j \in 1 .. i - 1 : a[j] = s[j]
  OBVIOUS
<1>2. m \in Seq(T) /\ Len(m) = 1 /\ m[1] = e
  OBVIOUS
<1>3. /\ b \in Seq(T) /\ Len(b) = Len(s) - i + 1
      /\ \A j \in 1 .. Len(s) - i + 1 : b[j] = s[i + j - 1]
  OBVIOUS
<1>4. InsertAt(s, i, e) = (a \o m) \o b
  BY DEF InsertAt
<1> HIDE DEF a, m, b
<1> DEFINE h == a \o m
<1>5. /\ h \in Seq(T) /\ Len(h) = i /\ h[i] = e
      /\ \A j \in 1 .. i - 1 : h[j] = s[j]
  <2>1. /\ h \in Seq(T) /\ Len(h) = Len(a) + Len(m)
        /\ \A j \in 1 .. Len(a) + Len(m) : h[j] = IF j <= Len(a) THEN a[j] ELSE m[j - Len(a)]
    BY <1>1, <1>2, ConcatProperties
  <2>2. \A j \in 1 .. i - 1 : h[j] = a[j]
    BY <1>1, <1>2, <2>1
  <2>3. h[i] = m[1]
    BY <1>1, <1>2, <2>1
  <2> HIDE DEF h
  <2> QED  BY <1>1, <1>2, <2>1, <2>2, <2>3
<1> HIDE DEF h
<1>6. h \o b \in Seq(T) /\ Len(h \o b) = Len(s) + 1
  <2>1. h \o b \in Seq(T) /\ Len(h \o b) = Len(h) + Len(b)
    BY <1>3, <1>5, ConcatProperties
  <2> QED  BY <1>3, <1>5, <2>1
<1>7. \A j \in 1 .. i : (h \o b)[j] = h[j]
  BY <1>3, <1>5
<1>8. ASSUME NEW j \in i + 1 .. Len(s) + 1  PROVE  (h \o b)[j] = s[j - 1]
  <2>1. j - i \in 1 .. Len(s) - i + 1 /\ i + (j - i) - 1 = j - 1
    OBVIOUS
  <2>2. (h \o b)[j] = b[j - i]
    BY <1>3, <1>5
  <2> QED  BY <1>3, <2>1, <2>2
<1>9. InsertAt(s, i, e) = h \o b
  BY <1>4 DEF h
<1>10. \A j \in 1 .. i - 1 : j \in 1 .. i
  OBVIOUS
<1>11. i \in 1 .. i
  OBVIOUS
<1> QED  BY <1>5, <1>6, <1>7, <1>8, <1>9, <1>10, <1>11

LEMMA RemoveAtEntries ==
    ASSUME NEW T, NEW s \in Seq(T), NEW i \in 1 .. Len(s)
    PROVE  /\ RemoveAt(s, i) \in Seq(T) /\ Len(RemoveAt(s, i)) = Len(s) - 1
           /\ \A j \in 1 .. i - 1 : RemoveAt(s, i)[j] = s[j]
           /\ \A j \in i .. Len(s) - 1 : RemoveAt(s, i)[j] = s[j + 1]
<1> DEFINE a == SubSeq(s, 1, i - 1)
           b == SubSeq(s, i + 1, Len(s))
<1>1. a \in Seq(T) /\ Len(a) = i - 1 /\ \A j \in 1 .. i - 1 : a[j] = s[j]
  OBVIOUS
<1>2. /\ b \in Seq(T) /\ Len(b) = Len(s) - i
      /\ \A j \in 1 .. Len(s) - i : b[j] = s[i + 1 + j - 1]
  OBVIOUS
<1>3. RemoveAt(s, i) = a \o b
  BY DEF RemoveAt
<1> HIDE DEF a, b
<1>4. a \o b \in Seq(T) /\ Len(a \o b) = Len(s) - 1 /\ \A j \in 1 .. i - 1 : (a \o b)[j] = a[j]
  <2>1. /\ a \o b \in Seq(T) /\ Len(a \o b) = Len(a) + Len(b)
        /\ \A j \in 1 .. Len(a) + Len(b) :
             (a \o b)[j] = IF j <= Len(a) THEN a[j] ELSE b[j - Len(a)]
    BY <1>1, <1>2, ConcatProperties
  <2>2. /\ Len(a) = i - 1 /\ Len(b) = Len(s) - i /\ i \in 1 .. Len(s)
        /\ Len(a) + Len(b) = Len(s) - 1
    BY <1>1, <1>2
  <2>3. ASSUME NEW j \in 1 .. i - 1  PROVE  (a \o b)[j] = a[j]
    <3>1. j \in 1 .. Len(a) + Len(b) /\ j <= Len(a)
      BY <2>2
    <3> QED  BY <2>1, <3>1
  <2> QED  BY <2>1, <2>2, <2>3
<1>5. ASSUME NEW j \in i .. Len(s) - 1  PROVE  (a \o b)[j] = s[j + 1]
  <2>1. j - i + 1 \in 1 .. Len(s) - i /\ i + 1 + (j - i + 1) - 1 = j + 1
    OBVIOUS
  <2>2. (a \o b)[j] = b[j - i + 1]
    BY <1>1, <1>2
  <2> QED  BY <1>2, <2>1, <2>2
<1> QED  BY <1>1, <1>3, <1>4, <1>5

-----------------------------------------------------------------------------
(* VMemAlloc: the free end of a block becomes a block of its own. *)
LEMMA SplitEntries ==
    ASSUME Laid(blocks), NEW size \in Nat, size > 0, NEW i \in DOMAIN blocks,
           Suits(blocks[i], size)
    PROVE  /\ Split(i, size) \in Seq(Block) /\ Len(Split(i, size)) = Len(blocks) + 1
           /\ \A j \in 1 .. i - 1 : Split(i, size)[j] = blocks[j]
           /\ Split(i, size)[i].ptr = blocks[i].ptr /\ Split(i, size)[i].used = blocks[i].used
           /\ Stop(Split(i, size)[i]) + VM_HEAD_SIZE + size = Stop(blocks[i])
           /\ Split(i, size)[i + 1].ptr + size = Stop(blocks[i])
           /\ Split(i, size)[i + 1].used = size
           /\ Stop(Split(i, size)[i + 1]) = Stop(blocks[i])
           /\ \A j \in i + 2 .. Len(blocks) + 1 : Split(i, size)[j] = blocks[j - 1]
<1> DEFINE b == blocks[i]
           c == [b EXCEPT !.free = b.free - (size + VM_HEAD_SIZE)]
           w == [blocks EXCEPT ![i] = c]
           alloc == [ptr |-> b.ptr + b.used + b.free - size, used |-> size, free |-> 0]
<1>1. /\ b \in Block /\ b.ptr \in Nat /\ b.used \in Nat /\ b.free \in Nat
      /\ Stop(b) = b.ptr + b.used + b.free
      /\ DOMAIN blocks = 1 .. Len(blocks) /\ Len(blocks) \in Nat /\ blocks \in Seq(Block)
  BY Within DEF Laid
<1>2. b.free >= size + VM_HEAD_SIZE
  BY DEF Suits
<1>3. /\ c \in Block /\ c.ptr = b.ptr /\ c.used = b.used
      /\ Stop(c) + VM_HEAD_SIZE + size = Stop(b)
  <2>1. b.free - (size + VM_HEAD_SIZE) \in Nat
    BY <1>1, <1>2, Sizes
  <2>2. c \in Block /\ c.ptr = b.ptr /\ c.used = b.used
        /\ c.free = b.free - (size + VM_HEAD_SIZE)
    BY <1>1, <2>1 DEF Block
  <2> HIDE DEF c, b
  <2> QED  BY <1>1, <2>2, Sizes DEF Stop
<1>4. /\ alloc \in Block /\ alloc.ptr + size = Stop(b) /\ alloc.used = size
      /\ Stop(alloc) = Stop(b)
  <2>1. b.ptr + b.used + b.free - size \in Nat
    BY <1>1, <1>2, Sizes
  <2>2. alloc \in Block
    BY <2>1 DEF Block
  <2> HIDE DEF b
  <2> QED  BY <1>1, <2>1, <2>2 DEF Stop
<1>5. w \in Seq(Block) /\ Len(w) = Len(blocks) /\ w[i] = c
      /\ \A j \in 1 .. Len(blocks) : j # i => w[j] = blocks[j]
  <2> HIDE DEF c
  <2> QED  BY <1>1, <1>3, ExceptSeq
<1>6. Split(i, size) = InsertAt(w, i + 1, alloc)
  BY DEF Split
<1> HIDE DEF b, c, w, alloc
<1> DEFINE p == i + 1
<1>7. /\ i \in 1 .. Len(blocks) /\ i \in Nat /\ p \in Nat /\ p = i + 1
      /\ p \in 1 .. Len(w) + 1 /\ i \in 1 .. p - 1
  BY <1>1, <1>5
<1> HIDE DEF p
<1>8. /\ InsertAt(w, p, alloc) \in Seq(Block)
      /\ Len(InsertAt(w, p, alloc)) = Len(w) + 1
      /\ \A j \in 1 .. p - 1 : InsertAt(w, p, alloc)[j] = w[j]
      /\ InsertAt(w, p, alloc)[p] = alloc
      /\ \A j \in p + 1 .. Len(w) + 1 : InsertAt(w, p, alloc)[j] = w[j - 1]
  <2>1. w \in Seq(Block) /\ p \in 1 .. Len(w) + 1 /\ alloc \in Block
    BY <1>4, <1>5, <1>7
  <2>2. InsertAt(w, p, alloc) \in Seq(Block) /\ Len(InsertAt(w, p, alloc)) = Len(w) + 1
    BY <2>1, InsertAtEntries
  <2>3. \A j \in 1 .. p - 1 : InsertAt(w, p, alloc)[j] = w[j]
    BY <2>1, InsertAtEntries
  <2>4. InsertAt(w, p, alloc)[p] = alloc
    BY <2>1, InsertAtEntries
  <2>5. \A j \in p + 1 .. Len(w) + 1 : InsertAt(w, p, alloc)[j] = w[j - 1]
    BY <2>1, InsertAtEntries
  <2> QED  BY <2>2, <2>3, <2>4, <2>5
<1>9. ASSUME NEW j \in 1 .. i - 1  PROVE  Split(i, size)[j] = blocks[j]
  <2>1. j \in 1 .. p - 1 /\ j \in 1 .. Len(blocks) /\ j # i
    <3>1. Len(blocks) \in Nat
      BY <1>1
    <3> QED  BY <3>1, <1>7
  <2>2. InsertAt(w, p, alloc)[j] = w[j] /\ w[j] = blocks[j]
    BY <1>5, <1>8, <2>1
  <2> QED  BY <1>6, <2>2 DEF p
<1>10. ASSUME NEW j \in i + 2 .. Len(blocks) + 1  PROVE  Split(i, size)[j] = blocks[j - 1]
  <2>1. j \in p + 1 .. Len(w) + 1 /\ j - 1 \in 1 .. Len(blocks) /\ j - 1 # i
    <3>1. Len(blocks) \in Nat /\ Len(w) = Len(blocks) /\ p = i + 1 /\ i \in 1 .. Len(blocks)
      BY <1>1, <1>5, <1>7
    <3> QED  BY <3>1
  <2>2. InsertAt(w, p, alloc)[j] = w[j - 1] /\ w[j - 1] = blocks[j - 1]
    BY <1>5, <1>8, <2>1
  <2> QED  BY <1>6, <2>2 DEF p
<1>11. Split(i, size)[i] = c /\ Split(i, size)[i + 1] = alloc
  <2>1. InsertAt(w, p, alloc)[i] = c /\ InsertAt(w, p, alloc)[p] = alloc
    BY <1>5, <1>7, <1>8
  <2> QED  BY <1>6, <2>1 DEF p
<1>12. Split(i, size) \in Seq(Block) /\ Len(Split(i, size)) = Len(blocks) + 1
  BY <1>5, <1>6, <1>8 DEF p
<1> QED  BY <1>3, <1>4, <1>9, <1>10, <1>11, <1>12 DEF b

LEMMA SplitLaid ==
    ASSUME Laid(blocks), NEW size \in Nat, size > 0, NEW i \in DOMAIN blocks,
           Suits(blocks[i], size)
    PROVE  Laid(Split(i, size))
<1> DEFINE s == Split(i, size)
           n == Len(blocks)
           P(j) == blocks[j].ptr
           E(j) == Stop(blocks[j])
<1>1. /\ s \in Seq(Block) /\ Len(s) = n + 1
      /\ \A j \in 1 .. i - 1 : s[j] = blocks[j]
      /\ s[i].ptr = P(i) /\ s[i].used = blocks[i].used
      /\ Stop(s[i]) + VM_HEAD_SIZE + size = E(i)
      /\ s[i + 1].ptr + size = E(i) /\ s[i + 1].used = size /\ Stop(s[i + 1]) = E(i)
      /\ \A j \in i + 2 .. n + 1 : s[j] = blocks[j - 1]
  BY SplitEntries
<1>2. \A j \in 1 .. n : P(j) \in Nat /\ E(j) \in Nat /\ P(j) <= E(j)
  <2> SUFFICES ASSUME NEW j \in 1 .. n  PROVE  P(j) \in Nat /\ E(j) \in Nat /\ P(j) <= E(j)
    OBVIOUS
  <2>1. /\ blocks[j].ptr \in Nat /\ blocks[j].used \in Nat /\ blocks[j].free \in Nat
        /\ Stop(blocks[j]) = blocks[j].ptr + blocks[j].used + blocks[j].free
    BY Within
  <2> QED  BY <2>1
<1>3. DOMAIN blocks = 1 .. n /\ n \in Nat /\ i \in 1 .. n /\ DOMAIN s = 1 .. n + 1
  BY <1>1, Within
<1>4. /\ blocks[1].ptr = BlockBase + VM_HEAD_SIZE /\ blocks[1].used = 0
      /\ \A j \in 1 .. n : j # 1 => blocks[j].used > 0
      /\ \A j \in 1 .. n : j < n => E(j) + VM_HEAD_SIZE = P(j + 1)
      /\ E(n) = BlockEnd
      /\ \A j, k \in 1 .. n : j < k => E(j) + VM_HEAD_SIZE <= P(k)
  BY <1>3 DEF Laid
<1>5. P(i) <= s[i + 1].ptr /\ s[i].ptr \in Nat /\ s[i + 1].ptr \in Nat
      /\ Stop(s[i]) \in Nat /\ Stop(s[i]) + VM_HEAD_SIZE = s[i + 1].ptr
  <2>1. i + 1 \in DOMAIN s /\ i \in DOMAIN s
    BY <1>3
  <2>2. s[i + 1] \in Block /\ s[i] \in Block
    BY <1>1, <2>1
  <2>3. /\ s[i + 1].ptr \in Nat /\ s[i].ptr \in Nat /\ s[i].used \in Nat /\ s[i].free \in Nat
    BY <2>2 DEF Block
  <2>4. Stop(s[i]) = s[i].ptr + s[i].used + s[i].free
    BY DEF Stop
  <2> HIDE DEF s
  <2>5. Stop(s[i]) \in Nat /\ Stop(s[i]) >= s[i].ptr
    BY <2>3, <2>4
  <2>6. E(i) \in Nat
    BY <1>2, <1>3
  <2>7. Stop(s[i]) + VM_HEAD_SIZE = s[i + 1].ptr
    <3>1. Stop(s[i]) + VM_HEAD_SIZE + size = s[i + 1].ptr + size
      BY <1>1
    <3> HIDE DEF Stop
    <3> QED  BY <2>3, <2>5, <3>1, Sizes
  <2>8. P(i) <= s[i + 1].ptr
    BY <1>1, <2>3, <2>5, <2>7, Sizes
  <2> QED  BY <2>3, <2>5, <2>7, <2>8
<1> HIDE DEF s, P, E, n
<1>6. s # <<>> /\ s[1].ptr = BlockBase + VM_HEAD_SIZE /\ s[1].used = 0
  <2>1. CASE i = 1
    BY <1>1, <1>3, <1>4, <2>1 DEF P
  <2>2. CASE i # 1
    <3>1. 1 \in 1 .. i - 1
      BY <1>3, <2>2
    <3>2. s[1] = blocks[1]
      BY <1>1, <3>1
    <3>3. s # <<>>
      BY <1>1, <1>3
    <3> QED  BY <1>4, <3>2, <3>3
  <2> QED  BY <2>1, <2>2
<1>7. ASSUME NEW j \in 1 .. n + 1, j # 1  PROVE  s[j].used > 0
  <2>1. CASE j < i
    <3>1. j \in 1 .. i - 1 /\ j \in 1 .. n
      BY <1>3, <2>1
    <3>2. s[j] = blocks[j] /\ blocks[j].used > 0
      BY <1>1, <1>4, <1>7, <3>1
    <3> QED  BY <3>2
  <2>2. CASE j = i
    BY <1>1, <1>3, <1>4, <1>7, <2>2
  <2>3. CASE j = i + 1
    BY <1>1, <2>3
  <2>4. CASE j > i + 1
    <3>1. s[j] = blocks[j - 1] /\ j - 1 \in 1 .. n /\ j - 1 # 1
      BY <1>1, <1>3, <2>4
    <3> QED  BY <1>4, <3>1
  <2> QED  BY <1>3, <2>1, <2>2, <2>3, <2>4
<1>8. /\ \A j \in 1 .. i : s[j].ptr = P(j)
      /\ \A j \in 1 .. i - 1 : Stop(s[j]) = E(j)
      /\ \A j \in i + 2 .. n + 1 : s[j].ptr = P(j - 1) /\ Stop(s[j]) = E(j - 1)
  BY <1>1, <1>3 DEF P, E
<1>9. ASSUME NEW j \in 1 .. n + 1, NEW k \in 1 .. n + 1, j < k
      PROVE  Stop(s[j]) + VM_HEAD_SIZE <= s[k].ptr
  <2>1. CASE j < i /\ k <= i
    <3>1. j \in 1 .. i - 1 /\ k \in 1 .. i /\ j \in 1 .. n /\ k \in 1 .. n
      BY <1>3, <2>1
    <3>2. Stop(s[j]) = E(j) /\ s[k].ptr = P(k)
      BY <1>8, <3>1
    <3>3. E(j) + VM_HEAD_SIZE <= P(k)
      BY <1>4, <1>9, <3>1
    <3> QED  BY <3>2, <3>3
  <2>2. CASE j < i /\ k = i + 1
    <3>1. E(j) + VM_HEAD_SIZE <= P(i) /\ Stop(s[j]) = E(j)
      BY <1>3, <1>4, <1>8, <2>2
    <3>2. j \in 1 .. n /\ i \in 1 .. n
      BY <1>3, <2>2
    <3>3. E(j) \in Nat /\ P(i) \in Nat
      BY <1>2, <3>2
    <3>4. s[k].ptr \in Nat /\ P(i) <= s[k].ptr
      BY <1>5, <2>2
    <3>5. E(j) + VM_HEAD_SIZE <= s[k].ptr
      BY <3>1, <3>3, <3>4, HeadSize
    <3> QED  BY <3>1, <3>5
  <2>3. CASE j < i /\ k > i + 1
    <3>1. j \in 1 .. i - 1 /\ k \in i + 2 .. n + 1 /\ j \in 1 .. n /\ k - 1 \in 1 .. n
          /\ j < k - 1
      BY <1>3, <2>3
    <3>2. Stop(s[j]) = E(j) /\ s[k].ptr = P(k - 1)
      BY <1>8, <3>1
    <3>3. E(j) + VM_HEAD_SIZE <= P(k - 1)
      BY <1>4, <3>1
    <3> QED  BY <3>2, <3>3
  <2>4. CASE j = i /\ k = i + 1
    BY <1>5, <2>4, Sizes
  <2>5. CASE j = i /\ k > i + 1
    <3>1. E(i) + VM_HEAD_SIZE <= P(k - 1) /\ s[k].ptr = P(k - 1) /\ k - 1 \in 1 .. n
      BY <1>3, <1>4, <1>8, <2>5
    <3>2. E(i) \in Nat /\ P(k - 1) \in Nat
      BY <1>2, <1>3, <3>1
    <3>3. Stop(s[i]) \in Nat /\ Stop(s[i]) + VM_HEAD_SIZE + size = E(i)
      BY <1>1, <1>5
    <3>4. Stop(s[i]) + VM_HEAD_SIZE <= P(k - 1)
      BY <3>1, <3>2, <3>3, HeadSize
    <3> QED  BY <2>5, <3>1, <3>4
  <2>6. CASE j = i + 1
    <3>1. E(i) + VM_HEAD_SIZE <= P(k - 1) /\ s[k].ptr = P(k - 1)
      <4>1. k \in i + 2 .. n + 1 /\ k - 1 \in 1 .. n /\ i \in 1 .. n /\ i < k - 1
        BY <1>3, <1>9, <2>6
      <4> QED  BY <1>4, <1>8, <4>1
    <3> QED  BY <1>1, <2>6, <3>1
  <2>7. CASE j > i + 1
    <3>1. j \in i + 2 .. n + 1 /\ k \in i + 2 .. n + 1 /\ j - 1 \in 1 .. n
          /\ k - 1 \in 1 .. n /\ j - 1 < k - 1
      BY <1>3, <1>9, <2>7
    <3>2. Stop(s[j]) = E(j - 1) /\ s[k].ptr = P(k - 1)
      BY <1>8, <3>1
    <3>3. E(j - 1) + VM_HEAD_SIZE <= P(k - 1)
      BY <1>4, <3>1
    <3> QED  BY <3>2, <3>3
  <2> QED  BY <1>3, <1>9, <2>1, <2>2, <2>3, <2>4, <2>5, <2>6, <2>7
<1>10. ASSUME NEW j \in 1 .. n + 1, j < n + 1
       PROVE  Stop(s[j]) + VM_HEAD_SIZE = s[j + 1].ptr
  <2>1. CASE j < i
    BY <1>3, <1>4, <1>8, <2>1
  <2>2. CASE j = i
    BY <1>5, <2>2
  <2>3. CASE j = i + 1
    <3>1. E(i) + VM_HEAD_SIZE = P(i + 1) /\ s[j + 1].ptr = P(i + 1)
      BY <1>3, <1>4, <1>8, <1>10, <2>3
    <3> QED  BY <1>1, <2>3, <3>1
  <2>4. CASE j > i + 1
    <3>1. E(j - 1) + VM_HEAD_SIZE = P(j - 1 + 1) /\ s[j + 1].ptr = P(j + 1 - 1)
          /\ Stop(s[j]) = E(j - 1)
      BY <1>3, <1>4, <1>8, <1>10, <2>4
    <3> QED  BY <1>3, <3>1
  <2> QED  BY <1>3, <2>1, <2>2, <2>3, <2>4
<1>11. Stop(s[n + 1]) = BlockEnd
  <2>1. CASE i = n
    BY <1>1, <1>4, <2>1
  <2>2. CASE i < n
    <3>1. Stop(s[n + 1]) = E(n + 1 - 1) /\ n + 1 - 1 = n
      BY <1>3, <1>8, <2>2
    <3> QED  BY <1>4, <3>1
  <2> QED  BY <1>3, <2>1, <2>2
<1>12. Laid(s)
  BY <1>1, <1>3, <1>6, <1>7, <1>9, <1>10, <1>11 DEF Laid
<1> QED  BY <1>12 DEF s

(* VMemFree: a block becomes free space of the one before it. *)
LEMMA MergedEntries ==
    ASSUME Laid(blocks), NEW h \in Nat, h \in DOMAIN blocks, h + 1 \in DOMAIN blocks
    PROVE  /\ Merged(h + 1) \in Seq(Block) /\ Len(Merged(h + 1)) = Len(blocks) - 1
           /\ \A j \in 1 .. h - 1 : Merged(h + 1)[j] = blocks[j]
           /\ Merged(h + 1)[h].ptr = blocks[h].ptr /\ Merged(h + 1)[h].used = blocks[h].used
           /\ Stop(Merged(h + 1)[h]) = Stop(blocks[h + 1])
           /\ \A j \in h + 1 .. Len(blocks) - 1 : Merged(h + 1)[j] = blocks[j + 1]
<1> DEFINE b == blocks[h + 1]
           prev == blocks[h]
           g == Grown(prev, b)
           w == [blocks EXCEPT ![h] = g]
           p == h + 1
<1>1. /\ b \in Block /\ b.ptr \in Nat /\ b.used \in Nat /\ b.free \in Nat
      /\ Stop(b) = b.ptr + b.used + b.free
      /\ DOMAIN blocks = 1 .. Len(blocks) /\ Len(blocks) \in Nat /\ blocks \in Seq(Block)
  BY Within DEF Laid
<1>2. /\ prev \in Block /\ prev.ptr \in Nat /\ prev.used \in Nat /\ prev.free \in Nat
      /\ Stop(prev) = prev.ptr + prev.used + prev.free
  BY Within
<1>3. Stop(prev) + VM_HEAD_SIZE = b.ptr
  BY <1>1 DEF Laid
<1> HIDE DEF b, prev
<1>4. g \in Block /\ g.ptr = prev.ptr /\ g.used = prev.used /\ Stop(g) = Stop(b)
  <2>1. prev.free + VM_HEAD_SIZE + b.used + b.free \in Nat
    <3>1. prev.free \in Nat /\ b.used \in Nat /\ b.free \in Nat
      BY <1>1, <1>2
    <3> QED  BY <3>1, HeadSize
  <2>2. /\ g \in Block /\ g.ptr = prev.ptr /\ g.used = prev.used
        /\ g.free = prev.free + VM_HEAD_SIZE + b.used + b.free
    BY <1>2, <2>1 DEF Grown, Block
  <2> HIDE DEF g
  <2>3. Stop(g) = prev.ptr + prev.used + (prev.free + VM_HEAD_SIZE + b.used + b.free)
    BY <2>2 DEF Stop
  <2>4. prev.ptr + prev.used + prev.free + VM_HEAD_SIZE = b.ptr
    BY <1>2, <1>3
  <2>5. Stop(b) = b.ptr + b.used + b.free
    BY <1>1
  <2>6. Stop(g) = Stop(b)
    <3>1. /\ prev.ptr \in Nat /\ prev.used \in Nat /\ prev.free \in Nat
          /\ b.ptr \in Nat /\ b.used \in Nat /\ b.free \in Nat /\ VM_HEAD_SIZE \in Nat
      BY <1>1, <1>2, Sizes
    <3>2. prev.ptr + prev.used + (prev.free + VM_HEAD_SIZE + b.used + b.free)
            = (prev.ptr + prev.used + prev.free + VM_HEAD_SIZE) + b.used + b.free
      BY <3>1
    <3> QED  BY <2>3, <2>4, <2>5, <3>2
  <2> QED  BY <2>2, <2>6
<1> HIDE DEF g
<1>5. w \in Seq(Block) /\ Len(w) = Len(blocks) /\ w[h] = g
      /\ \A j \in 1 .. Len(blocks) : j # h => w[j] = blocks[j]
  BY <1>1, <1>4, ExceptSeq
<1>6. Merged(h + 1) = RemoveAt(w, p)
  <2>1. h + 1 - 1 = h
    OBVIOUS
  <2>2. w = [blocks EXCEPT ![h] = Grown(@, blocks[h + 1])]
    BY DEF g, prev, b
  <2> QED  BY <2>1, <2>2 DEF Merged
<1>7. p = h + 1 /\ p \in 1 .. Len(w) /\ h \in 1 .. p - 1
  BY <1>1, <1>5
<1> HIDE DEF w, p
<1>8. RemoveAt(w, p) \in Seq(Block) /\ Len(RemoveAt(w, p)) = Len(w) - 1
  BY <1>5, <1>7, RemoveAtEntries
<1>9. \A j \in 1 .. p - 1 : RemoveAt(w, p)[j] = w[j]
  BY <1>5, <1>7, RemoveAtEntries
<1>10. \A j \in p .. Len(w) - 1 : RemoveAt(w, p)[j] = w[j + 1]
  BY <1>5, <1>7, RemoveAtEntries
<1>11. ASSUME NEW j \in 1 .. h - 1  PROVE  Merged(h + 1)[j] = blocks[j]
  <2>1. j \in 1 .. p - 1 /\ j \in 1 .. Len(blocks) /\ j # h
    BY <1>1, <1>7
  <2> QED  BY <1>5, <1>6, <1>9, <2>1
<1>12. ASSUME NEW j \in h + 1 .. Len(blocks) - 1  PROVE  Merged(h + 1)[j] = blocks[j + 1]
  <2>1. j \in p .. Len(w) - 1 /\ j + 1 \in 1 .. Len(blocks) /\ j + 1 # h
    BY <1>1, <1>5, <1>7
  <2> QED  BY <1>5, <1>6, <1>10, <2>1
<1>13. Merged(h + 1)[h] = g
  BY <1>5, <1>6, <1>7, <1>9
<1> QED  BY <1>4, <1>5, <1>6, <1>8, <1>11, <1>12, <1>13 DEF b, prev

LEMMA MergedLaid ==
    ASSUME Laid(blocks), NEW h \in Nat, h \in DOMAIN blocks, h + 1 \in DOMAIN blocks
    PROVE  Laid(Merged(h + 1))
<1> DEFINE m == Merged(h + 1)
           n == Len(blocks)
           P(j) == blocks[j].ptr
           E(j) == Stop(blocks[j])
<1>1. /\ m \in Seq(Block) /\ Len(m) = n - 1
      /\ \A j \in 1 .. h - 1 : m[j] = blocks[j]
      /\ m[h].ptr = P(h) /\ m[h].used = blocks[h].used /\ Stop(m[h]) = E(h + 1)
      /\ \A j \in h + 1 .. n - 1 : m[j] = blocks[j + 1]
  BY MergedEntries
<1>2. DOMAIN blocks = 1 .. n /\ n \in Nat /\ h \in 1 .. n - 1 /\ DOMAIN m = 1 .. n - 1
  BY <1>1, Within
<1>3. /\ blocks[1].ptr = BlockBase + VM_HEAD_SIZE /\ blocks[1].used = 0
      /\ \A j \in 1 .. n : j # 1 => blocks[j].used > 0
      /\ \A j \in 1 .. n : j < n => E(j) + VM_HEAD_SIZE = P(j + 1)
      /\ E(n) = BlockEnd
      /\ \A j, k \in 1 .. n : j < k => E(j) + VM_HEAD_SIZE <= P(k)
  BY <1>2 DEF Laid
<1>4. /\ \A j \in 1 .. h : m[j].ptr = P(j) /\ m[j].used = blocks[j].used
      /\ \A j \in 1 .. h - 1 : Stop(m[j]) = E(j)
      /\ Stop(m[h]) = E(h + 1)
      /\ \A j \in h + 1 .. n - 1 : /\ m[j].ptr = P(j + 1) /\ Stop(m[j]) = E(j + 1)
                                   /\ m[j].used = blocks[j + 1].used
  <2>1. ASSUME NEW j \in 1 .. h
        PROVE  m[j].ptr = P(j) /\ m[j].used = blocks[j].used
    <3>1. CASE j = h
      BY <1>1, <3>1
    <3>2. CASE j # h
      <4>1. j \in 1 .. h - 1
        BY <3>2
      <4> QED  BY <1>1, <4>1
    <3> QED  BY <3>1, <3>2
  <2>2. ASSUME NEW j \in 1 .. h - 1  PROVE  Stop(m[j]) = E(j)
    BY <1>1, <2>2
  <2>3. ASSUME NEW j \in h + 1 .. n - 1
        PROVE  /\ m[j].ptr = P(j + 1) /\ Stop(m[j]) = E(j + 1)
               /\ m[j].used = blocks[j + 1].used
    BY <1>1, <2>3
  <2> QED  BY <1>1, <2>1, <2>2, <2>3
<1> HIDE DEF m, P, E, n
<1>5. m # <<>> /\ m[1].ptr = BlockBase + VM_HEAD_SIZE /\ m[1].used = 0
  <2>1. 1 \in 1 .. h
    BY <1>2
  <2> QED  BY <1>1, <1>2, <1>3, <1>4, <2>1 DEF P
<1>6. ASSUME NEW j \in 1 .. n - 1, j # 1  PROVE  m[j].used > 0
  <2>1. CASE j <= h
    <3>1. j \in 1 .. h /\ j \in 1 .. n
      BY <1>2, <2>1
    <3>2. m[j].used = blocks[j].used /\ blocks[j].used > 0
      BY <1>3, <1>4, <1>6, <3>1
    <3> QED  BY <3>2
  <2>2. CASE j > h
    <3>1. j \in h + 1 .. n - 1 /\ j + 1 \in 1 .. n /\ j + 1 # 1
      BY <1>2, <2>2
    <3>2. m[j].used = blocks[j + 1].used /\ blocks[j + 1].used > 0
      BY <1>3, <1>4, <3>1
    <3> QED  BY <3>2
  <2> QED  BY <1>2, <2>1, <2>2
<1>7. ASSUME NEW j \in 1 .. n - 1, NEW k \in 1 .. n - 1, j < k
      PROVE  Stop(m[j]) + VM_HEAD_SIZE <= m[k].ptr
  <2>1. CASE k <= h
    <3>1. j \in 1 .. h - 1 /\ k \in 1 .. h /\ j \in 1 .. n /\ k \in 1 .. n
      BY <1>2, <1>7, <2>1
    <3>2. Stop(m[j]) = E(j) /\ m[k].ptr = P(k)
      BY <1>4, <3>1
    <3>3. E(j) + VM_HEAD_SIZE <= P(k)
      BY <1>3, <1>7, <3>1
    <3> QED  BY <3>2, <3>3
  <2>2. CASE j < h /\ k > h
    <3>1. j \in 1 .. h - 1 /\ k \in h + 1 .. n - 1 /\ j \in 1 .. n /\ k + 1 \in 1 .. n
          /\ j < k + 1
      BY <1>2, <1>7, <2>2
    <3>2. Stop(m[j]) = E(j) /\ m[k].ptr = P(k + 1)
      BY <1>4, <3>1
    <3>3. E(j) + VM_HEAD_SIZE <= P(k + 1)
      BY <1>3, <3>1
    <3> QED  BY <3>2, <3>3
  <2>3. CASE j >= h
    <3>1. k \in h + 1 .. n - 1 /\ j + 1 \in 1 .. n /\ k + 1 \in 1 .. n /\ j + 1 < k + 1
          /\ (j = h \/ j \in h + 1 .. n - 1)
      BY <1>2, <1>7, <2>3
    <3>2. Stop(m[j]) = E(j + 1) /\ m[k].ptr = P(k + 1)
      BY <1>4, <3>1
    <3>3. E(j + 1) + VM_HEAD_SIZE <= P(k + 1)
      BY <1>3, <3>1
    <3> QED  BY <3>2, <3>3
  <2> QED  BY <1>2, <1>7, <2>1, <2>2, <2>3
<1>8. ASSUME NEW j \in 1 .. n - 1, j < n - 1
      PROVE  Stop(m[j]) + VM_HEAD_SIZE = m[j + 1].ptr
  <2>1. CASE j < h
    <3>1. j \in 1 .. h - 1 /\ j + 1 \in 1 .. h /\ j \in 1 .. n /\ j < n
      BY <1>2, <2>1
    <3>2. Stop(m[j]) = E(j) /\ m[j + 1].ptr = P(j + 1)
      BY <1>4, <3>1
    <3>3. E(j) + VM_HEAD_SIZE = P(j + 1)
      BY <1>3, <3>1
    <3> QED  BY <3>2, <3>3
  <2>2. CASE j >= h
    <3>1. (j = h \/ j \in h + 1 .. n - 1) /\ j + 1 \in h + 1 .. n - 1
          /\ j + 1 \in 1 .. n /\ j + 1 < n
      BY <1>2, <1>8, <2>2
    <3>2. Stop(m[j]) = E(j + 1) /\ m[j + 1].ptr = P(j + 1 + 1)
      BY <1>4, <3>1
    <3>3. E(j + 1) + VM_HEAD_SIZE = P(j + 1 + 1)
      BY <1>3, <3>1
    <3> QED  BY <3>2, <3>3
  <2> QED  BY <1>2, <2>1, <2>2
<1>9. Stop(m[n - 1]) = BlockEnd
  <2>1. CASE h = n - 1
    BY <1>2, <1>3, <1>4, <2>1
  <2>2. CASE h < n - 1
    <3>1. n - 1 \in h + 1 .. n - 1 /\ n - 1 + 1 = n
      BY <1>2, <2>2
    <3>2. Stop(m[n - 1]) = E(n - 1 + 1)
      BY <1>4, <3>1
    <3> QED  BY <1>3, <3>1, <3>2
  <2> QED  BY <1>2, <2>1, <2>2
<1>10. Laid(m)
  BY <1>1, <1>2, <1>5, <1>6, <1>7, <1>8, <1>9 DEF Laid
<1> QED  BY <1>10 DEF m

-----------------------------------------------------------------------------
(* The blocks that belong to callers, after a split and after a merge. *)
LEMMA SplitCallers ==
    ASSUME Laid(blocks), NEW size \in Nat, size > 0, NEW i \in DOMAIN blocks,
           Suits(blocks[i], size), blocks' = Split(i, size)
    PROVE  /\ Laid(blocks)' /\ i + 1 \in DOMAIN blocks' \ {1}
           /\ blocks'[i + 1].used = size
           /\ \A k \in DOMAIN blocks' \ {1, i + 1} : \E j \in DOMAIN blocks \ {1} :
                blocks'[k].ptr = blocks[j].ptr /\ blocks'[k].used = blocks[j].used
           /\ \A j \in DOMAIN blocks \ {1} : \E k \in DOMAIN blocks' \ {1, i + 1} :
                blocks'[k].ptr = blocks[j].ptr /\ blocks'[k].used = blocks[j].used
           /\ \A j \in DOMAIN blocks : blocks'[i + 1].ptr # blocks[j].ptr
<1> DEFINE n == Len(blocks)
<1>1. /\ blocks' \in Seq(Block) /\ Len(blocks') = n + 1
      /\ \A j \in 1 .. i - 1 : blocks'[j] = blocks[j]
      /\ blocks'[i].ptr = blocks[i].ptr /\ blocks'[i].used = blocks[i].used
      /\ blocks'[i + 1].used = size
      /\ \A j \in i + 2 .. n + 1 : blocks'[j] = blocks[j - 1]
  BY SplitEntries
<1>2. Laid(blocks')
  BY SplitLaid
<1>3. DOMAIN blocks = 1 .. n /\ n \in Nat /\ i \in 1 .. n /\ DOMAIN blocks' = 1 .. n + 1
  BY <1>1, Within
<1> HIDE DEF n
<1>4. ASSUME NEW k \in DOMAIN blocks', k # i + 1
      PROVE  \E j \in DOMAIN blocks :
               /\ blocks'[k].ptr = blocks[j].ptr /\ blocks'[k].used = blocks[j].used
               /\ k # 1 => j # 1
  <2>1. CASE k <= i
    <3>1. k \in DOMAIN blocks /\ (k = i \/ k \in 1 .. i - 1)
      BY <1>3, <2>1
    <3> QED  BY <1>1, <3>1
  <2>2. CASE k > i
    <3>1. k \in i + 2 .. n + 1 /\ k - 1 \in DOMAIN blocks /\ k - 1 # 1
      BY <1>3, <1>4, <2>2
    <3>2. blocks'[k] = blocks[k - 1]
      BY <1>1, <3>1
    <3> QED  BY <3>1, <3>2
  <2> QED  BY <1>3, <2>1, <2>2
<1>5. ASSUME NEW j \in DOMAIN blocks
      PROVE  \E k \in DOMAIN blocks' \ {i + 1} :
               /\ blocks'[k].ptr = blocks[j].ptr /\ blocks'[k].used = blocks[j].used
               /\ j # 1 => k # 1
  <2>1. CASE j <= i
    <3>1. j \in DOMAIN blocks' \ {i + 1} /\ (j = i \/ j \in 1 .. i - 1)
      BY <1>3, <2>1
    <3> QED  BY <1>1, <3>1
  <2>2. CASE j > i
    <3> DEFINE k == j + 1
    <3>1. k \in i + 2 .. n + 1 /\ k - 1 = j /\ k \in DOMAIN blocks' \ {1, i + 1}
      BY <1>3, <2>2
    <3> HIDE DEF k
    <3>2. blocks'[k] = blocks[j]
      BY <1>1, <3>1
    <3> QED  BY <3>1, <3>2
  <2> QED  BY <1>3, <2>1, <2>2
<1>6. i + 1 \in DOMAIN blocks' /\ i + 1 # 1
  BY <1>3
<1>7. ASSUME NEW j \in DOMAIN blocks, blocks'[i + 1].ptr = blocks[j].ptr
      PROVE  FALSE
  <2>1. PICK k \in DOMAIN blocks' \ {i + 1} : blocks'[k].ptr = blocks[j].ptr
    BY <1>5
  <2> QED  BY <1>2, <1>6, <1>7, <2>1, BlocksDiffer
<1>8. Laid(blocks)'
  BY <1>2 DEF Laid
<1> QED  BY <1>1, <1>4, <1>5, <1>6, <1>7, <1>8

LEMMA MergedCallers ==
    ASSUME Laid(blocks), NEW i \in DOMAIN blocks \ {1}, blocks' = Merged(i)
    PROVE  /\ Laid(blocks)'
           /\ \A k \in DOMAIN blocks' \ {1} : \E j \in DOMAIN blocks \ {1, i} :
                blocks'[k].ptr = blocks[j].ptr /\ blocks'[k].used = blocks[j].used
           /\ \A j \in DOMAIN blocks \ {1, i} : \E k \in DOMAIN blocks' \ {1} :
                blocks'[k].ptr = blocks[j].ptr /\ blocks'[k].used = blocks[j].used
           /\ \A j \in DOMAIN blocks \ {i} : blocks[j].ptr # blocks[i].ptr
<1> DEFINE n == Len(blocks)
           h == i - 1
<1>1. DOMAIN blocks = 1 .. n /\ n \in Nat
  BY Within
<1>2. h \in Nat /\ h \in DOMAIN blocks /\ h + 1 = i /\ i \in Nat /\ h + 1 \in DOMAIN blocks
  BY <1>1
<1> HIDE DEF h, n
<1>3. blocks' = Merged(h + 1)
  BY <1>2
<1>4. /\ blocks' \in Seq(Block) /\ Len(blocks') = n - 1
      /\ \A j \in 1 .. h - 1 : blocks'[j] = blocks[j]
      /\ blocks'[h].ptr = blocks[h].ptr /\ blocks'[h].used = blocks[h].used
      /\ \A j \in h + 1 .. n - 1 : blocks'[j] = blocks[j + 1]
  BY <1>2, <1>3, MergedEntries DEF n
<1>5. Laid(blocks')
  BY <1>2, <1>3, MergedLaid
<1>6. DOMAIN blocks' = 1 .. n - 1
  BY <1>1, <1>4
<1>7. ASSUME NEW k \in DOMAIN blocks' \ {1}
      PROVE  \E j \in DOMAIN blocks \ {1, i} :
               blocks'[k].ptr = blocks[j].ptr /\ blocks'[k].used = blocks[j].used
  <2>1. CASE k <= h
    <3>1. k \in DOMAIN blocks \ {1, i} /\ (k = h \/ k \in 1 .. h - 1)
      BY <1>1, <1>2, <1>6, <2>1
    <3> QED  BY <1>4, <3>1
  <2>2. CASE k > h
    <3>1. k \in h + 1 .. n - 1 /\ k + 1 \in DOMAIN blocks \ {1, i}
      BY <1>1, <1>2, <1>6, <2>2
    <3> QED  BY <1>4, <3>1
  <2> QED  BY <1>2, <1>6, <2>1, <2>2
<1>8. ASSUME NEW j \in DOMAIN blocks \ {1, i}
      PROVE  \E k \in DOMAIN blocks' \ {1} :
               blocks'[k].ptr = blocks[j].ptr /\ blocks'[k].used = blocks[j].used
  <2>1. CASE j <= h
    <3>1. j \in DOMAIN blocks' \ {1} /\ (j = h \/ j \in 1 .. h - 1)
      BY <1>1, <1>2, <1>6, <2>1
    <3> QED  BY <1>4, <3>1
  <2>2. CASE j > h
    <3>1. j - 1 \in h + 1 .. n - 1 /\ j - 1 + 1 = j /\ j - 1 \in DOMAIN blocks' \ {1}
      BY <1>1, <1>2, <1>6, <2>2
    <3>2. blocks'[j - 1] = blocks[j]
      BY <1>4, <3>1
    <3> QED  BY <3>1, <3>2
  <2> QED  BY <1>1, <1>2, <2>1, <2>2
<1>9. \A j \in DOMAIN blocks \ {i} : blocks[j].ptr # blocks[i].ptr
  BY BlocksDiffer
<1>10. Laid(blocks)'
  BY <1>5 DEF Laid
<1> QED  BY <1>7, <1>8, <1>9, <1>10

-----------------------------------------------------------------------------
LEMMA GivenLive ==
    ASSUME HTypes, NEW ptr \in Nat \ DOMAIN live, NEW size \in Size, Given(ptr, size)
    PROVE  /\ DOMAIN live' = DOMAIN live \cup {ptr} /\ DOMAIN live' \in SUBSET Nat
           /\ live' \in [DOMAIN live' -> Size]
           /\ live'[ptr] = size /\ \A p \in DOMAIN live : live'[p] = live[p]
<1>1. live' = [p \in DOMAIN live \cup {ptr} |-> IF p = ptr THEN size ELSE live[p]]
  BY DEF Given
<1>2. DOMAIN live \in SUBSET Nat /\ \A p \in DOMAIN live : live[p] \in Size
  BY DEF HTypes
<1> QED  BY <1>1, <1>2

LEMMA ReleasedLive ==
    ASSUME HTypes, NEW ptr \in DOMAIN live, live' = Restrict(live, DOMAIN live \ {ptr})
    PROVE  /\ DOMAIN live' = DOMAIN live \ {ptr} /\ DOMAIN live' \in SUBSET Nat
           /\ live' \in [DOMAIN live' -> Size]
           /\ \A p \in DOMAIN live' : live'[p] = live[p]
<1>1. live' = [p \in DOMAIN live \ {ptr} |-> live[p]]
  BY DEF Restrict
<1>2. DOMAIN live \in SUBSET Nat /\ \A p \in DOMAIN live : live[p] \in Size
  BY DEF HTypes
<1> QED  BY <1>1, <1>2

LEMMA HInitially == Init => HInv
<1> SUFFICES ASSUME Init  PROVE  HInv
  OBVIOUS
<1>1. /\ freeUnits = [i \in 1 .. UnitMax |-> i - 1] /\ held = {} /\ live = <<>>
      /\ blocks = <<[ptr |-> BlockBase + VM_HEAD_SIZE, used |-> 0,
                     free |-> BlockEnd - BlockBase - VM_HEAD_SIZE]>>
  BY DEF Init
<1>2. HTypes
  <2>1. freeUnits \in Seq(Unit)
    <3>1. \A i \in 1 .. UnitMax : i - 1 \in Unit
      BY Sizes DEF Unit
    <3> QED  BY <1>1, <3>1, Sizes
  <2>2. DOMAIN live = {} /\ live \in [{} -> Size]
    BY <1>1
  <2> QED  BY <1>1, <2>1, <2>2 DEF HTypes
<1>3. Laid(blocks)
  <2> DEFINE b == [ptr |-> BlockBase + VM_HEAD_SIZE, used |-> 0,
                   free |-> BlockEnd - BlockBase - VM_HEAD_SIZE]
  <2>1. BlockEnd - BlockBase - VM_HEAD_SIZE \in Nat /\ BlockBase + VM_HEAD_SIZE \in Nat
    BY Sizes
  <2>2. b \in Block /\ b.ptr = BlockBase + VM_HEAD_SIZE /\ b.used = 0 /\ Stop(b) = BlockEnd
    BY <2>1, Sizes DEF Block, Stop
  <2> HIDE DEF b
  <2>3. blocks \in Seq(Block) /\ DOMAIN blocks = {1} /\ Len(blocks) = 1 /\ blocks[1] = b
    BY <1>1, <2>2 DEF b
  <2>4. /\ blocks # <<>> /\ blocks[1].ptr = BlockBase + VM_HEAD_SIZE /\ blocks[1].used = 0
        /\ Stop(blocks[Len(blocks)]) = BlockEnd
    <3>1. blocks # <<>>
      BY <2>3
    <3>2. blocks[Len(blocks)] = b
      BY <2>3, Zenon
    <3> QED  BY <2>2, <2>3, <3>1, <3>2, Zenon
  <2>5. \A i \in DOMAIN blocks : i = 1 /\ ~(i < Len(blocks))
    BY <2>3
  <2>6. \A i, j \in DOMAIN blocks : ~(i < j)
    BY <2>3
  <2> QED  BY <2>3, <2>4, <2>5, <2>6 DEF Laid
<1>4. UnitsOnce
  <2>1. IsInjective(freeUnits)
    BY <1>1, Sizes DEF IsInjective
  <2>2. ASSUME NEW u \in Unit  PROVE  u \in ToSet(freeUnits)
    <3> DEFINE k == u + 1
    <3>1. k \in 1 .. UnitMax /\ k - 1 = u
      BY Sizes DEF Unit
    <3> HIDE DEF k
    <3>2. k \in DOMAIN freeUnits /\ freeUnits[k] = u
      BY <1>1, <3>1
    <3> QED  BY <3>2, Zenon DEF ToSet
  <2>3. ToSet(freeUnits) \subseteq Unit
    BY <1>2 DEF HTypes, ToSet
  <2> QED  BY <1>1, <2>1, <2>2, <2>3 DEF UnitsOnce
<1>5. Callers
  <2>1. DOMAIN live = {} /\ held = {} /\ DOMAIN blocks = {1}
    BY <1>1
  <2> QED  BY <2>1 DEF Callers
<1> QED  BY <1>2, <1>3, <1>4, <1>5 DEF HInv

-----------------------------------------------------------------------------
(* FMemAlloc hands out a unit nobody holds. *)
LEMMA FMemAllocKeeps ==
    ASSUME HInv, NEW size \in Size, size <= FM_ALLOC_SIZE, freeUnits # <<>>, FMemAlloc(size)
    PROVE  HInv'
<1> DEFINE u == Head(freeUnits)
<1>1. HTypes /\ Laid(blocks) /\ UnitsOnce /\ Callers
  BY DEF HInv
<1>2. /\ freeUnits' = Tail(freeUnits) /\ held' = held \cup {u}
      /\ Given(UnitAddr(u), size) /\ blocks' = blocks
  BY DEF FMemAlloc, UnitTaken
<1>3. /\ u \in Unit /\ freeUnits' \in Seq(Unit) /\ ToSet(freeUnits) = {u} \cup ToSet(freeUnits')
      /\ IsInjective(freeUnits) <=> u \notin ToSet(freeUnits') /\ IsInjective(freeUnits')
  BY <1>1, <1>2, FrontAndRest DEF HTypes
<1> HIDE DEF u
<1>4. u \notin held /\ held \in SUBSET Unit /\ held' \in SUBSET Unit
  BY <1>1, <1>2, <1>3 DEF UnitsOnce, HTypes
<1>5. UnitAddr(u) \in Nat /\ UnitAddr(u) \notin DOMAIN live
  <2>1. \A v \in held : UnitAddr(v) # UnitAddr(u)
    BY <1>3, <1>4, UnitAddressesDiffer
  <2>2. \A i \in DOMAIN blocks : UnitAddr(u) # blocks[i].ptr
    BY <1>1, <1>3, UnitsApart
  <2> QED  BY <1>1, <1>3, <2>1, <2>2, UnitAddresses DEF Callers
<1>6. /\ DOMAIN live' = DOMAIN live \cup {UnitAddr(u)} /\ DOMAIN live' \in SUBSET Nat
      /\ live' \in [DOMAIN live' -> Size]
      /\ live'[UnitAddr(u)] = size /\ \A p \in DOMAIN live : live'[p] = live[p]
  BY <1>1, <1>2, <1>5, GivenLive
<1>7. HTypes'
  BY <1>3, <1>4, <1>6 DEF HTypes
<1>8. UnitsOnce'
  BY <1>1, <1>2, <1>3, <1>4 DEF UnitsOnce
<1>9. Callers'
  <2>1. DOMAIN live' = {UnitAddr(v) : v \in held'}
                         \cup {blocks'[i].ptr : i \in DOMAIN blocks' \ {1}}
    BY <1>1, <1>2, <1>6 DEF Callers
  <2>2. ASSUME NEW v \in held'  PROVE  live'[UnitAddr(v)] <= FM_ALLOC_SIZE
    BY <1>1, <1>2, <1>6, <2>2 DEF Callers
  <2>3. ASSUME NEW i \in DOMAIN blocks' \ {1}  PROVE  live'[blocks'[i].ptr] = blocks'[i].used
    BY <1>1, <1>2, <1>6, <2>3 DEF Callers
  <2> QED  BY <2>1, <2>2, <2>3 DEF Callers
<1>10. Laid(blocks)'
  BY <1>1, <1>2 DEF Laid
<1> QED  BY <1>7, <1>8, <1>9, <1>10 DEF HInv

(* VMemAlloc takes the first block with room. *)
LEMMA FirstFitting ==
    ASSUME HInv, NEW size \in Size, VMemAlloc(size)
    PROVE  \E i \in DOMAIN blocks : /\ Suits(blocks[i], size)
                                    /\ blocks' = Split(i, size)
                                    /\ Given(Split(i, size)[i + 1].ptr, size)
<1> DEFINE i == CHOOSE i \in Fitting(size) : \A j \in Fitting(size) : i <= j
<1>1. Fitting(size) \in SUBSET Nat /\ Fitting(size) # {}
  BY Within DEF HInv, VMemAlloc, Fitting
<1>2. \E k \in Fitting(size) : \A j \in Fitting(size) : k <= j
  BY <1>1, LeastNat
<1>3. i \in Fitting(size)
  BY <1>2
<1>4. blocks' = Split(i, size) /\ Given(Split(i, size)[i + 1].ptr, size)
  BY DEF VMemAlloc
<1> HIDE DEF i
<1> QED  BY <1>3, <1>4 DEF Fitting

LEMMA VMemAllocKeeps ==
    ASSUME HInv, NEW size \in Size, VMemAlloc(size)
    PROVE  HInv'
<1>1. HTypes /\ Laid(blocks) /\ UnitsOnce /\ Callers
  BY DEF HInv
<1>2. PICK i \in DOMAIN blocks : /\ Suits(blocks[i], size)
                                 /\ blocks' = Split(i, size)
                                 /\ Given(Split(i, size)[i + 1].ptr, size)
  BY FirstFitting
<1>3. size \in Nat /\ size > 0 /\ freeUnits' = freeUnits /\ held' = held
  BY Sizes DEF VMemAlloc
<1>4. /\ Laid(blocks)' /\ i + 1 \in DOMAIN blocks' \ {1}
      /\ blocks'[i + 1].used = size
      /\ \A k \in DOMAIN blocks' \ {1, i + 1} : \E j \in DOMAIN blocks \ {1} :
           blocks'[k].ptr = blocks[j].ptr /\ blocks'[k].used = blocks[j].used
      /\ \A j \in DOMAIN blocks \ {1} : \E k \in DOMAIN blocks' \ {1, i + 1} :
           blocks'[k].ptr = blocks[j].ptr /\ blocks'[k].used = blocks[j].used
      /\ \A j \in DOMAIN blocks : blocks'[i + 1].ptr # blocks[j].ptr
  BY <1>1, <1>2, <1>3, SplitCallers
<1> DEFINE new == blocks'[i + 1].ptr
<1>5. Laid(blocks') /\ Given(new, size)
  BY <1>2, <1>4 DEF Laid
<1>6. new \in Nat /\ new \notin DOMAIN live
  <2>1. new \in Nat
    BY <1>4, <1>5, Within
  <2>2. \A u \in held : UnitAddr(u) # new
    BY <1>1, <1>4, <1>5, UnitsApart DEF HTypes
  <2> QED  BY <1>1, <1>4, <2>1, <2>2 DEF Callers
<1> HIDE DEF new
<1>7. /\ DOMAIN live' = DOMAIN live \cup {new} /\ DOMAIN live' \in SUBSET Nat
      /\ live' \in [DOMAIN live' -> Size]
      /\ live'[new] = size /\ \A p \in DOMAIN live : live'[p] = live[p]
  BY <1>1, <1>5, <1>6, GivenLive
<1>8. HTypes'
  BY <1>1, <1>3, <1>7 DEF HTypes
<1>9. UnitsOnce'
  BY <1>1, <1>3 DEF UnitsOnce
<1>10. Callers'
  <2>1. ASSUME NEW p
        PROVE  p \in {blocks'[k].ptr : k \in DOMAIN blocks' \ {1}} <=>
                 p = new \/ p \in {blocks[j].ptr : j \in DOMAIN blocks \ {1}}
    BY <1>4 DEF new
  <2>2. DOMAIN live' = {UnitAddr(v) : v \in held'}
                         \cup {blocks'[k].ptr : k \in DOMAIN blocks' \ {1}}
    BY <1>1, <1>3, <1>7, <2>1 DEF Callers
  <2>3. ASSUME NEW v \in held'  PROVE  live'[UnitAddr(v)] <= FM_ALLOC_SIZE
    BY <1>1, <1>3, <1>7, <2>3 DEF Callers
  <2>4. ASSUME NEW k \in DOMAIN blocks' \ {1}  PROVE  live'[blocks'[k].ptr] = blocks'[k].used
    <3>1. CASE k = i + 1
      BY <1>4, <1>7, <3>1 DEF new
    <3>2. CASE k # i + 1
      <4>1. PICK j \in DOMAIN blocks \ {1} :
              blocks'[k].ptr = blocks[j].ptr /\ blocks'[k].used = blocks[j].used
        BY <1>4, <3>2
      <4>2. blocks[j].ptr \in DOMAIN live /\ live[blocks[j].ptr] = blocks[j].used
        BY <1>1 DEF Callers
      <4> QED  BY <1>7, <4>1, <4>2
    <3> QED  BY <3>1, <3>2
  <2> QED  BY <2>2, <2>3, <2>4 DEF Callers
<1> QED  BY <1>4, <1>8, <1>9, <1>10 DEF HInv

-----------------------------------------------------------------------------
(* FMemFree takes the unit back. *)
LEMMA FMemFreeKeeps ==
    ASSUME HInv, NEW u \in held, UnitAddr(u) \in DOMAIN live,
           live' = Restrict(live, DOMAIN live \ {UnitAddr(u)}), FMemFree(u)
    PROVE  HInv'
<1>1. HTypes /\ Laid(blocks) /\ UnitsOnce /\ Callers /\ held \in SUBSET Unit /\ u \in Unit
  BY DEF HInv, HTypes
<1>2. freeUnits' = <<u>> \o freeUnits /\ held' = held \ {u} /\ blocks' = blocks
  BY DEF FMemFree, UnitBack
<1>3. /\ freeUnits' \in Seq(Unit) /\ ToSet(freeUnits') = {u} \cup ToSet(freeUnits)
      /\ IsInjective(freeUnits') <=> IsInjective(freeUnits) /\ u \notin ToSet(freeUnits)
  BY <1>1, <1>2, ConsSet DEF HTypes
<1>4. /\ DOMAIN live' = DOMAIN live \ {UnitAddr(u)} /\ DOMAIN live' \in SUBSET Nat
      /\ live' \in [DOMAIN live' -> Size]
      /\ \A p \in DOMAIN live' : live'[p] = live[p]
  BY <1>1, ReleasedLive
<1>5. HTypes'
  BY <1>1, <1>2, <1>3, <1>4 DEF HTypes
<1>6. UnitsOnce'
  BY <1>1, <1>2, <1>3 DEF UnitsOnce
<1>7. Callers'
  <2>1. \A v \in held' : UnitAddr(v) # UnitAddr(u)
    BY <1>1, <1>2, UnitAddressesDiffer
  <2>2. \A i \in DOMAIN blocks : UnitAddr(u) # blocks[i].ptr
    BY <1>1, UnitsApart
  <2>3. DOMAIN live' = {UnitAddr(v) : v \in held'}
                         \cup {blocks'[i].ptr : i \in DOMAIN blocks' \ {1}}
    <3>1. ASSUME NEW p
          PROVE  p \in DOMAIN live' <=>
                   \/ \E v \in held' : p = UnitAddr(v)
                   \/ \E i \in DOMAIN blocks' \ {1} : p = blocks'[i].ptr
      <4>1. p \in DOMAIN live <=> \/ \E v \in held : p = UnitAddr(v)
                                 \/ \E i \in DOMAIN blocks \ {1} : p = blocks[i].ptr
        BY <1>1 DEF Callers
      <4> QED  BY <1>2, <1>4, <2>1, <2>2, <4>1
    <3> QED  BY <3>1
  <2>4. ASSUME NEW v \in held'  PROVE  live'[UnitAddr(v)] <= FM_ALLOC_SIZE
    <3>1. v \in held /\ UnitAddr(v) \in DOMAIN live'
      BY <1>2, <2>3
    <3> QED  BY <1>1, <1>4, <3>1 DEF Callers
  <2>5. ASSUME NEW i \in DOMAIN blocks' \ {1}  PROVE  live'[blocks'[i].ptr] = blocks'[i].used
    <3>1. blocks'[i].ptr \in DOMAIN live'
      BY <2>3
    <3> QED  BY <1>1, <1>2, <1>4, <3>1 DEF Callers
  <2> QED  BY <2>3, <2>4, <2>5 DEF Callers
<1>8. Laid(blocks)'
  BY <1>1, <1>2 DEF Laid
<1> QED  BY <1>5, <1>6, <1>7, <1>8 DEF HInv

(* VMemFree merges the block that starts there. *)
LEMMA VMemFreeKeeps ==
    ASSUME HInv, NEW i \in DOMAIN blocks \ {1}, blocks[i].ptr \in DOMAIN live,
           live' = Restrict(live, DOMAIN live \ {blocks[i].ptr}), VMemFree(i)
    PROVE  HInv'
<1> DEFINE old == blocks[i].ptr
<1>1. HTypes /\ Laid(blocks) /\ UnitsOnce /\ Callers /\ held \in SUBSET Unit
  BY DEF HInv, HTypes
<1>2. blocks' = Merged(i) /\ freeUnits' = freeUnits /\ held' = held
  BY DEF VMemFree
<1>3. /\ Laid(blocks)'
      /\ \A k \in DOMAIN blocks' \ {1} : \E j \in DOMAIN blocks \ {1, i} :
           blocks'[k].ptr = blocks[j].ptr /\ blocks'[k].used = blocks[j].used
      /\ \A j \in DOMAIN blocks \ {1, i} : \E k \in DOMAIN blocks' \ {1} :
           blocks'[k].ptr = blocks[j].ptr /\ blocks'[k].used = blocks[j].used
      /\ \A j \in DOMAIN blocks \ {i} : blocks[j].ptr # old
  BY <1>1, <1>2, MergedCallers
<1>4. /\ DOMAIN live' = DOMAIN live \ {old} /\ DOMAIN live' \in SUBSET Nat
      /\ live' \in [DOMAIN live' -> Size]
      /\ \A p \in DOMAIN live' : live'[p] = live[p]
  BY <1>1, ReleasedLive
<1>5. \A u \in held : UnitAddr(u) # old
  BY <1>1, UnitsApart
<1>6. HTypes'
  BY <1>1, <1>2, <1>4 DEF HTypes
<1>7. UnitsOnce'
  BY <1>1, <1>2 DEF UnitsOnce
<1>8. Callers'
  <2>1. ASSUME NEW p
        PROVE  p \in {blocks'[k].ptr : k \in DOMAIN blocks' \ {1}} <=>
                 p # old /\ p \in {blocks[j].ptr : j \in DOMAIN blocks \ {1}}
    BY <1>3
  <2>2. DOMAIN live' = {UnitAddr(v) : v \in held'}
                         \cup {blocks'[k].ptr : k \in DOMAIN blocks' \ {1}}
    <3>1. ASSUME NEW p
          PROVE  p \in DOMAIN live' <=>
                   \/ \E v \in held' : p = UnitAddr(v)
                   \/ p \in {blocks'[k].ptr : k \in DOMAIN blocks' \ {1}}
      <4>1. p \in DOMAIN live <=> \/ \E v \in held : p = UnitAddr(v)
                                 \/ p \in {blocks[j].ptr : j \in DOMAIN blocks \ {1}}
        BY <1>1 DEF Callers
      <4> QED  BY <1>2, <1>4, <1>5, <2>1, <4>1
    <3> HIDE DEF old
    <3> QED  BY <3>1
  <2>3. ASSUME NEW v \in held'  PROVE  live'[UnitAddr(v)] <= FM_ALLOC_SIZE
    <3>1. v \in held /\ UnitAddr(v) \in DOMAIN live'
      BY <1>2, <2>2
    <3> QED  BY <1>1, <1>4, <3>1 DEF Callers
  <2>4. ASSUME NEW k \in DOMAIN blocks' \ {1}  PROVE  live'[blocks'[k].ptr] = blocks'[k].used
    <3>1. PICK j \in DOMAIN blocks \ {1, i} :
            blocks'[k].ptr = blocks[j].ptr /\ blocks'[k].used = blocks[j].used
      BY <1>3
    <3>2. blocks'[k].ptr \in DOMAIN live' /\ live[blocks[j].ptr] = blocks[j].used
      BY <1>1, <2>2 DEF Callers
    <3> QED  BY <1>4, <3>1, <3>2
  <2> QED  BY <2>2, <2>3, <2>4 DEF Callers
<1> QED  BY <1>3, <1>6, <1>7, <1>8 DEF HInv

-----------------------------------------------------------------------------
LEMMA HStep == HInv /\ [Next]_vars => HInv'
<1> SUFFICES ASSUME HInv, [Next]_vars  PROVE  HInv'
  OBVIOUS
<1>1. ASSUME NEW size \in Size, malloc(size)  PROVE  HInv'
  <2>1. CASE size <= FM_ALLOC_SIZE /\ freeUnits # <<>>
    BY <1>1, <2>1, FMemAllocKeeps DEF malloc
  <2>2. CASE ~(size <= FM_ALLOC_SIZE /\ freeUnits # <<>>)
    BY <1>1, <2>2, VMemAllocKeeps DEF malloc
  <2> QED  BY <2>1, <2>2
<1>2. ASSUME NEW ptr \in DOMAIN live, free(ptr)  PROVE  HInv'
  <2>1. live' = Restrict(live, DOMAIN live \ {ptr})
    BY <1>2 DEF free
  <2>2. ASSUME NEW u \in held, UnitAddr(u) = ptr, FMemFree(u)  PROVE  HInv'
    BY <2>1, <2>2, FMemFreeKeeps
  <2>3. ASSUME NEW i \in DOMAIN blocks \ {1}, blocks[i].ptr = ptr, VMemFree(i)  PROVE  HInv'
    BY <2>1, <2>3, VMemFreeKeeps
  <2> QED  BY <1>2, <2>2, <2>3 DEF free
<1>3. CASE UNCHANGED vars
  <2>1. UNCHANGED <<freeUnits, held, blocks, live>>
    BY <1>3 DEF vars
  <2> QED  BY <2>1 DEF HInv, HTypes, Laid, UnitsOnce, Callers
<1> QED  BY <1>1, <1>2, <1>3 DEF Next

(* The inductive invariant. *)
THEOREM HeapInvariant == Spec => []HInv
BY HInitially, HStep, PTL DEF Spec

(* VMemAlloc, VMemFree: the blocks tile their memory, headers between them. *)
THEOREM BlocksTile == Spec => []Tiles
<1>1. HInv => Tiles
  <2> SUFFICES ASSUME HInv  PROVE  Tiles
    OBVIOUS
  <2>1. Laid(blocks) /\ DOMAIN blocks = 1 .. Len(blocks) /\ Len(blocks) \in Nat
    BY DEF HInv, Laid
  <2>2. blocks[1].ptr = BlockBase + VM_HEAD_SIZE
    BY <2>1 DEF Laid
  <2>3. ASSUME NEW i \in DOMAIN blocks
        PROVE  /\ blocks[i].used >= 0 /\ blocks[i].free >= 0
               /\ blocks[i].ptr + blocks[i].used + blocks[i].free =
                    IF i = Len(blocks) THEN BlockEnd ELSE blocks[i + 1].ptr - VM_HEAD_SIZE
    <3>1. /\ blocks[i].ptr \in Nat /\ blocks[i].used \in Nat /\ blocks[i].free \in Nat
          /\ Stop(blocks[i]) = blocks[i].ptr + blocks[i].used + blocks[i].free
      BY <2>1, Within
    <3>2. CASE i = Len(blocks)
      <4>1. Stop(blocks[i]) = BlockEnd
        BY <2>1, <3>2 DEF Laid
      <4> QED  BY <3>1, <3>2, <4>1
    <3>3. CASE i # Len(blocks)
      <4>1. i < Len(blocks) /\ i + 1 \in DOMAIN blocks
        BY <2>1, <3>3
      <4>2. Stop(blocks[i]) + VM_HEAD_SIZE = blocks[i + 1].ptr
        BY <2>1, <4>1 DEF Laid
      <4>3. blocks[i].ptr + blocks[i].used + blocks[i].free = blocks[i + 1].ptr - VM_HEAD_SIZE
        BY <3>1, <4>2, Sizes
      <4> QED  BY <3>1, <3>3, <4>3
    <3> QED  BY <3>2, <3>3
  <2> QED  BY <2>2, <2>3 DEF Tiles
<1> QED  BY <1>1, HeapInvariant, PTL

(* malloc, free: nothing is lost or handed out twice. *)
THEOREM EverythingComesBack == Spec => []NothingLost
<1>1. HInv => NothingLost
  <2> SUFFICES ASSUME HInv  PROVE  NothingLost
    OBVIOUS
  <2>1. HTypes /\ Laid(blocks) /\ UnitsOnce /\ Callers
    BY DEF HInv
  <2>2. /\ IsInjective(freeUnits)
        /\ Range(freeUnits) \cap held = {} /\ Range(freeUnits) \cup held = Unit
    BY <2>1 DEF UnitsOnce, ToSet, Range
  <2>3. blocks[1].used = 0
    BY <2>1 DEF Laid
  <2> DEFINE own == {UnitAddr(u) : u \in held}
  <2>4. \A i \in DOMAIN blocks : blocks[i].ptr \notin own
    BY <2>1, UnitsApart DEF HTypes
  <2>5. /\ \A p \in DOMAIN live \ own : \E i \in DOMAIN blocks \ {1} : p = blocks[i].ptr
        /\ \A i \in DOMAIN blocks \ {1} : blocks[i].ptr \in DOMAIN live \ own
        /\ \A i \in DOMAIN blocks \ {1} : live[blocks[i].ptr] = blocks[i].used
    BY <2>1, <2>4 DEF Callers
  <2> HIDE DEF own
  <2>6. {<<blocks[i].ptr, blocks[i].used>> : i \in DOMAIN blocks \ {1}} =
        {<<p, live[p]>> : p \in DOMAIN live \ own}
    <3>1. ASSUME NEW i \in DOMAIN blocks \ {1}
          PROVE  <<blocks[i].ptr, blocks[i].used>> \in {<<p, live[p]>> : p \in DOMAIN live \ own}
      BY <2>5
    <3>2. ASSUME NEW p \in DOMAIN live \ own
          PROVE  <<p, live[p]>> \in
                   {<<blocks[i].ptr, blocks[i].used>> : i \in DOMAIN blocks \ {1}}
      BY <2>5
    <3> QED  BY <3>1, <3>2, Zenon
  <2> QED  BY <2>2, <2>3, <2>6 DEF NothingLost, own
<1> QED  BY <1>1, HeapInvariant, PTL

-----------------------------------------------------------------------------
(* What two callers hold lies apart. *)
LEMMA ChunksApart ==
    ASSUME NEW a \in Nat, NEW m \in Nat, NEW b \in Nat, NEW n \in Nat,
           a + m <= b \/ b + n <= a
    PROVE  Abstract!Chunk(a, m) \cap Abstract!Chunk(b, n) = {}
BY DEF Abstract!Chunk

LEMMA BlocksApart ==
    ASSUME NEW list, Laid(list), NEW i \in DOMAIN list, NEW j \in DOMAIN list, i # j
    PROVE  \/ list[i].ptr + list[i].used <= list[j].ptr
           \/ list[j].ptr + list[j].used <= list[i].ptr
<1>1. ASSUME NEW a \in DOMAIN list, NEW b \in DOMAIN list, a < b
      PROVE  list[a].ptr + list[a].used <= list[b].ptr
  <2>1. Stop(list[a]) + VM_HEAD_SIZE <= list[b].ptr
    BY <1>1 DEF Laid
  <2>2. /\ Stop(list[a]) = list[a].ptr + list[a].used + list[a].free
        /\ list[a].ptr \in Nat /\ list[a].used \in Nat /\ list[a].free \in Nat
    BY Within
  <2>3. list[b].ptr \in Nat
    BY Within
  <2> QED  BY <2>1, <2>2, <2>3, Sizes
<1>2. i \in Nat /\ j \in Nat
  BY Within
<1> QED  BY <1>1, <1>2

LEMMA InBlocks ==
    ASSUME NEW list, Laid(list), NEW i \in DOMAIN list
    PROVE  /\ list[i].ptr \in Nat /\ list[i].used \in Nat
           /\ BlockBase <= list[i].ptr /\ list[i].ptr + list[i].used <= BlockEnd
<1>1. /\ Stop(list[i]) = list[i].ptr + list[i].used + list[i].free
      /\ list[i].ptr \in Nat /\ list[i].used \in Nat /\ list[i].free \in Nat
      /\ BlockBase + VM_HEAD_SIZE <= list[i].ptr /\ Stop(list[i]) <= BlockEnd
  BY Within
<1> QED  BY <1>1, Sizes

(* A unit that is handed out lies in memory, apart from all others. *)
LEMMA FMemAllocImplements ==
    ASSUME HInv, NEW size \in Size, size <= FM_ALLOC_SIZE, freeUnits # <<>>, FMemAlloc(size)
    PROVE  Abstract!Alloc(size)
<1> DEFINE u == Head(freeUnits)
           ptr == UnitAddr(u)
<1>1. HTypes /\ Laid(blocks) /\ UnitsOnce /\ Callers /\ held \in SUBSET Unit
  BY DEF HInv, HTypes
<1>2. u \in Unit /\ u \in ToSet(freeUnits) /\ u \notin held
  BY <1>1, FrontAndRest DEF HTypes, UnitsOnce
<1>3. live' = [p \in DOMAIN live \cup {ptr} |-> IF p = ptr THEN size ELSE live[p]]
  BY DEF FMemAlloc, Given
<1> HIDE DEF u
<1>4. /\ ptr \in Nat /\ UnitBase <= ptr /\ ptr + FM_ALLOC_SIZE <= UnitAddr(UnitMax)
      /\ UnitAddr(0) = UnitBase /\ UnitAddr(UnitMax) \in Nat
      /\ UnitAddr(UnitMax) <= BlockBase \/ BlockEnd <= UnitBase
  BY <1>2, UnitAddresses
<1>5. size \in Nat /\ size > 0
  BY Sizes
<1>6. ASSUME NEW p \in DOMAIN live
      PROVE  p # ptr /\ Abstract!Chunk(ptr, size) \cap Abstract!Chunk(p, live[p]) = {}
  <2>1. live[p] \in Nat /\ live[p] > 0 /\ p \in Nat
    BY <1>1, Sizes DEF HTypes
  <2>2. ASSUME NEW v \in held, p = UnitAddr(v)
        PROVE  ptr + size <= p \/ p + live[p] <= ptr
    <3>1. v \in Unit /\ v # u /\ live[p] <= FM_ALLOC_SIZE
      BY <1>1, <1>2, <2>2 DEF Callers
    <3>2. ptr + FM_ALLOC_SIZE <= p \/ p + FM_ALLOC_SIZE <= ptr
      <4>1. u \in Nat /\ v \in Nat
        BY <1>2, <3>1, Sizes
      <4>2. u < v \/ v < u
        BY <3>1, <4>1
      <4> QED  BY <1>2, <2>2, <3>1, <4>2, UnitAddresses
    <3> HIDE DEF ptr
    <3> QED  BY <1>4, <1>5, <2>1, <3>1, <3>2, Sizes
  <2>3. ASSUME NEW i \in DOMAIN blocks \ {1}, p = blocks[i].ptr
        PROVE  ptr + size <= p \/ p + live[p] <= ptr
    <3>1. BlockBase <= p /\ p + live[p] <= BlockEnd
      BY <1>1, <2>3, InBlocks DEF Callers
    <3> HIDE DEF ptr
    <3> QED  BY <1>4, <1>5, <2>1, <3>1, Sizes
  <2>4. ptr + size <= p \/ p + live[p] <= ptr
    BY <1>1, <2>2, <2>3 DEF Callers
  <2> HIDE DEF ptr
  <2> QED  BY <1>4, <1>5, <2>1, <2>4, ChunksApart
<1> HIDE DEF ptr
<1>7. ptr \in (UnitAddr(0) .. UnitAddr(UnitMax) - 1 \cup BlockBase .. BlockEnd - 1) \ DOMAIN live
  BY <1>4, <1>6, Sizes
<1>8. Abstract!Chunk(ptr, size) \subseteq UnitAddr(0) .. UnitAddr(UnitMax) - 1
                                            \cup BlockBase .. BlockEnd - 1
  BY <1>4, <1>5, Sizes DEF Abstract!Chunk
<1> QED  BY <1>3, <1>6, <1>7, <1>8 DEF Abstract!Alloc

LEMMA VMemAllocImplements ==
    ASSUME HInv, NEW size \in Size, VMemAlloc(size)
    PROVE  Abstract!Alloc(size)
<1>1. HTypes /\ Laid(blocks) /\ UnitsOnce /\ Callers /\ held \in SUBSET Unit
  BY DEF HInv, HTypes
<1>2. PICK i \in DOMAIN blocks : /\ Suits(blocks[i], size)
                                 /\ blocks' = Split(i, size)
                                 /\ Given(Split(i, size)[i + 1].ptr, size)
  BY FirstFitting
<1>3. size \in Nat /\ size > 0
  BY Sizes
<1>4. /\ Laid(blocks)' /\ i + 1 \in DOMAIN blocks' \ {1}
      /\ blocks'[i + 1].used = size
      /\ \A j \in DOMAIN blocks \ {1} : \E k \in DOMAIN blocks' \ {1, i + 1} :
           blocks'[k].ptr = blocks[j].ptr /\ blocks'[k].used = blocks[j].used
      /\ \A j \in DOMAIN blocks : blocks'[i + 1].ptr # blocks[j].ptr
  BY <1>1, <1>2, <1>3, SplitCallers
<1> DEFINE ptr == blocks'[i + 1].ptr
<1>5. Laid(blocks')
  BY <1>4 DEF Laid
<1>6. live' = [p \in DOMAIN live \cup {ptr} |-> IF p = ptr THEN size ELSE live[p]]
  BY <1>2 DEF Given
<1>7. ptr \in Nat /\ BlockBase <= ptr /\ ptr + size <= BlockEnd
  BY <1>4, <1>5, InBlocks
<1>8. /\ UnitAddr(0) = UnitBase /\ UnitAddr(UnitMax) \in Nat
      /\ UnitAddr(UnitMax) <= BlockBase \/ BlockEnd <= UnitBase
  BY UnitAddresses
<1>9. ASSUME NEW p \in DOMAIN live
      PROVE  p # ptr /\ Abstract!Chunk(ptr, size) \cap Abstract!Chunk(p, live[p]) = {}
  <2>1. live[p] \in Nat /\ live[p] > 0 /\ p \in Nat
    BY <1>1, Sizes DEF HTypes
  <2>2. ASSUME NEW v \in held, p = UnitAddr(v)
        PROVE  ptr + size <= p \/ p + live[p] <= ptr
    <3>1. /\ live[p] <= FM_ALLOC_SIZE /\ UnitBase <= p
          /\ p + FM_ALLOC_SIZE <= UnitAddr(UnitMax)
      BY <1>1, <2>2, UnitAddresses DEF Callers
    <3> HIDE DEF ptr
    <3> QED  BY <1>3, <1>7, <1>8, <2>1, <3>1, Sizes
  <2>3. ASSUME NEW j \in DOMAIN blocks \ {1}, p = blocks[j].ptr
        PROVE  ptr + size <= p \/ p + live[p] <= ptr
    <3>1. PICK k \in DOMAIN blocks' \ {1, i + 1} :
            blocks'[k].ptr = blocks[j].ptr /\ blocks'[k].used = blocks[j].used
      BY <1>4
    <3>2. blocks'[k].ptr = p /\ blocks'[k].used = live[p]
      BY <1>1, <2>3, <3>1 DEF Callers
    <3> QED  BY <1>4, <1>5, <3>2, BlocksApart
  <2>4. ptr + size <= p \/ p + live[p] <= ptr
    BY <1>1, <2>2, <2>3 DEF Callers
  <2> HIDE DEF ptr
  <2> QED  BY <1>3, <1>7, <2>1, <2>4, ChunksApart
<1> HIDE DEF ptr
<1>10. ptr \in (UnitAddr(0) .. UnitAddr(UnitMax) - 1 \cup BlockBase .. BlockEnd - 1) \ DOMAIN live
  BY <1>3, <1>7, <1>9, Sizes
<1>11. Abstract!Chunk(ptr, size) \subseteq UnitAddr(0) .. UnitAddr(UnitMax) - 1
                                             \cup BlockBase .. BlockEnd - 1
  BY <1>3, <1>7, Sizes DEF Abstract!Chunk
<1> QED  BY <1>6, <1>9, <1>10, <1>11 DEF Abstract!Alloc

(* Whichever list serves them, callers see the abstract allocator: malloc   *)
(* hands out memory nobody holds, until it is given back.                   *)
THEOREM HeapImplementsAllocator == Spec => ImplementsAllocator
<1>1. Init => Abstract!Init
  BY DEF Init, Abstract!Init
<1>2. HInv /\ [Next]_vars => [Abstract!Next]_live
  <2> SUFFICES ASSUME HInv, [Next]_vars  PROVE  [Abstract!Next]_live
    OBVIOUS
  <2>1. ASSUME NEW size \in Size, malloc(size)  PROVE  Abstract!Next
    <3>1. CASE size <= FM_ALLOC_SIZE /\ freeUnits # <<>>
      BY <2>1, <3>1, FMemAllocImplements DEF malloc, Abstract!Next
    <3>2. CASE ~(size <= FM_ALLOC_SIZE /\ freeUnits # <<>>)
      BY <2>1, <3>2, VMemAllocImplements DEF malloc, Abstract!Next
    <3> QED  BY <3>1, <3>2
  <2>2. ASSUME NEW ptr \in DOMAIN live, free(ptr)  PROVE  Abstract!Next
    <3>1. live' = Restrict(live, DOMAIN live \ {ptr})
      BY <2>2 DEF free
    <3>2. Abstract!Free(ptr)
      BY <3>1 DEF Abstract!Free, Abstract!Restrict, Restrict
    <3> QED  BY <3>2 DEF Abstract!Next
  <2>3. CASE UNCHANGED vars
    BY <2>3 DEF vars
  <2> QED  BY <2>1, <2>2, <2>3 DEF Next
<1> QED  BY <1>1, <1>2, HeapInvariant, PTL DEF Spec, ImplementsAllocator, Abstract!Spec
=============================================================================
