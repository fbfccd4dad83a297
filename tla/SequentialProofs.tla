---------------------------- MODULE SequentialProofs ----------------------------
(***************************************************************************)
(* Proofs about Rings, BootLoader, MemoryMap, BTree and Strings, the parts  *)
(* that run without interleaving.  For any number of lists and nodes:       *)
(* linking a cell in and out at any place of a ring inserts and removes a   *)
(* member there, and leaves every other ring alone.  For every disk: what   *)
(* the start loads is whole.  For every map of the memory: what the start   *)
(* gives to the lists is each usable zone once.  For any number of nodes:   *)
(* trees are trees, and recursion over them returns what it says.  For      *)
(* every memory: the functions on strings return what their names say.      *)
(***************************************************************************)
EXTENDS Rings, MemoryMap, BTree, Strings, QueueLemmas

(* What the links are at any time: functions on the cells.                  *)
IsLinks(l) ==
    /\ l = [next |-> l.next, prev |-> l.prev]
    /\ l.next \in [Cell -> Cell] /\ l.prev \in [Cell -> Cell]

(* The sequence s with node put behind member r, and without member r.      *)
IsInserted(t, s, r, node) ==
    /\ t \in Seq(Node) /\ Len(t) = Len(s) + 1
    /\ \A j \in 1 .. r : t[j] = s[j]
    /\ t[r + 1] = node
    /\ \A j \in r + 1 .. Len(s) : t[j + 1] = s[j]

IsRemoved(t, s, r) ==
    /\ t \in Seq(Node) /\ Len(t) = Len(s) - 1
    /\ \A j \in 1 .. r - 1 : t[j] = s[j]
    /\ \A j \in r + 1 .. Len(s) : t[j - 1] = s[j]

-----------------------------------------------------------------------------
(* The set of a sequence, by number. *)
LEMMA ByNumber ==
    ASSUME NEW s \in Seq(Node)
    PROVE  /\ Len(s) \in Nat /\ DOMAIN s = 1 .. Len(s)
           /\ \A j \in 1 .. Len(s) : s[j] \in Node /\ s[j] \in ToSet(s)
           /\ \A x \in ToSet(s) : \E j \in 1 .. Len(s) : x = s[j]
           /\ IsInjective(s) <=> \A j, k \in 1 .. Len(s) : s[j] = s[k] => j = k
BY DEF ToSet, IsInjective

(* The cells of a ring are different but for the head at both ends.         *)
LEMMA CellsDiffer ==
    ASSUME NEW list \in List, NEW s \in Seq(Node), IsInjective(s)
    PROVE  /\ \A r \in 0 .. Len(s) + 1 : At(list, s, r) \in Cell
           /\ \A r \in 0 .. Len(s) + 1 : At(list, s, r) \in {list} \cup ToSet(s)
           /\ \A r, j \in 0 .. Len(s) : At(list, s, r) = At(list, s, j) => r = j
           /\ \A r, j \in 1 .. Len(s) + 1 : At(list, s, r) = At(list, s, j) => r = j
<1>1. /\ Len(s) \in Nat /\ DOMAIN s = 1 .. Len(s)
      /\ \A r \in 1 .. Len(s) : s[r] \in Node /\ s[r] # list /\ s[r] \in ToSet(s)
  BY CellAssumption DEF ToSet
<1>2. \A r, j \in 1 .. Len(s) : s[r] = s[j] => r = j
  BY <1>1 DEF IsInjective
<1> QED  BY <1>1, <1>2 DEF At, Cell

(* A ring is unchanged as long as its own cells are.                        *)
LEMMA RingElsewhere ==
    ASSUME NEW list \in List, NEW s \in Seq(Node), IsInjective(s),
           NEW l, NEW m, Ring(l, list, s),
           \A c \in {list} \cup ToSet(s) : m.next[c] = l.next[c] /\ m.prev[c] = l.prev[c]
    PROVE  Ring(m, list, s)
<1>1. Len(s) \in Nat
  OBVIOUS
<1> QED  BY <1>1, CellsDiffer DEF Ring

(* The members after an insertion. *)
LEMMA InsertedMembers ==
    ASSUME NEW s \in Seq(Node), IsInjective(s), NEW r \in 0 .. Len(s),
           NEW node \in Node, node \notin ToSet(s), NEW t, IsInserted(t, s, r, node)
    PROVE  IsInjective(t) /\ ToSet(t) = ToSet(s) \cup {node}
<1>1. Len(s) \in Nat /\ \A j \in 1 .. Len(s) : s[j] \in ToSet(s) /\ s[j] # node
  BY ByNumber
<1>2. \A j, k \in 1 .. Len(s) : s[j] = s[k] => j = k
  BY ByNumber
<1>3. t \in Seq(Node) /\ Len(t) = Len(s) + 1
  BY DEF IsInserted
<1>4. /\ \A j \in 1 .. r : t[j] = s[j]
      /\ t[r + 1] = node
      /\ \A j \in r + 2 .. Len(s) + 1 : j - 1 \in r + 1 .. Len(s) /\ t[j] = s[j - 1]
  <2>1. \A j \in r + 2 .. Len(s) + 1 : j - 1 \in r + 1 .. Len(s) /\ (j - 1) + 1 = j
    BY <1>1
  <2> QED  BY <2>1 DEF IsInserted
<1> DEFINE from(j) == IF j <= r THEN j ELSE j - 1
<1>5. ASSUME NEW j \in 1 .. Len(t)
      PROVE  \/ j = r + 1 /\ t[j] = node
             \/ j # r + 1 /\ from(j) \in 1 .. Len(s) /\ t[j] = s[from(j)]
  <2>1. CASE j <= r
    BY <1>1, <1>4, <2>1
  <2>2. CASE j = r + 1
    BY <1>4, <2>2
  <2>3. CASE j >= r + 2
    <3>1. j \in r + 2 .. Len(s) + 1
      BY <1>1, <1>3, <2>3
    <3> QED  BY <1>1, <1>4, <2>3, <3>1
  <2> QED  BY <1>1, <1>3, <2>1, <2>2, <2>3
<1>6. IsInjective(t)
  <2>1. \A j, k \in 1 .. Len(t) : from(j) = from(k) /\ j # r + 1 /\ k # r + 1 => j = k
    BY <1>1, <1>3
  <2> HIDE DEF from
  <2>2. \A j, k \in 1 .. Len(t) : t[j] = t[k] => j = k
    BY <1>1, <1>2, <1>5, <2>1
  <2> QED  BY <1>3, <2>2, ByNumber
<1>7. ASSUME NEW j \in 1 .. Len(t)  PROVE  t[j] \in ToSet(s) \cup {node}
  <2> HIDE DEF from
  <2> QED  BY <1>1, <1>5
<1>8. ASSUME NEW j \in 1 .. Len(s)  PROVE  s[j] \in ToSet(t)
  <2>1. \E k \in 1 .. Len(t) : s[j] = t[k]
    <3>1. j \in 1 .. Len(t) /\ j + 1 \in 1 .. Len(t)
      BY <1>1, <1>3
    <3>2. j <= r => s[j] = t[j]
      BY <1>1, <1>4
    <3>3. j > r => s[j] = t[j + 1]
      BY <1>1 DEF IsInserted
    <3> QED  BY <1>1, <3>1, <3>2, <3>3
  <2> QED  BY <1>3, <2>1, ByNumber
<1>9. node \in ToSet(t)
  <2>1. r + 1 \in 1 .. Len(t)
    BY <1>1, <1>3
  <2> QED  BY <1>3, <1>4, <2>1, ByNumber
<1>10. \A x \in ToSet(t) : \E j \in 1 .. Len(t) : x = t[j]
  BY <1>3, ByNumber
<1>11. \A x \in ToSet(s) : \E j \in 1 .. Len(s) : x = s[j]
  BY ByNumber
<1> HIDE DEF from
<1> QED  BY <1>6, <1>7, <1>8, <1>9, <1>10, <1>11

(* The members after a removal. *)
LEMMA RemainingMembers ==
    ASSUME NEW s \in Seq(Node), IsInjective(s), NEW r \in 1 .. Len(s),
           NEW t, IsRemoved(t, s, r)
    PROVE  IsInjective(t) /\ ToSet(t) = ToSet(s) \ {s[r]}
<1>1. Len(s) \in Nat /\ \A j \in 1 .. Len(s) : s[j] \in ToSet(s)
  BY ByNumber
<1>2. \A j, k \in 1 .. Len(s) : s[j] = s[k] => j = k
  BY ByNumber
<1>3. t \in Seq(Node) /\ Len(t) = Len(s) - 1
  BY DEF IsRemoved
<1>4. /\ \A j \in 1 .. r - 1 : t[j] = s[j]
      /\ \A j \in r .. Len(s) - 1 : t[j] = s[j + 1]
  <2>1. \A j \in r .. Len(s) - 1 : j + 1 \in r + 1 .. Len(s) /\ (j + 1) - 1 = j
    BY <1>1
  <2> QED  BY <2>1 DEF IsRemoved
<1>5. \A j, k \in 1 .. Len(t) : t[j] = t[k] => j = k
  BY <1>1, <1>2, <1>3, <1>4
<1>6. IsInjective(t)
  BY <1>3, <1>5, ByNumber
<1>7. ASSUME NEW j \in 1 .. Len(t)  PROVE  t[j] \in ToSet(s) \ {s[r]}
  BY <1>1, <1>2, <1>3, <1>4
<1>8. ASSUME NEW j \in 1 .. Len(s), j # r  PROVE  s[j] \in ToSet(t)
  <2>1. CASE j < r
    <3>1. j \in 1 .. Len(t) /\ s[j] = t[j]
      BY <1>1, <1>3, <1>4, <2>1
    <3> QED  BY <1>3, <3>1, ByNumber
  <2>2. CASE j > r
    <3>1. j - 1 \in 1 .. Len(t) /\ s[j] = t[j - 1]
      BY <1>1, <1>3, <2>2 DEF IsRemoved
    <3> QED  BY <1>3, <3>1, ByNumber
  <2> QED  BY <1>1, <1>8, <2>1, <2>2
<1>9. \A x \in ToSet(t) : \E j \in 1 .. Len(t) : x = t[j]
  BY <1>3, ByNumber
<1>10. \A x \in ToSet(s) : \E j \in 1 .. Len(s) : x = s[j]
  BY ByNumber
<1> QED  BY <1>6, <1>7, <1>8, <1>9, <1>10

-----------------------------------------------------------------------------
(* Linking a cell in between two neighbours inserts it there. *)
LEMMA LinkInserts ==
    ASSUME NEW list \in List, NEW s \in Seq(Node), IsInjective(s),
           NEW l, IsLinks(l), Ring(l, list, s), NEW r \in 0 .. Len(s),
           NEW node \in Node, node \notin ToSet(s), NEW t, IsInserted(t, s, r, node)
    PROVE  Ring(Link(l, node, At(list, s, r), At(list, s, r + 1)), list, t)
<1> DEFINE a(j) == At(list, s, j)
           b(j) == At(list, t, j)
           m == Link(l, node, a(r), a(r + 1))
<1>1. /\ \A j \in 0 .. Len(s) + 1 : a(j) \in Cell /\ a(j) # node
      /\ \A j, k \in 0 .. Len(s) : a(j) = a(k) => j = k
      /\ \A j, k \in 1 .. Len(s) + 1 : a(j) = a(k) => j = k
  <2>1. node # list
    BY CellAssumption
  <2> QED  BY <2>1, CellsDiffer
<1>2. Len(s) \in Nat /\ Len(t) = Len(s) + 1 /\ node \in Cell
  BY DEF IsInserted, Cell
<1>3. /\ \A j \in 0 .. r : b(j) = a(j)
      /\ b(r + 1) = node
      /\ \A j \in r + 1 .. Len(s) + 1 : b(j + 1) = a(j)
  BY <1>2, SMTT(30) DEF At, IsInserted
<1>4. /\ \A j \in 0 .. Len(s) : l.next[a(j)] = a(j + 1)
      /\ \A j \in 0 .. Len(s) : l.prev[a(j + 1)] = a(j)
      /\ l.next \in [Cell -> Cell] /\ l.prev \in [Cell -> Cell]
  BY DEF Ring, IsLinks
<1> HIDE DEF a, b
<1>5. /\ m.next[a(r)] = node /\ m.next[node] = a(r + 1)
      /\ m.prev[node] = a(r) /\ m.prev[a(r + 1)] = node
      /\ \A c \in Cell \ {node, a(r)} : m.next[c] = l.next[c]
      /\ \A c \in Cell \ {node, a(r + 1)} : m.prev[c] = l.prev[c]
  BY <1>1, <1>2, <1>4 DEF Link
<1> HIDE DEF m
<1>6. ASSUME NEW j \in 0 .. Len(t)
      PROVE  m.next[b(j)] = b(j + 1) /\ m.prev[b(j + 1)] = b(j)
  <2>1. CASE j < r
    <3>1. b(j) = a(j) /\ b(j + 1) = a(j + 1)
      BY <1>2, <1>3, <2>1
    <3>2. a(j) \in Cell \ {node, a(r)} /\ a(j + 1) \in Cell \ {node, a(r + 1)}
      BY <1>1, <1>2, <2>1
    <3>3. l.next[a(j)] = a(j + 1) /\ l.prev[a(j + 1)] = a(j)
      BY <1>2, <1>4, <2>1
    <3> QED  BY <1>5, <3>1, <3>2, <3>3
  <2>2. CASE j = r
    BY <1>2, <1>3, <1>5, <2>2
  <2>3. CASE j = r + 1
    <3>1. b(j) = node /\ b(j + 1) = a(r + 1)
      BY <1>2, <1>3, <2>3
    <3> QED  BY <1>5, <3>1
  <2>4. CASE j > r + 1
    <3>1. j - 1 \in r + 1 .. Len(s) /\ (j - 1) + 1 = j /\ j \in r + 1 .. Len(s) + 1
      BY <1>2, <2>4
    <3>2. b(j) = a(j - 1) /\ b(j + 1) = a(j)
      BY <1>3, <3>1
    <3>3. a(j - 1) \in Cell \ {node, a(r)} /\ a(j) \in Cell \ {node, a(r + 1)}
      BY <1>1, <1>2, <3>1, <2>4
    <3>4. l.next[a(j - 1)] = a(j) /\ l.prev[a(j)] = a(j - 1)
      BY <1>4, <3>1
    <3> QED  BY <1>5, <3>2, <3>3, <3>4
  <2> QED  BY <1>2, <2>1, <2>2, <2>3, <2>4
<1> QED  BY <1>6 DEF Ring, m, a, b

(* Unlinking a member removes it. *)
LEMMA UnlinkRemoves ==
    ASSUME NEW list \in List, NEW s \in Seq(Node), IsInjective(s),
           NEW l, IsLinks(l), Ring(l, list, s), NEW r \in 1 .. Len(s),
           NEW t, IsRemoved(t, s, r)
    PROVE  Ring(Unlink(l, s[r], At(list, s, r - 1), At(list, s, r + 1)), list, t)
<1> DEFINE a(j) == At(list, s, j)
           b(j) == At(list, t, j)
           m == Unlink(l, s[r], a(r - 1), a(r + 1))
<1>1. /\ \A j \in 0 .. Len(s) + 1 : a(j) \in Cell
      /\ \A j, k \in 0 .. Len(s) : a(j) = a(k) => j = k
      /\ \A j, k \in 1 .. Len(s) + 1 : a(j) = a(k) => j = k
  BY CellsDiffer
<1>2. Len(s) \in Nat /\ Len(t) = Len(s) - 1 /\ a(r) = s[r]
  BY DEF IsRemoved, At
<1>3. /\ \A j \in 0 .. r - 1 : b(j) = a(j)
      /\ \A j \in r .. Len(s) : b(j) = a(j + 1)
  <2>1. \A j \in r .. Len(s) - 1 : j + 1 \in r + 1 .. Len(s) /\ (j + 1) - 1 = j
    BY <1>2
  <2> QED  BY <1>2, <2>1 DEF At, IsRemoved
<1>4. /\ \A j \in 0 .. Len(s) : l.next[a(j)] = a(j + 1)
      /\ \A j \in 0 .. Len(s) : l.prev[a(j + 1)] = a(j)
      /\ l.next \in [Cell -> Cell] /\ l.prev \in [Cell -> Cell]
  BY DEF Ring, IsLinks
<1> HIDE DEF a, b
<1>5. a(r) # a(r - 1) /\ a(r) # a(r + 1)
  BY <1>1, <1>2
<1>6. /\ m.next[a(r - 1)] = a(r + 1) /\ m.prev[a(r + 1)] = a(r - 1)
      /\ \A c \in Cell \ {a(r), a(r - 1)} : m.next[c] = l.next[c]
      /\ \A c \in Cell \ {a(r), a(r + 1)} : m.prev[c] = l.prev[c]
  <2>1. a(r) \in Cell /\ a(r - 1) \in Cell /\ a(r + 1) \in Cell
    BY <1>1, <1>2
  <2> QED  BY <1>2, <1>4, <1>5, <2>1 DEF Unlink
<1> HIDE DEF m
<1>7. ASSUME NEW j \in 0 .. Len(t)
      PROVE  m.next[b(j)] = b(j + 1) /\ m.prev[b(j + 1)] = b(j)
  <2>1. CASE j < r - 1
    <3>1. b(j) = a(j) /\ b(j + 1) = a(j + 1)
      BY <1>2, <1>3, <2>1
    <3>2. a(j) \in Cell \ {a(r), a(r - 1)} /\ a(j + 1) \in Cell \ {a(r), a(r + 1)}
      BY <1>1, <1>2, <2>1
    <3>3. l.next[a(j)] = a(j + 1) /\ l.prev[a(j + 1)] = a(j)
      BY <1>2, <1>4, <2>1
    <3> QED  BY <1>6, <3>1, <3>2, <3>3
  <2>2. CASE j = r - 1
    <3>1. j \in 0 .. r - 1 /\ j + 1 = r /\ r \in r .. Len(s)
      BY <1>2, <2>2
    <3>2. b(j) = a(r - 1) /\ b(j + 1) = a(r + 1)
      BY <1>3, <2>2, <3>1
    <3> QED  BY <1>6, <3>2
  <2>3. CASE j > r - 1
    <3>1. j \in r .. Len(s) /\ j + 1 \in r .. Len(s)
      BY <1>2, <2>3
    <3>2. b(j) = a(j + 1) /\ b(j + 1) = a(j + 1 + 1)
      BY <1>3, <3>1
    <3>3. a(j + 1) \in Cell \ {a(r), a(r - 1)} /\ a(j + 1 + 1) \in Cell \ {a(r), a(r + 1)}
      BY <1>1, <1>2, <2>3, <3>1
    <3>4. l.next[a(j + 1)] = a(j + 1 + 1) /\ l.prev[a(j + 1 + 1)] = a(j + 1)
      BY <1>4, <3>1
    <3> QED  BY <1>6, <3>2, <3>3, <3>4
  <2> QED  BY <1>2, <2>1, <2>2, <2>3
<1> QED  BY <1>7 DEF Ring, m, a, b

-----------------------------------------------------------------------------
(* All lists at once. *)
Linked(l, lists) ==
    /\ IsLinks(l)
    /\ lists \in [List -> Seq(Node)]
    /\ \A list \in List : Ring(l, list, lists[list]) /\ IsInjective(lists[list])
    /\ \A a, b \in List : a # b => ToSet(lists[a]) \cap ToSet(lists[b]) = {}

Inserted(l, lists, list, r, node) ==
    Link(l, node, At(list, lists[list], r), At(list, lists[list], r + 1))

Removed(l, lists, list, r) ==
    Unlink(l, lists[list][r], At(list, lists[list], r - 1), At(list, lists[list], r + 1))

(* The cells of one list are none of another's.                             *)
LEMMA OtherCells ==
    ASSUME NEW l, NEW lists, Linked(l, lists), NEW a \in List, NEW b \in List, a # b,
           NEW c \in {b} \cup ToSet(lists[b])
    PROVE  c \in Cell /\ c # a /\ c \notin ToSet(lists[a])
<1>1. /\ lists[a] \in Seq(Node) /\ lists[b] \in Seq(Node)
      /\ ToSet(lists[a]) \cap ToSet(lists[b]) = {}
  BY DEF Linked
<1>2. ToSet(lists[a]) \subseteq Node /\ ToSet(lists[b]) \subseteq Node
  BY <1>1, ByNumber
<1> QED  BY <1>1, <1>2, CellAssumption DEF Cell

(* A change of the links of one list leaves the others alone.               *)
LEMMA OtherRings ==
    ASSUME NEW l, NEW lists, Linked(l, lists), NEW list \in List,
           NEW t \in Seq(Node), IsInjective(t), NEW m, IsLinks(m), Ring(m, list, t),
           \A b \in List \ {list} :
                /\ ToSet(lists[b]) \cap ToSet(t) = {}
                /\ \A c \in {b} \cup ToSet(lists[b]) :
                        m.next[c] = l.next[c] /\ m.prev[c] = l.prev[c]
    PROVE  Linked(m, [lists EXCEPT ![list] = t])
<1> DEFINE new == [lists EXCEPT ![list] = t]
<1>1. /\ lists \in [List -> Seq(Node)]
      /\ \A b \in List : Ring(l, b, lists[b]) /\ IsInjective(lists[b])
      /\ \A a, b \in List : a # b => ToSet(lists[a]) \cap ToSet(lists[b]) = {}
  BY DEF Linked
<1>2. /\ new \in [List -> Seq(Node)] /\ new[list] = t
      /\ \A b \in List \ {list} : new[b] = lists[b]
  BY <1>1
<1>3. ASSUME NEW b \in List \ {list}  PROVE  Ring(m, b, lists[b])
  <2>1. lists[b] \in Seq(Node) /\ IsInjective(lists[b]) /\ Ring(l, b, lists[b])
    BY <1>1
  <2> QED  BY <2>1, RingElsewhere
<1>4. \A b \in List : Ring(m, b, new[b]) /\ IsInjective(new[b])
  BY <1>1, <1>2, <1>3
<1>5. \A a, b \in List : a # b => ToSet(new[a]) \cap ToSet(new[b]) = {}
  BY <1>1, <1>2
<1> QED  BY <1>2, <1>4, <1>5 DEF Linked

LEMMA InsertionKeeps ==
    ASSUME NEW l, NEW lists, Linked(l, lists), NEW list \in List, NEW r \in 0 .. Len(lists[list]),
           NEW node \in Node, \A b \in List : node \notin ToSet(lists[b]),
           NEW t, IsInserted(t, lists[list], r, node)
    PROVE  Linked(Inserted(l, lists, list, r, node), [lists EXCEPT ![list] = t])
<1> DEFINE s == lists[list]
           m == Inserted(l, lists, list, r, node)
           p == At(list, s, r)
           n == At(list, s, r + 1)
<1>1. /\ s \in Seq(Node) /\ IsInjective(s) /\ Ring(l, list, s) /\ IsLinks(l)
      /\ node \notin ToSet(s) /\ IsInserted(t, s, r, node)
  BY DEF Linked
<1> HIDE DEF s
<1>2. t \in Seq(Node) /\ IsInjective(t) /\ ToSet(t) = ToSet(s) \cup {node}
  BY <1>1, InsertedMembers, SMTT(30) DEF s, IsInserted
<1>3. Ring(m, list, t)
  BY <1>1, LinkInserts DEF Inserted, s
<1>4. p \in Cell /\ n \in Cell /\ {p, n} \subseteq {list} \cup ToSet(s)
  <2>1. r \in 0 .. Len(s) + 1 /\ r + 1 \in 0 .. Len(s) + 1
    BY <1>1 DEF s
  <2> QED  BY <1>1, <2>1, CellsDiffer
<1>5. /\ IsLinks(m)
      /\ \A c \in Cell \ {node, p, n} : m.next[c] = l.next[c] /\ m.prev[c] = l.prev[c]
  <2>1. node \in Cell
    BY DEF Cell
  <2>2. m = Link(l, node, p, n)
    BY DEF Inserted, s
  <2> HIDE DEF m, p, n
  <2> QED  BY <1>1, <1>4, <2>1, <2>2 DEF Link, IsLinks
<1> HIDE DEF m, p, n
<1>6. Linked(m, [lists EXCEPT ![list] = t])
  <2>1. ASSUME NEW b \in List \ {list}  PROVE  ToSet(lists[b]) \cap ToSet(t) = {}
    BY <1>2 DEF Linked, s
  <2>2. ASSUME NEW b \in List \ {list}, NEW c \in {b} \cup ToSet(lists[b])
        PROVE  m.next[c] = l.next[c] /\ m.prev[c] = l.prev[c]
    <3>1. c \in Cell /\ c # list /\ c \notin ToSet(s)
      BY OtherCells DEF s
    <3>2. c # node
      BY CellAssumption
    <3> QED  BY <1>4, <1>5, <3>1, <3>2
  <2> QED  BY <1>2, <1>3, <1>5, <2>1, <2>2, OtherRings
<1> QED  BY <1>6 DEF m

LEMMA RemovalKeeps ==
    ASSUME NEW l, NEW lists, Linked(l, lists), NEW list \in List, NEW r \in 1 .. Len(lists[list]),
           NEW t, IsRemoved(t, lists[list], r)
    PROVE  Linked(Removed(l, lists, list, r), [lists EXCEPT ![list] = t])
<1> DEFINE s == lists[list]
           m == Removed(l, lists, list, r)
           p == At(list, s, r - 1)
           n == At(list, s, r + 1)
<1>1. /\ s \in Seq(Node) /\ IsInjective(s) /\ Ring(l, list, s) /\ IsLinks(l)
      /\ IsRemoved(t, s, r) /\ r \in 1 .. Len(s)
  BY DEF Linked
<1> HIDE DEF s
<1>2. t \in Seq(Node) /\ IsInjective(t) /\ ToSet(t) = ToSet(s) \ {s[r]}
  <2>1. t \in Seq(Node)
    BY <1>1 DEF IsRemoved
  <2> QED  BY <1>1, <2>1, RemainingMembers
<1>3. Ring(m, list, t)
  BY <1>1, UnlinkRemoves DEF Removed, s
<1>4. /\ p \in Cell /\ n \in Cell /\ {p, n} \subseteq {list} \cup ToSet(s)
      /\ s[r] \in Cell /\ s[r] \in ToSet(s)
  <2>1. r - 1 \in 0 .. Len(s) + 1 /\ r + 1 \in 0 .. Len(s) + 1
    BY <1>1
  <2>2. s[r] \in Cell /\ s[r] \in ToSet(s)
    BY <1>1, ByNumber DEF Cell
  <2> QED  BY <1>1, <2>1, <2>2, CellsDiffer
<1>5. /\ IsLinks(m)
      /\ \A c \in Cell \ {s[r], p, n} : m.next[c] = l.next[c] /\ m.prev[c] = l.prev[c]
  <2>1. m = Unlink(l, s[r], p, n)
    BY DEF Removed, s
  <2> HIDE DEF m, p, n
  <2> QED  BY <1>1, <1>4, <2>1 DEF Unlink, IsLinks
<1> HIDE DEF m, p, n
<1>6. Linked(m, [lists EXCEPT ![list] = t])
  <2>1. ASSUME NEW b \in List \ {list}  PROVE  ToSet(lists[b]) \cap ToSet(t) = {}
    BY <1>2 DEF Linked, s
  <2>2. ASSUME NEW b \in List \ {list}, NEW c \in {b} \cup ToSet(lists[b])
        PROVE  m.next[c] = l.next[c] /\ m.prev[c] = l.prev[c]
    <3>1. c \in Cell /\ c # list /\ c \notin ToSet(s)
      BY OtherCells DEF s
    <3> QED  BY <1>4, <1>5, <3>1
  <2> QED  BY <1>2, <1>3, <1>5, <2>1, <2>2, OtherRings
<1> QED  BY <1>6 DEF m

-----------------------------------------------------------------------------
(* The sequence operators of the calls as insertions and removals.          *)
LEMMA SequenceChanges ==
    ASSUME NEW s \in Seq(Node), NEW node \in Node
    PROVE  /\ IsInserted(<<node>> \o s, s, 0, node)
           /\ IsInserted(Append(s, node), s, Len(s), node)
           /\ s # <<>> => 1 \in 1 .. Len(s) /\ IsRemoved(Tail(s), s, 1)
           /\ \A r \in 1 .. Len(s) : IsInserted(InsertAt(s, r + 1, node), s, r, node)
           /\ \A r \in 1 .. Len(s) : IsInserted(InsertAt(s, r, node), s, r - 1, node)
           /\ \A r \in 1 .. Len(s) : IsRemoved(RemoveAt(s, r), s, r)
           /\ \A r \in 1 .. Len(s) :
                IsInserted([s EXCEPT ![r] = node], RemoveAt(s, r), r - 1, node)
<1>1. Len(s) \in Nat /\ \A j \in 1 .. Len(s) : s[j] \in Node
  BY ByNumber
<1>2. IsInserted(<<node>> \o s, s, 0, node)
  BY <1>1 DEF IsInserted
<1>3. IsInserted(Append(s, node), s, Len(s), node)
  BY <1>1 DEF IsInserted
<1>4. s # <<>> => 1 \in 1 .. Len(s) /\ IsRemoved(Tail(s), s, 1)
  BY <1>1 DEF IsRemoved
<1>5. ASSUME NEW r \in 0 .. Len(s)
      PROVE  IsInserted(InsertAt(s, r + 1, node), s, r, node)
  <2>1. InsertAt(s, r + 1, node) = SubSeq(s, 1, r) \o <<node>> \o SubSeq(s, r + 1, Len(s))
    <3>1. (r + 1) - 1 = r
      BY <1>1
    <3>2. InsertAt(s, r + 1, node)
            = SubSeq(s, 1, (r + 1) - 1) \o <<node>> \o SubSeq(s, r + 1, Len(s))
      BY DEF InsertAt
    <3> QED  BY <3>1, <3>2
  <2> DEFINE x == SubSeq(s, 1, r)
             y == SubSeq(s, r + 1, Len(s))
             xn == x \o <<node>>
  <2>2. /\ x \in Seq(Node) /\ Len(x) = r /\ \A j \in 1 .. r : x[j] = s[j]
    BY <1>1
  <2>3. /\ y \in Seq(Node) /\ Len(y) = Len(s) - r
        /\ \A j \in 1 .. Len(s) - r : y[j] = s[r + j]
    <3>1. y \in Seq(Node) /\ Len(y) = Len(s) - r
      BY <1>1
    <3>2. \A j \in 1 .. Len(s) - r : y[j] = s[r + 1 + j - 1]
      BY <1>1
    <3>3. \A j \in 1 .. Len(s) - r : r + 1 + j - 1 = r + j
      BY <1>1
    <3> HIDE DEF y
    <3> QED  BY <3>1, <3>2, <3>3
  <2> HIDE DEF x, y
  <2>4. /\ xn \in Seq(Node) /\ Len(xn) = r + 1
        /\ \A j \in 1 .. r : xn[j] = s[j]
        /\ xn[r + 1] = node
    BY <2>2
  <2> HIDE DEF xn
  <2> DEFINE t == xn \o y
  <2>5. t \in Seq(Node) /\ Len(t) = Len(s) + 1
    <3>1. xn \in Seq(Node) /\ y \in Seq(Node)
      BY <2>3, <2>4
    <3>2. Len(xn \o y) = Len(xn) + Len(y) /\ xn \o y \in Seq(Node)
      BY <3>1
    <3>3. Len(xn) + Len(y) = Len(s) + 1
      BY <1>1, <2>3, <2>4
    <3> QED  BY <3>3, <3>2
  <2>6. \A j \in 1 .. r + 1 : t[j] = xn[j]
    <3>1. \A j \in 1 .. Len(xn) : t[j] = xn[j]
      BY <2>3, <2>4
    <3> QED  BY <2>4, <3>1
  <2>7. \A j \in 1 .. Len(s) - r : t[r + 1 + j] = y[j]
    <3> SUFFICES ASSUME NEW j \in 1 .. Len(s) - r  PROVE  t[r + 1 + j] = y[j]
      OBVIOUS
    <3>1. r + 1 + j \in 1 .. Len(xn) + Len(y) /\ r + 1 + j > Len(xn)
      BY <1>1, <2>3, <2>4
    <3>2. t[r + 1 + j] = y[r + 1 + j - Len(xn)]
      BY <2>3, <2>4, <3>1, SMTT(30)
    <3>3. r + 1 + j - Len(xn) = j
      BY <1>1, <2>4
    <3> QED  BY <3>2, <3>3
  <2>8. \A j \in r + 1 .. Len(s) : t[j + 1] = s[j]
    <3> SUFFICES ASSUME NEW j \in r + 1 .. Len(s)  PROVE  t[j + 1] = s[j]
      OBVIOUS
    <3>1. j - r \in 1 .. Len(s) - r /\ r + 1 + (j - r) = j + 1 /\ r + (j - r) = j
      BY <1>1
    <3> HIDE DEF t
    <3> QED  BY <2>3, <2>7, <3>1, ZenonT(60)
  <2>9. t[r + 1] = node /\ \A j \in 1 .. r : t[j] = s[j]
    BY <2>4, <2>6
  <2> HIDE DEF t
  <2> QED  BY <2>1, <2>5, <2>8, <2>9 DEF IsInserted, t, xn, x, y
<1>6. \A r \in 1 .. Len(s) : IsInserted(InsertAt(s, r + 1, node), s, r, node)
  BY <1>1, <1>5
<1>7. ASSUME NEW r \in 1 .. Len(s)
      PROVE  IsInserted(InsertAt(s, r, node), s, r - 1, node)
  <2>1. r - 1 \in 0 .. Len(s) /\ (r - 1) + 1 = r
    BY <1>1
  <2> QED  BY <1>5, <2>1
<1>8. ASSUME NEW r \in 1 .. Len(s)
      PROVE  /\ IsRemoved(RemoveAt(s, r), s, r)
             /\ IsInserted([s EXCEPT ![r] = node], RemoveAt(s, r), r - 1, node)
  <2> DEFINE x == SubSeq(s, 1, r - 1)
             y == SubSeq(s, r + 1, Len(s))
             t == RemoveAt(s, r)
             u == [s EXCEPT ![r] = node]
  <2>1. t = x \o y
    BY DEF RemoveAt
  <2>2. x \in Seq(Node) /\ Len(x) = r - 1 /\ \A j \in 1 .. r - 1 : x[j] = s[j]
    BY <1>1
  <2>3. /\ y \in Seq(Node) /\ Len(y) = Len(s) - r
        /\ \A j \in 1 .. Len(s) - r : y[j] = s[r + j]
    <3>1. y \in Seq(Node) /\ Len(y) = Len(s) - r
      BY <1>1
    <3>2. \A j \in 1 .. Len(s) - r : y[j] = s[r + 1 + j - 1]
      BY <1>1
    <3>3. \A j \in 1 .. Len(s) - r : r + 1 + j - 1 = r + j
      BY <1>1
    <3> HIDE DEF y
    <3> QED  BY <3>1, <3>2, <3>3
  <2> HIDE DEF x, y, t
  <2>4. t \in Seq(Node) /\ Len(t) = Len(s) - 1
    BY <1>1, <2>1, <2>2, <2>3
  <2>5. \A j \in 1 .. r - 1 : t[j] = s[j]
    BY <1>1, <2>1, <2>2, <2>3
  <2>6. \A j \in 1 .. Len(s) - r : t[r - 1 + j] = y[j]
    BY <1>1, <2>1, <2>2, <2>3
  <2>7. \A j \in r + 1 .. Len(s) : t[j - 1] = s[j]
    <3> SUFFICES ASSUME NEW j \in r + 1 .. Len(s)  PROVE  t[j - 1] = s[j]
      OBVIOUS
    <3>1. j - r \in 1 .. Len(s) - r /\ r - 1 + (j - r) = j - 1 /\ r + (j - r) = j
      BY <1>1
    <3> QED  BY <2>3, <2>6, <3>1
  <2>8. IsRemoved(t, s, r)
    BY <2>4, <2>5, <2>7 DEF IsRemoved
  <2>9. u \in Seq(Node) /\ Len(u) = Len(s) /\ u[r] = node
        /\ \A j \in 1 .. Len(s) : j # r => u[j] = s[j]
    BY <1>1
  <2> HIDE DEF u
  <2>10. \A j \in r - 1 + 1 .. Len(s) - 1 : u[j + 1] = t[j]
    <3> SUFFICES ASSUME NEW j \in r .. Len(s) - 1  PROVE  u[j + 1] = t[j]
      BY <1>1
    <3>1. j + 1 \in r + 1 .. Len(s) /\ j + 1 \in 1 .. Len(s) /\ j + 1 # r /\ (j + 1) - 1 = j
      BY <1>1
    <3> QED  BY <2>7, <2>9, <3>1
  <2>11. IsInserted(u, t, r - 1, node)
    <3>1. (r - 1) + 1 = r /\ Len(u) = Len(t) + 1
      BY <1>1, <2>4, <2>9
    <3>2. \A j \in 1 .. r - 1 : u[j] = t[j]
      BY <1>1, <2>5, <2>9
    <3> QED  BY <2>4, <2>9, <2>10, <3>1, <3>2 DEF IsInserted
  <2> QED  BY <2>8, <2>11 DEF t, u
<1> QED  BY <1>2, <1>3, <1>4, <1>6, <1>7, <1>8

(* The calls of list.c as insertions and removals by number.                *)
LEMMA CallsByNumber ==
    ASSUME NEW l, NEW lists, Linked(l, lists), NEW list \in List, NEW node \in Node,
           NEW s, s = lists[list]
    PROVE  /\ s \in Seq(Node) /\ Len(s) \in Nat /\ DOMAIN s = 1 .. Len(s)
           /\ List_AddTail(l, list, node) = Inserted(l, lists, list, Len(s), node)
           /\ List_Add(l, list, node) = Inserted(l, lists, list, 0, node)
           /\ \A r \in 1 .. Len(s) :
                /\ List_AddAfter(l, s[r], node) = Inserted(l, lists, list, r, node)
                /\ List_AddBefore(l, s[r], node) = Inserted(l, lists, list, r - 1, node)
                /\ List_DelNode(l, s[r]) = Removed(l, lists, list, r)
           /\ List_IsEmpty(l, list) <=> s = <<>>
           /\ s # <<>> => l.next[list] = s[1]
<1>1. s \in Seq(Node) /\ Len(s) \in Nat /\ DOMAIN s = 1 .. Len(s) /\ Ring(l, list, s)
  BY DEF Linked
<1>2. /\ At(list, s, 0) = list /\ At(list, s, Len(s) + 1) = list
      /\ \A r \in 1 .. Len(s) : At(list, s, r) = s[r] /\ s[r] \in Node
  BY <1>1 DEF At
<1>3. \A r \in 0 .. Len(s) : /\ l.next[At(list, s, r)] = At(list, s, r + 1)
                             /\ l.prev[At(list, s, r + 1)] = At(list, s, r)
  BY <1>1 DEF Ring
<1>4. /\ l.next[list] = At(list, s, 1) /\ l.prev[list] = At(list, s, Len(s))
  <2>1. 0 \in 0 .. Len(s) /\ Len(s) \in 0 .. Len(s) /\ 0 + 1 = 1
    BY <1>1
  <2> QED  BY <1>2, <1>3, <2>1
<1>5. \A r \in 1 .. Len(s) : /\ l.next[s[r]] = At(list, s, r + 1)
                             /\ l.prev[s[r]] = At(list, s, r - 1)
  <2>1. \A r \in 1 .. Len(s) : r \in 0 .. Len(s) /\ r - 1 \in 0 .. Len(s) /\ (r - 1) + 1 = r
    BY <1>1
  <2> QED  BY <1>2, <1>3, <2>1
<1>6. List_AddTail(l, list, node) = Inserted(l, lists, list, Len(s), node)
  BY <1>2, <1>4 DEF List_AddTail, List_AddBefore, Inserted
<1>7. List_Add(l, list, node) = Inserted(l, lists, list, 0, node)
  <2>1. 0 + 1 = 1
    OBVIOUS
  <2> QED  BY <1>2, <1>4, <2>1 DEF List_Add, List_AddAfter, Inserted
<1>8. ASSUME NEW r \in 1 .. Len(s)
      PROVE  /\ List_AddAfter(l, s[r], node) = Inserted(l, lists, list, r, node)
             /\ List_AddBefore(l, s[r], node) = Inserted(l, lists, list, r - 1, node)
             /\ List_DelNode(l, s[r]) = Removed(l, lists, list, r)
  <2>1. (r - 1) + 1 = r
    BY <1>1
  <2>2. At(list, s, r) = s[r]
    BY <1>2
  <2> QED  BY <1>5, <2>1, <2>2
           DEF List_AddAfter, List_AddBefore, List_DelNode, Inserted, Removed
<1>9. /\ List_IsEmpty(l, list) <=> s = <<>>
      /\ s # <<>> => l.next[list] = s[1]
  <2>1. CASE s = <<>>
    BY <1>2, <1>4, <2>1 DEF List_IsEmpty, At
  <2>2. CASE s # <<>>
    <3>1. 1 \in 1 .. Len(s)
      BY <1>1, <2>2
    <3>2. l.next[list] = s[1] /\ s[1] \in Node
      BY <1>2, <1>4, <3>1
    <3> QED  BY <2>2, <3>2, CellAssumption DEF List_IsEmpty
  <2> QED  BY <2>1, <2>2
<1> QED  BY <1>1, <1>6, <1>7, <1>8, <1>9

(* List_Replace is a removal and an insertion in the same place.            *)
LEMMA ReplaceByNumber ==
    ASSUME NEW l, NEW lists, Linked(l, lists), NEW list \in List, NEW r \in 1 .. Len(lists[list]),
           NEW node \in Node, NEW rest, IsRemoved(rest[list], lists[list], r)
    PROVE  List_Replace(l, lists[list][r], node) =
               Inserted(Removed(l, lists, list, r), rest, list, r - 1, node)
<1> DEFINE s == lists[list]
           t == rest[list]
<1>1. s \in Seq(Node) /\ Len(s) \in Nat /\ Ring(l, list, s) /\ lists \in [List -> Seq(Node)]
  BY DEF Linked
<1> HIDE DEF s, t
<1>2. r \in 1 .. Len(s) /\ IsRemoved(t, s, r)
  BY DEF s, t
<1>3. At(list, t, r - 1) = At(list, s, r - 1)
  BY <1>1, <1>2 DEF IsRemoved, At
<1>4. At(list, t, r) = At(list, s, r + 1)
  <2>1. CASE r = Len(s)
    BY <1>1, <1>2, <2>1 DEF IsRemoved, At
  <2>2. CASE r # Len(s)
    <3>1. r + 1 \in r + 1 .. Len(s) /\ r + 1 \in 1 .. Len(s) /\ (r + 1) - 1 = r
      BY <1>1, <1>2, <2>2
    <3>2. r \in 1 .. Len(t) /\ t[r] = s[r + 1]
      BY <1>1, <1>2, <2>2, <3>1 DEF IsRemoved
    <3> QED  BY <3>1, <3>2 DEF At
  <2> QED  BY <2>1, <2>2
<1>5. l.next[s[r]] = At(list, s, r + 1) /\ l.prev[s[r]] = At(list, s, r - 1)
  <2>1. /\ r \in 0 .. Len(s) /\ r - 1 \in 0 .. Len(s) /\ (r - 1) + 1 = r
        /\ At(list, s, r) = s[r]
    BY <1>1, <1>2 DEF At
  <2> QED  BY <1>1, <2>1 DEF Ring
<1>6. (r - 1) + 1 = r
  BY <1>1, <1>2
<1> QED  BY <1>3, <1>4, <1>5, <1>6 DEF List_Replace, Inserted, Removed, s, t

-----------------------------------------------------------------------------
(* The invariant: besides the links, which lengths are kept.                *)
RInv ==
    /\ Linked(links, members)
    /\ made \subseteq List
    /\ length \in [Queue \cup Stack -> Int]
    /\ \A list \in (Queue \cup Stack) \cap made : length[list] = Len(members[list])

(* A queue or a stack that is in use is empty for the code when it has no   *)
(* members.                                                                 *)
LEMMA EmptyByLength ==
    ASSUME RInv, NEW list \in (Queue \cup Stack) \cap made, NEW node \in Node
    PROVE  IsEmpty(list) <=> members[list] = <<>>
<1>1. list \in List
  BY DEF List
<1>2. /\ List_IsEmpty(links, list) <=> members[list] = <<>>
      /\ members[list] \in Seq(Node)
  BY <1>1, CallsByNumber DEF RInv
<1>3. length[list] = Len(members[list])
  BY DEF RInv
<1> QED  BY <1>2, <1>3 DEF IsEmpty

LEMMA RInitially == Init => RInv
<1> SUFFICES ASSUME Init  PROVE  RInv
  OBVIOUS
<1> DEFINE self == [c \in Cell |-> CASE c = gMutexList -> Vector
                                   [] c = Vector -> gMutexList
                                   [] OTHER -> c]
<1>1. /\ links = [next |-> self, prev |-> self]
      /\ length = [list \in Queue \cup Stack |-> 0] /\ made = List
      /\ members = [list \in List |-> IF list = gMutexList THEN <<Vector>> ELSE <<>>]
  BY DEF Init
<1>2. gMutexList \in List /\ Vector \in Node /\ gMutexList # Vector
  BY CellAssumption DEF List
<1>3. self \in [Cell -> Cell] /\ self[gMutexList] = Vector /\ self[Vector] = gMutexList
  BY <1>2 DEF Cell
<1>4. \A list \in List \ {gMutexList} : self[list] = list
  BY <1>2, CellAssumption DEF Cell
<1> HIDE DEF self
<1>5. ASSUME NEW list \in List
      PROVE  /\ members[list] \in Seq(Node) /\ IsInjective(members[list])
             /\ Ring(links, list, members[list])
             /\ list # gMutexList => ToSet(members[list]) = {}
  <2>1. CASE list = gMutexList
    <3>1. members[list] = <<Vector>>
      BY <1>1, <2>1
    <3> QED  BY <1>1, <1>2, <1>3, <2>1, <3>1 DEF Ring, At, IsInjective
  <2>2. CASE list # gMutexList
    <3>1. members[list] = <<>>
      BY <1>1, <2>2
    <3> QED  BY <1>1, <1>4, <2>2, <3>1 DEF Ring, At, IsInjective, ToSet
  <2> QED  BY <2>1, <2>2
<1>6. IsLinks(links)
  BY <1>1, <1>3 DEF IsLinks
<1>7. Linked(links, members)
  BY <1>1, <1>5, <1>6 DEF Linked
<1>8. \A list \in (Queue \cup Stack) \cap made : length[list] = Len(members[list])
  <2>1. gMutexList \notin Queue \cup Stack
    BY CellAssumption
  <2> QED  BY <1>1, <2>1 DEF List
<1> QED  BY <1>1, <1>7, <1>8 DEF RInv

(* Every step that changes the links of one list.                           *)
LEMMA InsertStep ==
    ASSUME RInv, NEW list \in List, NEW node \in Free, NEW r \in 0 .. Len(members[list]),
           NEW t, IsInserted(t, members[list], r, node),
           links' = Inserted(links, members, list, r, node), Holds(list, t)
    PROVE  Linked(links', members') /\ Len(t) = Len(members[list]) + 1
<1>1. node \in Node /\ \A b \in List : node \notin ToSet(members[b])
  BY DEF Free
<1> QED  BY <1>1, InsertionKeeps DEF RInv, Holds, IsInserted

LEMMA RemoveStep ==
    ASSUME RInv, NEW list \in List, NEW r \in 1 .. Len(members[list]),
           NEW t, IsRemoved(t, members[list], r),
           links' = Removed(links, members, list, r), Holds(list, t)
    PROVE  Linked(links', members') /\ Len(t) = Len(members[list]) - 1
BY RemovalKeeps DEF RInv, Holds, IsRemoved

(* A removal and an insertion: members[list] becomes u by way of t.         *)
LEMMA MoveStep ==
    ASSUME RInv, NEW list \in List, NEW r \in 1 .. Len(members[list]),
           NEW t, IsRemoved(t, members[list], r),
           NEW node \in Node, node \notin ToSet(t),
           \A b \in List \ {list} : node \notin ToSet(members[b]),
           NEW j \in 0 .. Len(t), NEW u, IsInserted(u, t, j, node),
           links' = Inserted(Removed(links, members, list, r),
                             [members EXCEPT ![list] = t], list, j, node),
           Holds(list, u)
    PROVE  Linked(links', members') /\ Len(u) = Len(members[list])
<1> DEFINE l == Removed(links, members, list, r)
           lists == [members EXCEPT ![list] = t]
<1>1. Linked(l, lists)
  BY RemovalKeeps DEF RInv
<1>2. members \in [List -> Seq(Node)]
  BY DEF RInv, Linked
<1>3. lists[list] = t /\ \A b \in List \ {list} : lists[b] = members[b]
  BY <1>2
<1>4. [lists EXCEPT ![list] = u] = [members EXCEPT ![list] = u]
  BY <1>2
<1>5. \A b \in List : node \notin ToSet(lists[b])
  BY <1>3
<1> HIDE DEF l, lists
<1>6. Linked(Inserted(l, lists, list, j, node), [lists EXCEPT ![list] = u])
  BY <1>1, <1>3, <1>5, InsertionKeeps
<1>7. Len(members[list]) \in Nat
  BY <1>2
<1> QED  BY <1>4, <1>6, <1>7 DEF Holds, IsInserted, IsRemoved, l, lists

-----------------------------------------------------------------------------
LEMMA RStep == RInv /\ [Next]_ringVars => RInv'
<1> SUFFICES ASSUME RInv, [Next]_ringVars  PROVE  RInv'
  OBVIOUS
<1>0. /\ Linked(links, members) /\ made \subseteq List
      /\ length \in [Queue \cup Stack -> Int]
      /\ \A list \in (Queue \cup Stack) \cap made : length[list] = Len(members[list])
      /\ members \in [List -> Seq(Node)]
  BY DEF RInv, Linked
<1>1. ASSUME NEW list \in List, NEW node \in Free,
             NEW t, Holds(list, t), Linked(links', members'), Len(t) = Len(members[list]) + 1,
             list \in Queue \cup Stack, length' = [length EXCEPT ![list] = @ + 1],
             UNCHANGED made
      PROVE  RInv'
  BY <1>0, <1>1 DEF RInv, Holds
<1>2. ASSUME NEW list \in Bare, NEW t, Holds(list, t), Linked(links', members'),
             UNCHANGED <<length, made>>
      PROVE  RInv'
  <2>1. list \notin Queue \cup Stack
    BY CellAssumption
  <2>2. \A b \in List \ {list} : members'[b] = members[b]
    BY <1>0, <1>2 DEF Holds
  <2> QED  BY <1>0, <1>2, <2>1, <2>2 DEF RInv, List
<1>3. ASSUME NEW list \in List, NEW node \in Free, Queue_Add(list, node)  PROVE  RInv'
  <2> DEFINE s == members[list]
  <2>1. s \in Seq(Node) /\ Len(s) \in Nat /\ node \in Node
    BY <1>0 DEF Free
  <2>2. IsInserted(Append(s, node), s, Len(s), node)
    BY <2>1, SequenceChanges
  <2>3. links' = Inserted(links, members, list, Len(s), node)
    BY <1>0, <1>3, <2>1, CallsByNumber DEF Queue_Add
  <2>4. Linked(links', members') /\ Len(Append(s, node)) = Len(s) + 1
    BY <1>3, <2>1, <2>2, <2>3, InsertStep DEF Queue_Add
  <2> QED  BY <1>1, <1>3, <2>4 DEF Queue_Add
<1>4. ASSUME NEW list \in List, NEW node \in Free, Stack_Push(list, node)  PROVE  RInv'
  <2> DEFINE s == members[list]
  <2>1. s \in Seq(Node) /\ Len(s) \in Nat /\ node \in Node
    BY <1>0 DEF Free
  <2>2. IsInserted(<<node>> \o s, s, 0, node)
    BY <2>1, SequenceChanges
  <2>3. links' = Inserted(links, members, list, 0, node)
    BY <1>0, <1>4, <2>1, CallsByNumber DEF Stack_Push
  <2>4. Linked(links', members') /\ Len(<<node>> \o s) = Len(s) + 1
    BY <1>4, <2>1, <2>2, <2>3, InsertStep DEF Stack_Push
  <2> QED  BY <1>1, <1>4, <2>4 DEF Stack_Push
<1>5. ASSUME NEW list \in List, NEW node \in Free, AddToBare(list, node)  PROVE  RInv'
  <2> DEFINE s == members[list]
  <2>1. s \in Seq(Node) /\ Len(s) \in Nat /\ DOMAIN s = 1 .. Len(s) /\ node \in Node
    BY <1>0 DEF Free
  <2>2. list \in Bare /\ UNCHANGED <<length, made>>
    BY <1>5 DEF AddToBare
  <2>3. ASSUME NEW r \in 0 .. Len(s), NEW t, IsInserted(t, s, r, node), Holds(list, t),
               links' = Inserted(links, members, list, r, node)
        PROVE  RInv'
    <3>1. Linked(links', members')
      BY <2>3, InsertStep
    <3> QED  BY <1>2, <2>2, <2>3, <3>1
  <2>4. CASE links' = List_Add(links, list, node) /\ Holds(list, <<node>> \o s)
    <3>1. IsInserted(<<node>> \o s, s, 0, node) /\ 0 \in 0 .. Len(s)
      BY <2>1, SequenceChanges
    <3>2. links' = Inserted(links, members, list, 0, node)
      BY <1>0, <2>1, <2>4, CallsByNumber
    <3> QED  BY <2>3, <2>4, <3>1, <3>2
  <2>5. CASE links' = List_AddTail(links, list, node) /\ Holds(list, Append(s, node))
    <3>0. Len(s) \in 0 .. Len(s)
      BY <2>1
    <3>1. IsInserted(Append(s, node), s, Len(s), node)
      BY <2>1, SequenceChanges
    <3>2. links' = Inserted(links, members, list, Len(s), node)
      BY <1>0, <2>1, <2>5, CallsByNumber
    <3> QED  BY <2>3, <2>5, <3>0, <3>1, <3>2
  <2>6. ASSUME NEW r \in DOMAIN s, links' = List_AddAfter(links, s[r], node),
               Holds(list, InsertAt(s, r + 1, node))
        PROVE  RInv'
    <3>0. r \in 0 .. Len(s)
      BY <2>1
    <3>1. IsInserted(InsertAt(s, r + 1, node), s, r, node)
      BY <2>1, SequenceChanges
    <3>2. links' = Inserted(links, members, list, r, node)
      BY <1>0, <2>1, <2>6, CallsByNumber
    <3> QED  BY <2>3, <2>6, <3>0, <3>1, <3>2
  <2>7. ASSUME NEW r \in DOMAIN s, links' = List_AddBefore(links, s[r], node),
               Holds(list, InsertAt(s, r, node))
        PROVE  RInv'
    <3>0. r - 1 \in 0 .. Len(s)
      BY <2>1
    <3>1. IsInserted(InsertAt(s, r, node), s, r - 1, node)
      BY <2>1, SequenceChanges
    <3>2. links' = Inserted(links, members, list, r - 1, node)
      BY <1>0, <2>1, <2>7, CallsByNumber
    <3> QED  BY <2>3, <2>7, <3>0, <3>1, <3>2
  <2> QED  BY <1>5, <2>4, <2>5, <2>6, <2>7 DEF AddToBare
<1>6. ASSUME NEW list \in List, NEW r \in DOMAIN members[list], DelFromBare(list, r)
      PROVE  RInv'
  <2> DEFINE s == members[list]
  <2>1. s \in Seq(Node) /\ r \in 1 .. Len(s) /\ s[r] \in Node
    BY <1>0
  <2>2. IsRemoved(RemoveAt(s, r), s, r)
    BY <2>1, SequenceChanges
  <2>3. links' = Removed(links, members, list, r)
    BY <1>0, <1>6, <2>1, CallsByNumber DEF DelFromBare
  <2>4. Linked(links', members')
    BY <1>6, <2>1, <2>2, <2>3, RemoveStep DEF DelFromBare
  <2> QED  BY <1>2, <1>6, <2>4 DEF DelFromBare
<1>7. ASSUME NEW list \in List, NEW node \in Free, NEW r \in DOMAIN members[list],
             ReplaceInBare(list, r, node)
      PROVE  RInv'
  <2> DEFINE s == members[list]
             t == RemoveAt(s, r)
             u == [s EXCEPT ![r] = node]
  <2>1. /\ s \in Seq(Node) /\ IsInjective(s) /\ r \in 1 .. Len(s) /\ node \in Node
        /\ \A b \in List : node \notin ToSet(members[b])
    BY <1>0 DEF Free, Linked
  <2>2. IsRemoved(t, s, r) /\ IsInserted(u, t, r - 1, node)
    BY <2>1, SequenceChanges
  <2> HIDE DEF t, u
  <2>3. ToSet(t) = ToSet(s) \ {s[r]} /\ Len(t) = Len(s) - 1
    <3>1. Len(t) = Len(s) - 1
      BY <2>2 DEF IsRemoved
    <3> HIDE DEF s
    <3>2. ToSet(t) = ToSet(s) \ {s[r]}
      BY <2>1, <2>2, RemainingMembers
    <3> QED  BY <3>1, <3>2
  <2>4. r - 1 \in 0 .. Len(t) /\ node \notin ToSet(t)
    BY <2>1, <2>3
  <2>5. links' = Inserted(Removed(links, members, list, r),
                          [members EXCEPT ![list] = t], list, r - 1, node)
    <3>1. links' = List_Replace(links, s[r], node)
      BY <1>7 DEF ReplaceInBare
    <3> DEFINE rest == [members EXCEPT ![list] = t]
    <3>2. IsRemoved(rest[list], s, r)
      BY <1>0, <2>2
    <3> HIDE DEF rest
    <3>3. List_Replace(links, s[r], node)
            = Inserted(Removed(links, members, list, r), rest, list, r - 1, node)
      BY <1>0, <2>1, <3>2, ReplaceByNumber
    <3> QED  BY <3>1, <3>3 DEF rest
  <2>6. Holds(list, u) /\ list \in Bare /\ UNCHANGED <<length, made>>
    BY <1>7 DEF ReplaceInBare, u
  <2>7. Linked(links', members')
    BY <2>1, <2>2, <2>4, <2>5, <2>6, MoveStep
  <2> QED  BY <1>2, <2>6, <2>7
<1>8. ASSUME NEW list \in List, RemoveFront(list) \/ Destroy(list)  PROVE  RInv'
  <2> DEFINE s == members[list]
  <2>1. PICK node \in Node : TRUE
    BY CellAssumption
  <2>2. s # <<>>
    BY <1>0, <1>8, <2>1, EmptyByLength, CallsByNumber DEF RemoveFront, Destroy
  <2>3. s \in Seq(Node) /\ 1 \in 1 .. Len(s) /\ IsRemoved(Tail(s), s, 1)
    BY <1>0, <2>1, <2>2, SequenceChanges
  <2>4. links' = Removed(links, members, list, 1)
    BY <1>0, <1>8, <2>1, <2>2, <2>3, CallsByNumber DEF RemoveFront, Destroy
  <2>5. Holds(list, Tail(s)) /\ list \in Queue \cup Stack
    BY <1>8 DEF RemoveFront, Destroy
  <2>6. Linked(links', members') /\ Len(Tail(s)) = Len(s) - 1
    BY <2>3, <2>4, <2>5, RemoveStep
  <2>7. members'[list] = Tail(s) /\ \A b \in List \ {list} : members'[b] = members[b]
    BY <1>0, <2>5 DEF Holds
  <2>8. CASE RemoveFront(list)
    <3>1. length' = [length EXCEPT ![list] = @ - 1] /\ made' = made /\ list \in made
      BY <2>8 DEF RemoveFront
    <3>2. length' \in [Queue \cup Stack -> Int] /\ length'[list] = Len(Tail(s))
      <4>1. length[list] = Len(s)
        BY <1>0, <2>5, <3>1
      <4>2. length[list] \in Int /\ length' \in [Queue \cup Stack -> Int]
        BY <1>0, <2>5, <3>1
      <4>3. length'[list] = length[list] - 1
        BY <1>0, <2>5, <3>1
      <4> QED  BY <2>6, <4>1, <4>2, <4>3
    <3>3. \A b \in (Queue \cup Stack) \cap made' : length'[b] = Len(members'[b])
      BY <1>0, <2>5, <2>7, <3>1, <3>2 DEF List
    <3> QED  BY <1>0, <2>6, <3>1, <3>2, <3>3 DEF RInv
  <2>9. CASE Destroy(list)
    BY <1>0, <2>5, <2>6, <2>7, <2>9 DEF RInv, Destroy, List
  <2> QED  BY <1>8, <2>8, <2>9
<1>9. ASSUME NEW list \in List, Queue_Rotate(list)  PROVE  RInv'
  <2> DEFINE s == members[list]
             t == Tail(s)
             u == Rotate(s)
  <2>1. PICK any \in Node : TRUE
    BY CellAssumption
  <2>2. /\ s \in Seq(Node) /\ IsInjective(s) /\ s # <<>> /\ links.next[list] = s[1]
        /\ s[1] \in Node /\ s[1] \in ToSet(s) /\ Len(s) \in Nat
    <3>1. s # <<>>
      BY <1>9, <2>1, EmptyByLength DEF Queue_Rotate
    <3>2. s \in Seq(Node) /\ links.next[list] = s[1]
      BY <1>0, <2>1, <3>1, CallsByNumber
    <3>3. IsInjective(s)
      BY <1>0 DEF Linked
    <3>4. Len(s) \in Nat /\ 1 \in 1 .. Len(s)
      BY <3>1, <3>2
    <3> QED  BY <3>1, <3>2, <3>3, <3>4, ByNumber
  <2>3. /\ 1 \in 1 .. Len(s) /\ IsRemoved(t, s, 1) /\ u = Append(t, s[1])
        /\ t \in Seq(Node) /\ Len(t) \in Nat
    <3>1. 1 \in 1 .. Len(s) /\ IsRemoved(t, s, 1)
      BY <2>2, SequenceChanges
    <3> QED  BY <2>2, <3>1 DEF Rotate
  <2> HIDE DEF t, u
  <2>4. IsInserted(u, t, Len(t), s[1]) /\ Len(t) \in 0 .. Len(t)
    <3>1. IsInserted(Append(t, s[1]), t, Len(t), s[1])
      BY <2>2, <2>3, SequenceChanges
    <3> QED  BY <2>3, <3>1
  <2>5. s[1] \notin ToSet(t)
    BY <2>2, <2>3, RemainingMembers
  <2>6. ASSUME NEW b \in List \ {list}  PROVE  s[1] \notin ToSet(members[b])
    BY <1>0, <2>2 DEF Linked
  <2> DEFINE l == Removed(links, members, list, 1)
             lists == [members EXCEPT ![list] = t]
  <2>7. List_DelNode(links, s[1]) = l
    BY <1>0, <2>1, <2>3, CallsByNumber
  <2>8. Linked(l, lists) /\ lists[list] = t
    BY <1>0, <2>3, RemovalKeeps
  <2> HIDE DEF l, lists
  <2>9. List_AddTail(l, list, s[1]) = Inserted(l, lists, list, Len(t), s[1])
    BY <2>2, <2>8, CallsByNumber
  <2>10. links' = Inserted(l, lists, list, Len(t), s[1]) /\ Holds(list, u)
    BY <1>9, <2>2, <2>7, <2>9 DEF Queue_Rotate, u
  <2>11. Linked(links', members') /\ Len(u) = Len(s)
    BY <2>2, <2>3, <2>4, <2>5, <2>6, <2>10, MoveStep DEF l, lists
  <2> QED  BY <1>0, <1>9, <2>10, <2>11 DEF RInv, Holds, Queue_Rotate
<1>10. ASSUME NEW list \in List, Initialise(list)  PROVE  RInv'
  <2>1. PICK any \in Node : TRUE
    BY CellAssumption
  <2>2. links.next[list] = list /\ links.prev[list] = list
    BY <1>0, <1>10, <2>1, CallsByNumber DEF Initialise, List_IsEmpty
  <2>3. links' = links
    BY <1>0, <1>10, <2>2 DEF Initialise, List_Init, Linked, IsLinks
  <2> QED  BY <1>0, <1>10, <2>3 DEF RInv, Initialise
<1>11. CASE UNCHANGED ringVars
  BY <1>0, <1>11 DEF RInv, ringVars
<1> QED  BY <1>3, <1>4, <1>5, <1>6, <1>7, <1>8, <1>9, <1>10, <1>11 DEF Next

(* The links of every list are the ring of its members after any sequence   *)
(* of the calls of list.c, queue.c and stack.c, whatever the number of      *)
(* lists and nodes.                                                         *)
THEOREM LinksAreRings == Spec => []LinksHoldMembers
<1>1. RInv => LinksHoldMembers
  BY DEF RInv, Linked, LinksHoldMembers
<1> QED  BY <1>1, RInitially, RStep, PTL DEF Spec

-----------------------------------------------------------------------------
(* The calls that only read.  What the loop visits is defined step by step, *)
(* from any number of steps to the next one.                                *)
Visits(l, list, N, f) ==
    f = [k \in 0 .. N |-> IF k = 0 THEN l.next[list] ELSE l.next[f[k - 1]]]

LEMMA VisitsExist ==
    ASSUME NEW l, NEW list, NEW N \in Nat
    PROVE  \E f : Visits(l, list, N, f)
<1> DEFINE S == {n \in Nat : ~ \E f : Visits(l, list, n, f)}
<1> SUFFICES ASSUME S # {}  PROVE  FALSE
  OBVIOUS
<1>1. PICK m \in S : \A n \in S : m <= n
  BY LeastNat
<1>2. CASE m = 0
  <2> DEFINE f == [k \in 0 .. 0 |-> l.next[list]]
  <2>1. f = [k \in 0 .. 0 |-> IF k = 0 THEN l.next[list] ELSE l.next[f[k - 1]]]
    OBVIOUS
  <2> QED  BY <1>1, <1>2, <2>1 DEF Visits
<1>3. CASE m # 0
  <2>1. m \in Nat /\ m - 1 \in Nat /\ m - 1 \notin S
    BY <1>1, <1>3
  <2>2. PICK f : Visits(l, list, m - 1, f)
    BY <2>1
  <2>3. /\ DOMAIN f = 0 .. m - 1
        /\ \A k \in 0 .. m - 1 : f[k] = IF k = 0 THEN l.next[list] ELSE l.next[f[k - 1]]
    BY <2>2 DEF Visits
  <2> DEFINE g == [k \in 0 .. m |-> IF k = m THEN l.next[f[m - 1]] ELSE f[k]]
  <2>4. ASSUME NEW k \in 0 .. m
        PROVE  g[k] = IF k = 0 THEN l.next[list] ELSE l.next[g[k - 1]]
    <3>1. CASE k = m
      BY <1>3, <2>1, <3>1
    <3>2. CASE k # m
      <4>1. k \in 0 .. m - 1 /\ g[k] = f[k]
        BY <2>1, <3>2
      <4>2. k # 0 => k - 1 \in 0 .. m /\ k - 1 # m /\ g[k - 1] = f[k - 1]
        BY <2>1, <4>1
      <4> QED  BY <2>3, <4>1, <4>2
    <3> QED  BY <3>1, <3>2
  <2>5. g = [k \in 0 .. m |-> IF k = 0 THEN l.next[list] ELSE l.next[g[k - 1]]]
    <3>1. g = [k \in 0 .. m |-> g[k]]
      OBVIOUS
    <3> HIDE DEF g
    <3> QED  BY <2>4, <3>1
  <2> QED  BY <1>1, <2>5 DEF Visits
<1> QED  BY <1>2, <1>3

(* A walk round a ring meets its members in order, and then the head.       *)
LEMMA WalkMeetsMembers ==
    ASSUME NEW l, NEW list \in List, NEW s \in Seq(Node), Ring(l, list, s), IsInjective(s)
    PROVE  Walk(l, list) = s
<1> DEFINE L == Len(s)
           N == Cardinality(Node)
           pos == Visited(l, list)
<1>1. L \in Nat /\ DOMAIN s = 1 .. L /\ \A k \in 1 .. L : s[k] \in Node
  OBVIOUS
<1>2. N \in Nat /\ L <= N
  <2>1. s \in Injection(1 .. L, Node)
    BY <1>1 DEF IsInjective, Injection, IsInjective
  <2>2. IsFiniteSet(Node) /\ Cardinality(1 .. L) = L
    BY <1>1, FS_Interval, CellAssumption, SMTT(30)
  <2> QED  BY <2>1, <2>2, FS_Injection, FS_CardinalityType
<1>3. Visits(l, list, N, pos)
  <2>1. \E f : f = [k \in 0 .. N |-> IF k = 0 THEN l.next[list] ELSE l.next[f[k - 1]]]
    <3>1. \E f : Visits(l, list, N, f)
      BY <1>2, VisitsExist
    <3> HIDE DEF N
    <3> QED  BY <3>1 DEF Visits
  <2>2. pos = [k \in 0 .. N |-> IF k = 0 THEN l.next[list] ELSE l.next[pos[k - 1]]]
    BY <2>1, Zenon DEF Visited
  <2> QED  BY <2>2 DEF Visits
<1>4. /\ DOMAIN pos = 0 .. N
      /\ pos[0] = l.next[list]
      /\ \A k \in 1 .. N : pos[k] = l.next[pos[k - 1]]
  BY <1>2, <1>3 DEF Visits
<1> HIDE DEF N, pos
<1>5. \A k \in 0 .. L : pos[k] = At(list, s, k + 1)
  <2> DEFINE S == {k \in 0 .. L : pos[k] # At(list, s, k + 1)}
  <2> SUFFICES ASSUME S # {}  PROVE  FALSE
    OBVIOUS
  <2>0. S \in SUBSET Nat
    BY <1>1
  <2>1. PICK m \in S : \A n \in S : m <= n
    BY <2>0, LeastNat
  <2>2. m \in 0 .. L /\ l.next[At(list, s, m)] = At(list, s, m + 1)
    BY <2>1 DEF Ring
  <2>3. CASE m = 0
    BY <1>1, <1>4, <2>1, <2>2, <2>3 DEF At
  <2>4. CASE m # 0
    <3>1. m - 1 \in 0 .. L /\ m - 1 \notin S /\ (m - 1) + 1 = m
      BY <1>1, <2>1, <2>2, <2>4
    <3>2. pos[m - 1] = At(list, s, m) /\ m \in 1 .. N
      BY <1>1, <1>2, <2>2, <2>4, <3>1
    <3> QED  BY <1>4, <2>1, <2>2, <3>2
  <2> QED  BY <2>3, <2>4
<1>6. list \notin Node
  BY CellAssumption
<1>7. pos[L] = list /\ \A k \in 0 .. L - 1 : pos[k] = s[k + 1] /\ pos[k] # list
  BY <1>1, <1>5, <1>6 DEF At
<1> DEFINE back == {k \in DOMAIN pos : pos[k] = list}
           steps == CHOOSE k \in back : \A j \in back : k <= j
<1>8. L \in back /\ \A k \in back : k \in Nat /\ L <= k
  BY <1>1, <1>2, <1>4, <1>7
<1> HIDE DEF back
<1>9. steps = L
  <2>1. \A j \in back : L <= j
    BY <1>8
  <2>2. steps \in back /\ \A j \in back : steps <= j
    BY <1>8, <2>1
  <2> QED  BY <1>1, <1>8, <2>2
<1>10. Walk(l, list) = [k \in 1 .. steps |-> pos[k - 1]]
  BY DEF Walk, pos, back
<1>11. \A k \in 1 .. L : pos[k - 1] = s[k]
  BY <1>1, <1>7
<1>12. [k \in 1 .. L |-> pos[k - 1]] = [k \in 1 .. L |-> s[k]]
  BY <1>11
<1>13. s = [k \in 1 .. L |-> s[k]]
  BY <1>1
<1> QED  BY <1>9, <1>10, <1>12, <1>13

(* What a search finds is the first member that the function accepts.       *)
LEMMA SearchFinds ==
    ASSUME NEW l, NEW list \in List, NEW s \in Seq(Node), Ring(l, list, s), IsInjective(s), NEW S
    PROVE  List_FindNode(l, list, S) =
                IF ToSet(s) \cap S = {} THEN {} ELSE {Head(SelectIn(s, S))}
<1>1. Walk(l, list) = s
  BY WalkMeetsMembers
<1>2. SelectIn(s, S) \in Seq(Node) /\ ToSet(SelectIn(s, S)) = ToSet(s) \cap S
  BY SelectInSet
<1>3. SelectIn(s, S) = <<>> <=> ToSet(s) \cap S = {}
  BY <1>2, EmptySet, NonEmptySet
<1> QED  BY <1>1, <1>3 DEF List_FindNode

LEMMA ReadersReturn == RInv => ReadersAgree
<1> SUFFICES ASSUME RInv, NEW list \in List
             PROVE  LET s == members[list]
                    IN  /\ Walk(links, list) = s
                        /\ List_IsEmpty(links, list) <=> s = <<>>
                        /\ \A n \in Node :
                            /\ List_IsLast(links, list, n) <=> s # <<>> /\ Last(s) = n
                            /\ List_IsContained(links, list, n) <=> n \in ToSet(s)
                        /\ \A S \in SUBSET Node :
                            List_FindNode(links, list, S) =
                                IF ToSet(s) \cap S = {} THEN {} ELSE {Head(SelectIn(s, S))}
                        /\ list \in (Queue \cup Stack) \cap made =>
                            /\ IsEmpty(list) <=> s = <<>>
                            /\ FrontOf(list) = IF s = <<>> THEN {} ELSE {Head(s)}
  BY DEF ReadersAgree
<1> DEFINE s == members[list]
<1>1. Linked(links, members) /\ s \in Seq(Node) /\ Ring(links, list, s) /\ IsInjective(s)
  BY DEF RInv, Linked
<1>2. /\ Len(s) \in Nat /\ DOMAIN s = 1 .. Len(s) /\ list \notin Node
      /\ \A k \in 1 .. Len(s) : s[k] \in Node
  BY <1>1, CellAssumption
<1> HIDE DEF s
<1>3. Walk(links, list) = s
  BY <1>1, WalkMeetsMembers
<1>4. PICK any \in Node : TRUE
  BY CellAssumption
<1>5. /\ List_IsEmpty(links, list) <=> s = <<>>
      /\ s # <<>> => links.next[list] = s[1]
  BY <1>1, <1>4, CallsByNumber DEF s
<1>6. links.prev[list] = (IF s = <<>> THEN list ELSE s[Len(s)])
      /\ (s # <<>> => links.next[s[Len(s)]] = list)
  <2>1. /\ Len(s) \in 0 .. Len(s) /\ At(list, s, Len(s) + 1) = list
        /\ At(list, s, Len(s)) = IF s = <<>> THEN list ELSE s[Len(s)]
    BY <1>1, <1>2 DEF At
  <2>2. /\ links.next[At(list, s, Len(s))] = At(list, s, Len(s) + 1)
        /\ links.prev[At(list, s, Len(s) + 1)] = At(list, s, Len(s))
    BY <1>1, <2>1 DEF Ring
  <2> QED  BY <2>1, <2>2
<1>7. ASSUME NEW n \in Node
      PROVE  List_IsLast(links, list, n) <=> s # <<>> /\ Last(s) = n
  BY <1>2, <1>6 DEF List_IsLast, Last
<1>8. ASSUME NEW S
      PROVE  List_FindNode(links, list, S) =
                IF ToSet(s) \cap S = {} THEN {} ELSE {Head(SelectIn(s, S))}
  BY <1>1, SearchFinds
<1>9. ASSUME NEW n \in Node
      PROVE  List_IsContained(links, list, n) <=> n \in ToSet(s)
  BY <1>8 DEF List_IsContained
<1>10. ASSUME list \in (Queue \cup Stack) \cap made
       PROVE  /\ IsEmpty(list) <=> s = <<>>
              /\ FrontOf(list) = IF s = <<>> THEN {} ELSE {Head(s)}
  <2>1. IsEmpty(list) <=> s = <<>>
    BY <1>4, <1>10, EmptyByLength DEF s
  <2>2. s # <<>> => Head(s) = s[1]
    BY <1>1
  <2> QED  BY <1>5, <2>1, <2>2 DEF FrontOf
<1> QED  BY <1>3, <1>5, <1>7, <1>8, <1>9, <1>10 DEF s

(* What the calls that only read return is what the sequence of members     *)
(* says: the walk meets the members in order and ends, a search finds the   *)
(* first that fits, the front is the first and the last is the last.        *)
THEOREM ReadersSeeMembers == Spec => []ReadersAgree
BY ReadersReturn, RInitially, RStep, PTL DEF Spec

-----------------------------------------------------------------------------
(* The loader.  Numbers of bytes and sectors. *)
LEMMA SectorNumbers ==
    ASSUME NEW k \in Nat, NEW o \in 0 .. BytsPerSec - 1
    PROVE  /\ k * BytsPerSec \in Nat /\ (k + 1) * BytsPerSec = k * BytsPerSec + BytsPerSec
           /\ (k * BytsPerSec + o) \div BytsPerSec = k
           /\ (k * BytsPerSec + o) % BytsPerSec = o
<1>1. BytsPerSec \in Nat /\ BytsPerSec > 0
  BY LayoutAssumption
<1>2. k * BytsPerSec \in Nat /\ (k + 1) * BytsPerSec = k * BytsPerSec + BytsPerSec
  BY <1>1, SMT
<1> DEFINE n == k * BytsPerSec + o
           q == n \div BytsPerSec
           r == n % BytsPerSec
<1>3. n \in Nat /\ n = k * BytsPerSec + o
  BY <1>1, <1>2
<1> HIDE DEF n
<1>4. q \in Nat /\ r \in 0 .. BytsPerSec - 1 /\ n = BytsPerSec * q + r
  BY <1>1, <1>3, SMT
<1> QED  BY <1>1, <1>2, <1>3, <1>4, SMT

LEMMA SectorOf ==
    ASSUME NEW n \in Nat
    PROVE  /\ n \div BytsPerSec \in Nat /\ n % BytsPerSec \in 0 .. BytsPerSec - 1
           /\ (n \div BytsPerSec) * BytsPerSec + (n % BytsPerSec) = n
           /\ \A k \in Nat : n < k * BytsPerSec => n \div BytsPerSec < k
<1>1. BytsPerSec \in Nat /\ BytsPerSec > 0
  BY LayoutAssumption
<1> DEFINE q == n \div BytsPerSec
           r == n % BytsPerSec
<1>2. q \in Nat /\ r \in 0 .. BytsPerSec - 1 /\ q * BytsPerSec + r = n
  BY <1>1, SMT
<1> HIDE DEF q, r
<1>3. ASSUME NEW k \in Nat, n < k * BytsPerSec  PROVE  q < k
  <2> SUFFICES ASSUME q >= k  PROVE  FALSE
    BY <1>2
  <2>1. q - k \in Nat /\ q = k + (q - k)
    BY <1>2
  <2>2. q * BytsPerSec = k * BytsPerSec + (q - k) * BytsPerSec /\ (q - k) * BytsPerSec >= 0
    BY <1>1, <2>1, SMT
  <2>3. k * BytsPerSec \in Nat /\ q * BytsPerSec \in Nat /\ (q - k) * BytsPerSec \in Nat
    BY <1>1, <1>2, <2>1, SMT
  <2> QED  BY <1>2, <1>3, <2>2, <2>3
<1>4. /\ q \in Nat /\ r \in 0 .. BytsPerSec - 1 /\ q * BytsPerSec + r = n
      /\ \A k \in Nat : n < k * BytsPerSec => q < k
  BY <1>2, <1>3, Zenon
<1> QED  BY <1>4, Zenon DEF q, r

(* What a read leaves in memory. *)
IsRead(t, m, ax, cx, bx) ==
    /\ DOMAIN t = DOMAIN m
    /\ \A a \in DOMAIN m : a \in Nat /\ ~(a >= bx /\ a < bx + cx * BytsPerSec) => t[a] = m[a]
    /\ \A n \in Nat : n < cx * BytsPerSec /\ bx + n \in DOMAIN m =>
        t[bx + n] = <<ax + n \div BytsPerSec, n % BytsPerSec>>

LEMMA ReadBytes ==
    ASSUME NEW m, NEW ax \in Nat, NEW cx \in Nat, NEW bx \in Nat
    PROVE  IsRead(readSector(m, ax, cx, bx), m, ax, cx, bx)
<1>1. cx * BytsPerSec \in Nat
  BY LayoutAssumption
<1> DEFINE size == cx * BytsPerSec
<1>2. readSector(m, ax, cx, bx) =
        [a \in DOMAIN m |->
            IF a \in bx .. bx + size - 1
            THEN <<ax + ((a - bx) \div BytsPerSec), (a - bx) % BytsPerSec>> ELSE m[a]]
  BY DEF readSector
<1>3. size \in Nat
  BY <1>1
<1> HIDE DEF size
<1>4. \A n \in Nat : (bx + n) - bx = n /\ (n < size => bx + n \in bx .. bx + size - 1)
  BY <1>3
<1>5. \A a \in Nat : a \in bx .. bx + size - 1 <=> a >= bx /\ a < bx + size
  BY <1>3
<1> QED  BY <1>2, <1>4, <1>5 DEF IsRead, size

-----------------------------------------------------------------------------
(* The clusters of a file, and how many.                                    *)
Files == DOMAIN disk.chain
Chain(f) == disk.chain[f]
Length(f) == Len(disk.chain[f])
Cluster == {c \in Nat : c >= 2 /\ c <= 4086}

LEMMA DiskOf ==
    ASSUME disk \in Disks
    PROVE  /\ DOMAIN disk.size = Files
           /\ \A f \in Files :
                /\ Length(f) \in Nat \ {0} /\ DOMAIN Chain(f) = 1 .. Length(f)
                /\ \A k \in 1 .. Length(f) :
                    /\ Chain(f)[k] \in Cluster
                    /\ (Chain(f)[k] \div 2) * 3 + 2 < FatTableLength * BytsPerSec
                /\ disk.size[f] \in Nat \ {0} /\ disk.size[f] <= Length(f) * BytsPerSec
           /\ \A f, g \in Files :
                \A j \in 1 .. Length(f), k \in 1 .. Length(g) :
                    Chain(f)[j] = Chain(g)[k] => f = g /\ j = k
<1>0. BytsPerSec \in Nat
  BY LayoutAssumption
<1>1. /\ DOMAIN disk.size = Files
      /\ \A f \in Files :
            /\ Chain(f) \in Seq(Nat)
            /\ disk.size[f] \in 1 .. Length(f) * BytsPerSec
            /\ \A k \in DOMAIN Chain(f) :
                /\ Chain(f)[k] >= 2 /\ Chain(f)[k] <= 4086
                /\ (Chain(f)[k] \div 2) * 3 + 2 < FatTableLength * BytsPerSec
      /\ \A f, g \in Files :
            \A j \in DOMAIN Chain(f), k \in DOMAIN Chain(g) :
                Chain(f)[j] = Chain(g)[k] => f = g /\ j = k
  BY DisksAssumption DEF Files, Chain, Length
<1>2. ASSUME NEW f \in Files
      PROVE  /\ Length(f) \in Nat /\ DOMAIN Chain(f) = 1 .. Length(f)
             /\ \A k \in 1 .. Length(f) : Chain(f)[k] \in Cluster
  <2>1. Chain(f) \in Seq(Nat) /\ Length(f) = Len(Chain(f))
    BY <1>1 DEF Chain, Length
  <2>2. /\ Length(f) \in Nat /\ DOMAIN Chain(f) = 1 .. Length(f)
        /\ \A k \in 1 .. Length(f) : Chain(f)[k] \in Nat
    BY <2>1, ElementOfSeq, LenProperties
  <2> QED  BY <1>1, <2>2 DEF Cluster
<1>3. ASSUME NEW f \in Files
      PROVE  /\ Length(f) # 0
             /\ disk.size[f] \in Nat \ {0} /\ disk.size[f] <= Length(f) * BytsPerSec
  <2>1. disk.size[f] \in 1 .. Length(f) * BytsPerSec /\ Length(f) \in Nat
    BY <1>1, <1>2
  <2>2. Length(f) = 0 => Length(f) * BytsPerSec = 0
    BY <1>0
  <2>3. Length(f) * BytsPerSec \in Nat
    BY <1>0, <2>1
  <2> QED  BY <2>1, <2>2, <2>3
<1>4. ASSUME NEW f \in Files, NEW k \in 1 .. Length(f)
      PROVE  (Chain(f)[k] \div 2) * 3 + 2 < FatTableLength * BytsPerSec
  <2>1. k \in DOMAIN Chain(f)
    BY <1>2
  <2> QED  BY <1>1, <2>1
<1>5. ASSUME NEW f \in Files, NEW g \in Files,
             NEW j \in 1 .. Length(f), NEW k \in 1 .. Length(g), Chain(f)[j] = Chain(g)[k]
      PROVE  f = g /\ j = k
  <2>1. j \in DOMAIN Chain(f) /\ k \in DOMAIN Chain(g)
    BY <1>2
  <2> QED  BY <1>1, <1>5, <2>1
<1>6. \A f \in Files : Length(f) \in Nat \ {0}
  BY <1>2, <1>3
<1>7. ASSUME NEW f \in Files
      PROVE  /\ Length(f) \in Nat \ {0} /\ DOMAIN Chain(f) = 1 .. Length(f)
             /\ \A k \in 1 .. Length(f) :
                    /\ Chain(f)[k] \in Cluster
                    /\ (Chain(f)[k] \div 2) * 3 + 2 < FatTableLength * BytsPerSec
             /\ disk.size[f] \in Nat \ {0} /\ disk.size[f] <= Length(f) * BytsPerSec
  BY <1>2, <1>3, <1>4, <1>6
<1>8. DOMAIN disk.size = Files
  BY <1>1
<1> QED  BY <1>5, <1>7, <1>8

(* The places of a cluster in the chains. *)
Links(c) ==
    {l \in UNION {{f} \X DOMAIN disk.chain[f] : f \in DOMAIN disk.chain} :
        disk.chain[l[1]][l[2]] = c}

LEMMA FatByLinks ==
    ASSUME NEW c \in Nat, c >= 2
    PROVE  Fat(c) =
            IF Links(c) = {} THEN 0
            ELSE LET l == CHOOSE l \in Links(c) : TRUE
                 IN  IF l[2] + 1 \in DOMAIN Chain(l[1]) THEN Chain(l[1])[l[2] + 1] ELSE 4095
<1> DEFINE places == UNION {{f} \X DOMAIN disk.chain[f] : f \in DOMAIN disk.chain}
           link == {l \in places : disk.chain[l[1]][l[2]] = c}
<1>1. ~(c < 2)
  OBVIOUS
<1> DEFINE rest == IF link = {} THEN 0
                   ELSE LET l == CHOOSE l \in link : TRUE
                            next == l[2] + 1
                        IN  IF next \in DOMAIN disk.chain[l[1]] THEN disk.chain[l[1]][next]
                            ELSE 4095
<1>2. Fat(c) = IF c < 2 THEN 4080 + 15 * c ELSE rest
  BY DEF Fat
<1>3. Fat(c) = rest
  <2> HIDE DEF rest
  <2> QED  BY <1>1, <1>2
<1>4. link = Links(c)
  BY DEF Links
<1> HIDE DEF link
<1> QED  BY <1>3, <1>4 DEF Chain

LEMMA LinksOf ==
    ASSUME disk \in Disks, NEW c
    PROVE  \A l : l \in Links(c) <=>
                \E f \in Files : \E k \in 1 .. Length(f) : l = <<f, k>> /\ Chain(f)[k] = c
<1>1. \A f \in Files : DOMAIN disk.chain[f] = 1 .. Length(f)
  BY DiskOf DEF Chain
<1>2. ASSUME NEW l \in Links(c)
      PROVE  \E f \in Files : \E k \in 1 .. Length(f) : l = <<f, k>> /\ Chain(f)[k] = c
  <2>1. PICK f \in Files : l \in {f} \X DOMAIN disk.chain[f]
    BY DEF Links, Files
  <2>2. l = <<f, l[2]>> /\ l[1] = f /\ l[2] \in 1 .. Length(f) /\ disk.chain[l[1]][l[2]] = c
    <3>1. l[1] = f /\ l[2] \in DOMAIN disk.chain[f] /\ l = <<f, l[2]>>
      BY <2>1
    <3>2. disk.chain[l[1]][l[2]] = c
      BY DEF Links
    <3> QED  BY <1>1, <3>1, <3>2
  <2> QED  BY <2>2 DEF Chain
<1>3. ASSUME NEW f \in Files, NEW k \in 1 .. Length(f), Chain(f)[k] = c
      PROVE  <<f, k>> \in Links(c)
  <2>1. <<f, k>> \in {f} \X DOMAIN disk.chain[f]
    BY <1>1
  <2> QED  BY <1>3, <2>1 DEF Links, Files, Chain
<1> QED  BY <1>2, <1>3

(* The successor of a cluster in the table. *)
LEMMA FatNext ==
    ASSUME disk \in Disks, NEW f \in Files, NEW k \in 1 .. Length(f)
    PROVE  Fat(Chain(f)[k]) = IF k + 1 \in 1 .. Length(f) THEN Chain(f)[k + 1] ELSE 4095
<1> DEFINE c == Chain(f)[k]
<1>1. c \in Nat /\ c >= 2
  <2>1. c \in Cluster
    BY DiskOf
  <2> HIDE DEF c
  <2> QED  BY <2>1 DEF Cluster
<1>2. Links(c) = {<<f, k>>}
  <2>1. <<f, k>> \in Links(c)
    BY LinksOf
  <2>2. ASSUME NEW l \in Links(c)  PROVE  l = <<f, k>>
    <3> HIDE DEF c
    <3>1. PICK g \in Files : \E j \in 1 .. Length(g) : l = <<g, j>> /\ Chain(g)[j] = c
      BY LinksOf
    <3>2. PICK j \in 1 .. Length(g) : l = <<g, j>> /\ Chain(g)[j] = c
      BY <3>1
    <3>3. Chain(g)[j] = Chain(f)[k]
      BY <3>2 DEF c
    <3> QED  BY <3>2, <3>3, DiskOf
  <2> QED  BY <2>1, <2>2
<1>3. (CHOOSE l \in Links(c) : TRUE) = <<f, k>>
  BY <1>2
<1>4. Fat(c) = IF k + 1 \in DOMAIN Chain(f) THEN Chain(f)[k + 1] ELSE 4095
  <2> HIDE DEF c
  <2>1. Links(c) # {}
    BY <1>2
  <2> QED  BY <1>1, <1>3, <2>1, FatByLinks
<1> QED  BY <1>4, DiskOf

LEMMA FatType ==
    ASSUME disk \in Disks, NEW c \in Nat
    PROVE  Fat(c) \in Nat /\ Fat(c) <= 4095
<1>1. CASE c < 2
  <2>1. Fat(c) = 4080 + 15 * c
    BY <1>1, Zenon DEF Fat
  <2> QED  BY <1>1, <2>1
<1>2. CASE c >= 2 /\ Links(c) = {}
  BY <1>2, FatByLinks
<1>3. CASE c >= 2 /\ Links(c) # {}
  <2>0. PICK f \in Files : \E k \in 1 .. Length(f) : Chain(f)[k] = c
    BY <1>3, LinksOf
  <2>1. PICK k \in 1 .. Length(f) : Chain(f)[k] = c
    BY <2>0
  <2>2. Fat(c) = IF k + 1 \in 1 .. Length(f) THEN Chain(f)[k + 1] ELSE 4095
    BY <2>1, FatNext
  <2>3. k + 1 \in 1 .. Length(f) => Chain(f)[k + 1] \in Cluster
    BY DiskOf
  <2>4. Fat(c) \in Cluster \/ Fat(c) = 4095
    BY <2>2, <2>3
  <2> QED  BY <2>4 DEF Cluster
<1> QED  BY <1>1, <1>2, <1>3

-----------------------------------------------------------------------------
(* The table in memory, and what is decoded out of it.                      *)
TableWhole(m) ==
    \A n \in Nat : n < FatTableLength * BytsPerSec =>
        m[FAT1Address + n] = <<FatTableOffset + n \div BytsPerSec, n % BytsPerSec>>

LEMMA TableBytes ==
    ASSUME NEW m, TableWhole(m), NEW n \in Nat, n < FatTableLength * BytsPerSec
    PROVE  TableByte(m, FAT1Address + n) = FatByte(n)
<1>1. m[FAT1Address + n] = <<FatTableOffset + n \div BytsPerSec, n % BytsPerSec>>
  BY DEF TableWhole
<1>2. FatTableLength \in Nat /\ FatTableOffset \in Nat /\ BytsPerSec \in Nat
  BY LayoutAssumption
<1> DEFINE q == n \div BytsPerSec
           r == n % BytsPerSec
<1>3. q \in Nat /\ q < FatTableLength /\ q * BytsPerSec + r = n
  BY <1>2, SectorOf
<1>4. m[FAT1Address + n][1] = FatTableOffset + q /\ m[FAT1Address + n][2] = r
  BY <1>1
<1> HIDE DEF q, r
<1>5. /\ FatTableOffset + q \in FatTableOffset .. FatTableOffset + FatTableLength - 1
      /\ (FatTableOffset + q) - FatTableOffset = q
  BY <1>2, <1>3
<1> QED  BY <1>3, <1>4, <1>5 DEF TableByte

LEMMA Decode ==
    ASSUME disk \in Disks, NEW m, TableWhole(m), NEW c \in Nat,
           (c \div 2) * 3 + 2 < FatTableLength * BytsPerSec
    PROVE  fatVec(m, c) = Fat(c)
<1> DEFINE h == c \div 2
           e == Fat(2 * h)
           o == Fat(2 * h + 1)
           b(n) == TableByte(m, FAT1Address + h * 3 + n)
<1>1. h \in Nat /\ (c = 2 * h \/ c = 2 * h + 1) /\ (c % 2 = 1 <=> c = 2 * h + 1)
  OBVIOUS
<1>2. FatTableLength * BytsPerSec \in Nat /\ FAT1Address \in Nat
  BY LayoutAssumption
<1>3. e \in Nat /\ e <= 4095 /\ o \in Nat /\ o <= 4095
  <2>1. 2 * h \in Nat /\ 2 * h + 1 \in Nat
    BY <1>1
  <2> QED  BY <2>1, FatType
<1>4. ASSUME NEW n \in 0 .. 2  PROVE  b(n) = FatByte(h * 3 + n)
  <2>1. h * 3 + n \in Nat /\ h * 3 + n < FatTableLength * BytsPerSec
        /\ FAT1Address + h * 3 + n = FAT1Address + (h * 3 + n)
    BY <1>1, <1>2
  <2> HIDE DEF h
  <2> QED  BY <2>1, TableBytes
<1>5. fatVec(m, c) = IF c % 2 = 1 THEN b(2) * 16 + b(1) \div 16 ELSE (b(1) % 16) * 256 + b(0)
  BY DEF fatVec
<1> HIDE DEF h, b
<1>6. ASSUME NEW n \in 0 .. 2  PROVE  (h * 3 + n) \div 3 = h /\ (h * 3 + n) % 3 = n
  BY <1>1
<1>7. FatByte(h * 3 + 0) = e % 256
  BY <1>6 DEF FatByte
<1>8. FatByte(h * 3 + 1) = e \div 256 + 16 * (o % 16)
  BY <1>6 DEF FatByte
<1>9. FatByte(h * 3 + 2) = o \div 16
  BY <1>6 DEF FatByte
<1>10. b(0) = e % 256 /\ b(1) = e \div 256 + 16 * (o % 16) /\ b(2) = o \div 16
  BY <1>4, <1>7, <1>8, <1>9
<1>11. Fat(c) = IF c = 2 * h + 1 THEN o ELSE e
  BY <1>1
<1> HIDE DEF e, o
<1>12. /\ (o \div 16) * 16 + (e \div 256 + 16 * (o % 16)) \div 16 = o
       /\ ((e \div 256 + 16 * (o % 16)) % 16) * 256 + (e % 256) = e
  <2> DEFINE a == e \div 256
             l == o % 16
             u == o \div 16
  <2>1. a \in 0 .. 15 /\ a * 256 + (e % 256) = e
    BY <1>3
  <2>2. l \in 0 .. 15 /\ u * 16 + l = o
    BY <1>3
  <2> HIDE DEF a, l, u
  <2>3. (a + 16 * l) \div 16 = l /\ (a + 16 * l) % 16 = a
    BY <2>1, <2>2
  <2> QED  BY <2>1, <2>2, <2>3 DEF a, l, u
<1> QED  BY <1>1, <1>5, <1>10, <1>11, <1>12

-----------------------------------------------------------------------------
(* The loader.  What a program is doing: the file it looks for, and where.  *)
Target == TargetStr[stage]
Base == LoadAddress[stage]
Loading == stage \in {"boot", "loader"}

LoaderProgress ==
    /\ disk \in Disks
    /\ DOMAIN mem = 0 .. MemSize - 1
    /\ Loading \/ (stage = "kernel" /\ pc = "entered")
    /\ Loading => pc \in {"root", "find", "fat", "load", "FindError", "LenError"}

(* The code that runs is where it was read, and is below what it reads.     *)
CodeWhole ==
    /\ stage = "boot" => \A a \in BaseOfBoot .. BootBuffer - 1 : mem[a] = <<0, a - BaseOfBoot>>
    /\ stage = "loader" =>
        /\ LoadBin \in Files /\ BaseOfLoader + disk.size[LoadBin] <= BaseOfKernel
        /\ InMemory(LoadBin, BaseOfLoader, disk.size[LoadBin] - 1)
    /\ stage = "kernel" =>
        /\ KernelBin \in Files /\ BaseOfKernel + disk.size[KernelBin] <= BaseOfAPP
        /\ InMemory(KernelBin, BaseOfKernel, disk.size[KernelBin])

(* The entry that was found is the target's. *)
EntryFound ==
    Loading /\ pc \in {"fat", "load", "LenError"} =>
        /\ Target \in Files
        /\ dir.FstClus = Chain(Target)[1] /\ dir.FileSize = disk.size[Target]

Failed ==
    Loading =>
        /\ pc = "FindError" => Target \notin Files
        /\ pc = "LenError" => TooLong

(* k clusters have been loaded, one behind the other, and dx is the next.   *)
SoFar(k) ==
    /\ es + si = Base + k * BytsPerSec
    /\ dx = IF k + 1 \in 1 .. Length(Target) THEN Chain(Target)[k + 1] ELSE 4095
    /\ \A n \in Nat :
        n < k * BytsPerSec /\ Base + n < MemSize => mem[Base + n] = FileByte(Target, n)

FileSoFar ==
    Loading /\ pc = "load" =>
        /\ TableWhole(mem)
        /\ es \in Nat /\ si \in Nat /\ si < Segment /\ \E r \in Nat : si = r * BytsPerSec
        /\ \E k \in 0 .. Length(Target) : SoFar(k)

LInv == LoaderProgress /\ CodeWhole /\ EntryFound /\ Failed /\ FileSoFar

(* Areas. *)
LEMMA Areas ==
    /\ {BaseOfBoot, BootBuffer, FAT1Address, BaseOfLoader, BaseOfKernel, BaseOfAPP, MemSize,
        RootEntryOffset, RootEntryLength, FatTableOffset, FatTableLength, ClusterOffset,
        BytsPerSec, Segment, FatTableLength * BytsPerSec} \subseteq Nat
    /\ BytsPerSec > 0 /\ BaseOfBoot <= BootBuffer /\ BootBuffer <= BaseOfBoot + BytsPerSec
    /\ BootBuffer <= FAT1Address
    /\ FAT1Address + FatTableLength * BytsPerSec <= BaseOfLoader
    /\ BaseOfLoader <= BaseOfKernel /\ BaseOfKernel <= BaseOfAPP /\ BaseOfAPP <= MemSize
<1>1. FatTableLength * BytsPerSec \in Nat
  BY LayoutAssumption
<1> QED  BY <1>1, LayoutAssumption

(* Reading behind the code of the program leaves it whole. *)
CodeEnd == IF stage = "boot" THEN BootBuffer ELSE BaseOfLoader + disk.size[LoadBin] - 1

LEMMA CodeStays ==
    ASSUME LoaderProgress, CodeWhole, Loading,
           NEW ax \in Nat, NEW cx \in Nat, NEW bx \in Nat,
           bx >= CodeEnd \/ (stage = "loader" /\ bx + cx * BytsPerSec <= BaseOfLoader),
           mem' = readSector(mem, ax, cx, bx), UNCHANGED <<stage, disk>>
    PROVE  CodeWhole' /\ DOMAIN mem' = 0 .. MemSize - 1
<1>1. /\ DOMAIN mem' = DOMAIN mem /\ DOMAIN mem = 0 .. MemSize - 1
      /\ \A a \in 0 .. MemSize - 1 : ~(a >= bx /\ a < bx + cx * BytsPerSec) => mem'[a] = mem[a]
  <2>1. \A a \in 0 .. MemSize - 1 : a \in Nat
    OBVIOUS
  <2>2. IsRead(mem', mem, ax, cx, bx)
    BY ReadBytes
  <2> QED  BY <2>1, <2>2 DEF IsRead, LoaderProgress
<1>2. cx * BytsPerSec \in Nat
  BY Areas
<1>3. CASE stage = "boot"
  <2>1. \A a \in BaseOfBoot .. BootBuffer - 1 : a \in 0 .. MemSize - 1 /\ a < BootBuffer
    BY Areas
  <2>2. bx >= BootBuffer
    BY <1>3 DEF CodeEnd
  <2>3. ASSUME NEW a \in BaseOfBoot .. BootBuffer - 1  PROVE  mem'[a] = mem[a]
    <3>1. a \in 0 .. MemSize - 1 /\ a < BootBuffer /\ BootBuffer \in Nat /\ MemSize \in Nat
      BY <2>1, Areas
    <3>2. ~(a >= bx)
      BY <2>2, <3>1
    <3> QED  BY <1>1, <3>1, <3>2
  <2> QED  BY <1>1, <1>3, <2>3 DEF CodeWhole
<1>4. CASE stage = "loader"
  <2>1. /\ LoadBin \in Files /\ BaseOfLoader + disk.size[LoadBin] <= BaseOfKernel
        /\ InMemory(LoadBin, BaseOfLoader, disk.size[LoadBin] - 1)
        /\ disk.size[LoadBin] \in Nat
    BY <1>4, DiskOf DEF CodeWhole, LoaderProgress
  <2>2. ASSUME NEW n \in 0 .. disk.size[LoadBin] - 1 - 1
        PROVE  mem'[BaseOfLoader + n] = mem[BaseOfLoader + n]
    <3>1. BaseOfLoader + n \in 0 .. MemSize - 1
      BY <2>1, Areas
    <3>2. bx >= BaseOfLoader + disk.size[LoadBin] - 1 \/ bx + cx * BytsPerSec <= BaseOfLoader
      BY <1>4 DEF CodeEnd
    <3>3. ~(BaseOfLoader + n >= bx /\ BaseOfLoader + n < bx + cx * BytsPerSec)
      BY <1>2, <2>1, <3>2, Areas
    <3> QED  BY <1>1, <3>1, <3>3
  <2>3. InMemory(LoadBin, BaseOfLoader, disk.size[LoadBin] - 1)'
    BY <2>1, <2>2 DEF InMemory, FileByte
  <2> QED  BY <1>1, <1>4, <2>1, <2>3 DEF CodeWhole, Files
<1> QED  BY <1>3, <1>4 DEF Loading

LEMMA BufferOf ==
    ASSUME LoaderProgress, CodeWhole, Loading
    PROVE  /\ Buffer = CodeEnd /\ Buffer \in Nat /\ CodeEnd <= Base
           /\ Base \in Nat /\ Base >= BaseOfLoader
<1>1. CASE stage = "boot"
  BY <1>1, Areas DEF Buffer, CodeEnd, Base, LoadAddress
<1>2. CASE stage = "loader"
  <2>1. /\ LoadBin \in Files /\ BaseOfLoader + disk.size[LoadBin] <= BaseOfKernel
        /\ disk.size[LoadBin] \in Nat \ {0}
    BY <1>2, DiskOf DEF CodeWhole, LoaderProgress
  <2>2. Base = BaseOfKernel /\ CodeEnd = BaseOfLoader + disk.size[LoadBin] - 1 /\ Buffer = CodeEnd
    BY <1>2 DEF Buffer, CodeEnd, Base, LoadAddress
  <2>3. BaseOfLoader \in Nat /\ BaseOfKernel \in Nat /\ BaseOfLoader <= BaseOfKernel
    BY Areas
  <2> QED  BY <2>1, <2>2, <2>3
<1> QED  BY <1>1, <1>2 DEF Loading

-----------------------------------------------------------------------------
LEMMA ReadRootKeeps == LInv /\ ReadRoot => LInv'
<1> SUFFICES ASSUME LInv, ReadRoot  PROVE  LInv'
  OBVIOUS
<1>1. LoaderProgress /\ CodeWhole /\ Loading /\ pc' = "find" /\ UNCHANGED <<stage, disk>>
  BY DEF LInv, ReadRoot, LoaderProgress, Loading
<1>2. mem' = readSector(mem, RootEntryOffset, RootEntryLength, Buffer)
  BY DEF ReadRoot
<1>3. CodeWhole' /\ DOMAIN mem' = 0 .. MemSize - 1
  <2>1. RootEntryOffset \in Nat /\ RootEntryLength \in Nat
    BY Areas
  <2>2. Buffer \in Nat /\ Buffer >= CodeEnd
    BY <1>1, BufferOf
  <2> QED  BY <1>1, <1>2, <2>1, <2>2, CodeStays
<1> QED  BY <1>1, <1>3 DEF LInv, LoaderProgress, Loading, EntryFound, Failed, FileSoFar

LEMMA FindKeeps == LInv /\ (findEntry \/ NotFound) => LInv'
<1> SUFFICES ASSUME LInv, findEntry \/ NotFound  PROVE  LInv'
  OBVIOUS
<1>1. /\ LoaderProgress /\ CodeWhole /\ Loading /\ disk \in Disks
      /\ UNCHANGED <<stage, disk, mem>>
      /\ pc' \in {"fat", "FindError"}
  BY DEF LInv, findEntry, NotFound, LoaderProgress, Loading
<1>2. LoaderProgress' /\ CodeWhole'
  BY <1>1 DEF LoaderProgress, Loading, CodeWhole, InMemory, FileByte, Files
<1>3. Target \in {LoadBin, KernelBin} /\ Target' = Target /\ Files' = Files
  BY <1>1 DEF Target, TargetStr, Loading, Files
<1>4. /\ Len(disk.root) \in Nat
      /\ \A f \in Files : \E n \in 2 .. Len(disk.root) : disk.root[n].name = f
  BY <1>1, DisksAssumption DEF Files
<1>8. ASSUME NEW n \in 2 .. Len(disk.root), disk.root[n].name \in {LoadBin, KernelBin}
      PROVE  LET f == disk.root[n].name
             IN  /\ f \in Files
                 /\ disk.root[n].FstClus = disk.chain[f][1] /\ disk.root[n].FileSize = disk.size[f]
  BY <1>1, <1>8, DisksAssumption DEF Files
<1>5. EntryFound'
  <2> SUFFICES ASSUME pc' = "fat"
               PROVE  /\ Target \in Files
                      /\ dir'.FstClus = Chain(Target)[1] /\ dir'.FileSize = disk.size[Target]
    BY <1>1, <1>3 DEF EntryFound, Chain
  <2>1. Matching # {} /\ dir' = disk.root[CHOOSE n \in Matching : \A j \in Matching : n <= j]
    BY DEF findEntry, NotFound
  <2>2. Matching \in SUBSET Nat
    BY <1>4 DEF Matching
  <2>3. \E n \in Matching : \A j \in Matching : n <= j
    BY <2>1, <2>2, LeastNat
  <2>4. PICK n \in Matching : dir' = disk.root[n]
    BY <2>1, <2>3
  <2>5. n \in 2 .. Len(disk.root) /\ disk.root[n].name = Target
    BY <2>4 DEF Matching, Target
  <2> QED  BY <1>3, <1>8, <2>4, <2>5 DEF Chain
<1>6. Failed'
  <2> SUFFICES ASSUME pc' = "FindError", Target \in Files  PROVE  FALSE
    BY <1>1, <1>3 DEF Failed
  <2>1. Matching = {}
    BY DEF findEntry, NotFound
  <2>2. PICK n \in 2 .. Len(disk.root) : disk.root[n].name = Target
    BY <1>4
  <2> QED  BY <2>1, <2>2 DEF Matching, Target
<1>7. FileSoFar'
  BY <1>1 DEF FileSoFar
<1> QED  BY <1>2, <1>5, <1>6, <1>7 DEF LInv

LEMMA ReadFatKeeps == LInv /\ ReadFat => LInv'
<1> SUFFICES ASSUME LInv, ReadFat  PROVE  LInv'
  OBVIOUS
<1>1. /\ LoaderProgress /\ CodeWhole /\ Loading /\ disk \in Disks /\ pc' = "load"
      /\ UNCHANGED <<stage, disk, dir>>
      /\ mem' = readSector(mem, FatTableOffset, FatTableLength, FAT1Address)
      /\ es' = Base /\ si' = 0 /\ dx' = dir.FstClus
  BY DEF LInv, ReadFat, LoaderProgress, Loading, Base
<1>2. CodeWhole' /\ DOMAIN mem' = 0 .. MemSize - 1
  <2>1. /\ FatTableOffset \in Nat /\ FatTableLength \in Nat /\ FAT1Address \in Nat
        /\ FAT1Address >= BootBuffer
        /\ FAT1Address + FatTableLength * BytsPerSec <= BaseOfLoader
    BY Areas
  <2>2. FAT1Address >= CodeEnd \/ stage = "loader"
    BY <1>1, <2>1 DEF CodeEnd, Loading
  <2> QED  BY <1>1, <2>1, <2>2, CodeStays
<1>3. LoaderProgress' /\ Failed'
  BY <1>1, <1>2 DEF LoaderProgress, Loading, Failed
<1>4. /\ Target' = Target /\ Files' = Files /\ Base' = Base /\ Loading'
      /\ Chain(Target)' = Chain(Target) /\ Length(Target)' = Length(Target)
  BY <1>1 DEF Target, Files, Base, Loading, Chain, Length
<1>5. Target \in Files /\ dir.FstClus = Chain(Target)[1] /\ dir.FileSize = disk.size[Target]
  BY <1>1 DEF LInv, EntryFound, ReadFat
<1>6. EntryFound'
  BY <1>1, <1>4, <1>5 DEF EntryFound, Chain
<1>7. TableWhole(mem')
  <2>1. ASSUME NEW n \in Nat, n < FatTableLength * BytsPerSec
        PROVE  mem'[FAT1Address + n] = <<FatTableOffset + n \div BytsPerSec, n % BytsPerSec>>
    <3>1. FAT1Address + n \in 0 .. MemSize - 1
      BY <2>1, Areas
    <3>2. FatTableOffset \in Nat /\ FatTableLength \in Nat /\ FAT1Address \in Nat
      BY Areas
    <3>3. IsRead(mem', mem, FatTableOffset, FatTableLength, FAT1Address)
      BY <1>1, <3>2, ReadBytes
    <3> QED  BY <1>1, <2>1, <3>1, <3>3 DEF IsRead, LoaderProgress
  <2> QED  BY <2>1 DEF TableWhole
<1>8. Base \in Nat /\ 0 * BytsPerSec = 0 /\ Segment > 0
  BY <1>1, BufferOf, LayoutAssumption
<1>9. Length(Target) \in Nat \ {0}
  BY <1>1, <1>5, DiskOf
<1>10. SoFar(0)'
  <2>1. es' + si' = Base + 0 * BytsPerSec
    BY <1>1, <1>8
  <2>2. dx' = IF 0 + 1 \in 1 .. Length(Target) THEN Chain(Target)[0 + 1] ELSE 4095
    BY <1>1, <1>5, <1>9
  <2>3. \A n \in Nat : ~(n < 0 * BytsPerSec)
    BY <1>8
  <2> QED  BY <1>4, <2>1, <2>2, <2>3 DEF SoFar
<1>11. FileSoFar'
  <2>1. es' \in Nat /\ si' \in Nat /\ si' < Segment /\ si' = 0 * BytsPerSec
    BY <1>1, <1>8
  <2>2. 0 \in 0 .. Length(Target)'
    BY <1>4, <1>9
  <2> QED  BY <1>7, <1>10, <2>1, <2>2 DEF FileSoFar
<1> QED  BY <1>2, <1>3, <1>6, <1>11 DEF LInv

-----------------------------------------------------------------------------
(* si wraps exactly when a segment is full; then es moves on.               *)
LEMMA NextSector ==
    ASSUME NEW e \in Nat, NEW s \in Nat, s < Segment, NEW r \in Nat, s = r * BytsPerSec
    PROVE  LET s2 == (s + BytsPerSec) % Segment
               e2 == IF s2 = 0 THEN e + Segment ELSE e
           IN  /\ e2 \in Nat /\ s2 \in Nat /\ s2 < Segment
               /\ e2 + s2 = e + s + BytsPerSec
               /\ \E x \in Nat : s2 = x * BytsPerSec
<1> DEFINE q == Segment \div BytsPerSec
<1>1. Segment \in Nat /\ Segment > 0 /\ BytsPerSec \in Nat /\ BytsPerSec > 0
  BY LayoutAssumption
<1>2. q \in Nat /\ q * BytsPerSec = Segment
  <2>1. Segment % BytsPerSec = 0
    BY LayoutAssumption
  <2>2. q \in Nat /\ q * BytsPerSec + (Segment % BytsPerSec) = Segment
    BY <1>1, SectorOf
  <2> HIDE DEF q
  <2>3. q * BytsPerSec \in Nat
    BY <1>1, <2>2
  <2> QED  BY <2>1, <2>2, <2>3
<1> HIDE DEF q
<1>3. r < q
  <2>1. r * BytsPerSec < q * BytsPerSec
    BY <1>2
  <2>2. (r * BytsPerSec) \div BytsPerSec = r
    <3>1. 0 \in 0 .. BytsPerSec - 1 /\ r * BytsPerSec + 0 = r * BytsPerSec
      BY <1>1
    <3> QED  BY <3>1, SectorNumbers
  <2> QED  BY <1>2, <2>1, <2>2, SectorOf
<1>4. (r + 1) * BytsPerSec = s + BytsPerSec /\ s + BytsPerSec <= Segment
  <2>1. (r + 1) * BytsPerSec = r * BytsPerSec + BytsPerSec
    BY <1>1, <1>3, SMT
  <2>2. r + 1 <= q
    BY <1>2, <1>3
  <2>3. (r + 1) * BytsPerSec <= q * BytsPerSec
    <3>1. q - (r + 1) \in Nat /\ q = (r + 1) + (q - (r + 1))
      BY <1>2, <2>2
    <3>2. (q - (r + 1)) * BytsPerSec \in Nat /\ (r + 1) * BytsPerSec \in Nat
      BY <1>1, <3>1, SMT
    <3>3. q * BytsPerSec = (r + 1) * BytsPerSec + (q - (r + 1)) * BytsPerSec
      BY <1>1, <1>2, <3>1, SMT
    <3> QED  BY <3>2, <3>3
  <2> QED  BY <1>2, <2>1, <2>3
<1>5. CASE s + BytsPerSec = Segment
  <2>1. (s + BytsPerSec) % Segment = 0
    BY <1>1, <1>5
  <2>2. 0 = 0 * BytsPerSec
    BY <1>1
  <2> QED  BY <1>1, <1>5, <2>1, <2>2
<1>6. CASE s + BytsPerSec # Segment
  <2>1. s + BytsPerSec < Segment
    BY <1>1, <1>4, <1>6
  <2>2. (s + BytsPerSec) % Segment = s + BytsPerSec /\ s + BytsPerSec # 0
    BY <1>1, <2>1
  <2>3. r + 1 \in Nat
    OBVIOUS
  <2>4. \E x \in Nat : s + BytsPerSec = x * BytsPerSec
    BY <1>4, <2>3
  <2>5. s + BytsPerSec \in Nat /\ e + (s + BytsPerSec) = e + s + BytsPerSec
    BY <1>1
  <2> QED  BY <2>1, <2>2, <2>4, <2>5
<1> QED  BY <1>5, <1>6

LEMMA SectorKeeps == LInv /\ loadSector => LInv'
<1> SUFFICES ASSUME LInv, loadSector  PROVE  LInv'
  OBVIOUS
<1>1. /\ LoaderProgress /\ CodeWhole /\ Loading /\ disk \in Disks /\ pc = "load" /\ dx < 4087
      /\ UNCHANGED <<stage, pc, disk, dir>>
      /\ mem' = readSector(mem, dx + ClusterOffset, 1, es + si)
      /\ dx' = fatVec(mem', dx)
      /\ si' = (si + BytsPerSec) % Segment
      /\ es' = IF si' = 0 THEN es + Segment ELSE es
  BY DEF LInv, loadSector, LoaderProgress, Loading
<1>2. /\ TableWhole(mem)
      /\ es \in Nat /\ si \in Nat /\ si < Segment /\ \E r \in Nat : si = r * BytsPerSec
      /\ \E k \in 0 .. Length(Target) : SoFar(k)
  BY <1>1 DEF LInv, FileSoFar
<1>3. PICK k \in 0 .. Length(Target) : SoFar(k)
  BY <1>2
<1>4. /\ Target' = Target /\ Files' = Files /\ Base' = Base /\ Loading'
      /\ Chain(Target)' = Chain(Target) /\ Length(Target)' = Length(Target)
      /\ \A n : FileByte(Target, n)' = FileByte(Target, n)
  BY <1>1 DEF Target, Files, Base, Loading, Chain, Length, FileByte
<1>5. Target \in Files /\ Length(Target) \in Nat \ {0}
  <2>1. Target \in Files
    BY <1>1 DEF LInv, EntryFound
  <2> QED  BY <1>1, <2>1, DiskOf
<1>6. k + 1 \in 1 .. Length(Target) /\ dx = Chain(Target)[k + 1]
  BY <1>1, <1>3 DEF SoFar
<1>7. dx \in Nat /\ (dx \div 2) * 3 + 2 < FatTableLength * BytsPerSec
  <2>1. dx \in Cluster /\ (dx \div 2) * 3 + 2 < FatTableLength * BytsPerSec
    BY <1>1, <1>5, <1>6, DiskOf
  <2> QED  BY <2>1 DEF Cluster
<1>8. Base \in Nat /\ Base >= BaseOfLoader /\ CodeEnd <= Base
  BY <1>1, BufferOf
<1>9. k \in Nat /\ k * BytsPerSec \in Nat /\ (k + 1) * BytsPerSec = k * BytsPerSec + BytsPerSec
      /\ 1 * BytsPerSec = BytsPerSec /\ BytsPerSec \in Nat
  <2>1. k \in Nat
    BY <1>5
  <2>2. 0 \in 0 .. BytsPerSec - 1 /\ BytsPerSec \in Nat
    BY Areas
  <2> QED  BY <2>1, <2>2, SectorNumbers
<1>10. es + si = Base + k * BytsPerSec /\ es + si \in Nat /\ es + si >= Base
  BY <1>3, <1>8, <1>9 DEF SoFar
<1>11. dx + ClusterOffset \in Nat /\ 1 \in Nat /\ MemSize \in Nat
  BY <1>7, Areas
<1>12. CodeWhole' /\ DOMAIN mem' = 0 .. MemSize - 1
  <2>1. CodeEnd \in Int /\ es + si >= CodeEnd
    <3>1. CodeEnd \in Int
      BY <1>1, BufferOf
    <3> QED  BY <1>8, <1>10, <3>1
  <2> QED  BY <1>1, <1>10, <1>11, <2>1, CodeStays
<1>13. /\ \A a \in Nat :
            a < MemSize /\ ~(a >= es + si /\ a < es + si + BytsPerSec) => mem'[a] = mem[a]
       /\ \A n \in Nat : n < BytsPerSec /\ es + si + n < MemSize =>
            mem'[es + si + n] = <<dx + ClusterOffset + n \div BytsPerSec, n % BytsPerSec>>
  <2>1. DOMAIN mem = 0 .. MemSize - 1
    BY <1>1 DEF LoaderProgress
  <2>2. \A a \in Nat : a < MemSize => a \in DOMAIN mem
    BY <1>11, <2>1
  <2>3. /\ \A a \in DOMAIN mem : a \in Nat /\ ~(a >= es + si /\ a < es + si + 1 * BytsPerSec) =>
                mem'[a] = mem[a]
        /\ \A n \in Nat : n < 1 * BytsPerSec /\ es + si + n \in DOMAIN mem =>
                mem'[es + si + n] = <<dx + ClusterOffset + n \div BytsPerSec, n % BytsPerSec>>
    <3>1. IsRead(mem', mem, dx + ClusterOffset, 1, es + si)
      BY <1>1, <1>10, <1>11, ReadBytes
    <3> QED  BY <3>1 DEF IsRead
  <2>4. \A n \in Nat : es + si + n \in Nat
    BY <1>10
  <2> QED  BY <1>9, <2>2, <2>3, <2>4
<1>14. TableWhole(mem')
  <2> SUFFICES ASSUME NEW n \in Nat, n < FatTableLength * BytsPerSec
               PROVE  mem'[FAT1Address + n] = mem[FAT1Address + n]
    BY <1>2 DEF TableWhole
  <2>1. FAT1Address + n \in Nat /\ FAT1Address + n < MemSize /\ FAT1Address + n < Base
    BY <1>8, Areas
  <2> QED  BY <1>8, <1>10, <1>13, <2>1
<1>15. dx' = IF k + 2 \in 1 .. Length(Target) THEN Chain(Target)[k + 2] ELSE 4095
  <2>1. dx' = Fat(dx)
    BY <1>1, <1>7, <1>14, Decode
  <2>2. dx' = IF k + 1 + 1 \in 1 .. Length(Target) THEN Chain(Target)[k + 1 + 1] ELSE 4095
    BY <1>1, <1>5, <1>6, <2>1, FatNext
  <2> QED  BY <1>9, <2>2
<1>16. ASSUME NEW n \in Nat, n < (k + 1) * BytsPerSec, Base + n < MemSize
       PROVE  mem'[Base + n] = FileByte(Target, n)
  <2>1. CASE n < k * BytsPerSec
    <3>1. mem[Base + n] = FileByte(Target, n)
      BY <1>3, <1>16, <2>1 DEF SoFar
    <3>2. Base + n \in Nat /\ Base + n < es + si
      BY <1>8, <1>9, <1>10, <2>1
    <3> QED  BY <1>10, <1>13, <1>16, <3>1, <3>2
  <2>2. CASE n >= k * BytsPerSec
    <3> DEFINE o == n - k * BytsPerSec
    <3>1. o \in 0 .. BytsPerSec - 1 /\ o \in Nat /\ o < BytsPerSec /\ n = k * BytsPerSec + o
      BY <1>9, <1>16, <2>2
    <3> HIDE DEF o
    <3>2. es + si + o = Base + n
      BY <1>8, <1>9, <1>10, <3>1
    <3>3. mem'[Base + n] = <<dx + ClusterOffset + o \div BytsPerSec, o % BytsPerSec>>
      BY <1>13, <1>16, <3>1, <3>2
    <3>4. o \div BytsPerSec = 0 /\ o % BytsPerSec = o
      BY <1>9, <3>1
    <3>5. n \div BytsPerSec = k /\ n % BytsPerSec = o
      BY <1>9, <3>1, SectorNumbers
    <3>6. FileByte(Target, n) = <<dx + ClusterOffset, o>>
      BY <1>6, <3>5 DEF FileByte, Chain
    <3> QED  BY <1>11, <3>3, <3>4, <3>6
  <2> QED  BY <1>9, <1>16, <2>1, <2>2
<1>17. SoFar(k + 1)'
  <2>1. es' + si' = es + si + BytsPerSec
    BY <1>1, <1>2, NextSector
  <2>2. es' + si' = Base + (k + 1) * BytsPerSec
    BY <1>8, <1>9, <1>10, <2>1
  <2>3. dx' = IF (k + 1) + 1 \in 1 .. Length(Target) THEN Chain(Target)[(k + 1) + 1] ELSE 4095
    BY <1>9, <1>15
  <2> QED  BY <1>4, <1>16, <2>2, <2>3 DEF SoFar
<1>18. FileSoFar'
  <2>1. es' \in Nat /\ si' \in Nat /\ si' < Segment /\ \E r \in Nat : si' = r * BytsPerSec
    BY <1>1, <1>2, NextSector
  <2>2. k + 1 \in 0 .. Length(Target)'
    BY <1>4, <1>5, <1>6
  <2> QED  BY <1>14, <1>17, <2>1, <2>2 DEF FileSoFar
<1>19. LoaderProgress' /\ EntryFound' /\ Failed'
  BY <1>1, <1>4, <1>12 DEF LInv, LoaderProgress, EntryFound, Failed, Loading, Chain
<1> QED  BY <1>12, <1>18, <1>19 DEF LInv

-----------------------------------------------------------------------------
LEMMA EnterKeeps == LInv /\ Enter => LInv'
<1> SUFFICES ASSUME LInv, Enter  PROVE  LInv'
  OBVIOUS
<1>1. /\ LoaderProgress /\ CodeWhole /\ Loading /\ disk \in Disks /\ pc = "load" /\ dx >= 4087
      /\ UNCHANGED <<disk, mem, dir, es, si, dx>>
  BY DEF LInv, Enter, LoaderProgress, Loading
<1>2. PICK k \in 0 .. Length(Target) : SoFar(k)
  BY <1>1 DEF LInv, FileSoFar
<1>3. Target \in Files /\ dir.FileSize = disk.size[Target]
  BY <1>1 DEF LInv, EntryFound
<1>4. /\ Length(Target) \in Nat \ {0} /\ disk.size[Target] \in Nat \ {0}
      /\ disk.size[Target] <= Length(Target) * BytsPerSec
  BY <1>1, <1>3, DiskOf
<1>5. k = Length(Target)
  <2> SUFFICES ASSUME k # Length(Target)  PROVE  FALSE
    OBVIOUS
  <2>1. k + 1 \in 1 .. Length(Target)
    BY <1>4
  <2>2. dx = Chain(Target)[k + 1] /\ dx \in Cluster
    BY <1>1, <1>2, <1>3, <2>1, DiskOf DEF SoFar
  <2> QED  BY <1>1, <2>2 DEF Cluster
<1>6. Files' = Files /\ \A f, n : FileByte(f, n)' = FileByte(f, n)
  BY <1>1 DEF Files, FileByte
<1>7. Base \in Nat
  BY <1>1, BufferOf
<1>8. CASE TooLong
  <2>1. UNCHANGED stage /\ pc' = "LenError"
    BY <1>8 DEF Enter
  <2>2. LoaderProgress' /\ CodeWhole' /\ FileSoFar'
    BY <1>1, <2>1 DEF LoaderProgress, CodeWhole, FileSoFar, Loading, InMemory, FileByte, Files
  <2>3. EntryFound' /\ Failed'
    BY <1>1, <1>8, <2>1 DEF LInv, EntryFound, Failed, Loading, Target, Files, Chain, TooLong
  <2> QED  BY <2>2, <2>3 DEF LInv
<1>9. CASE ~TooLong
  <2>1. Base + disk.size[Target] <= Limit[stage]
    <3>1. Limit[stage] \in Nat
      BY <1>1, Areas DEF Limit, Loading
    <3> QED  BY <1>3, <1>4, <1>7, <1>9, <3>1 DEF TooLong, Base
  <2>2. Limit[stage] <= MemSize /\ Limit[stage] \in Nat
    BY <1>1, Areas DEF Limit, Loading
  <2>3. \A n \in Nat : n < disk.size[Target] => mem[Base + n] = FileByte(Target, n)
    <3> SUFFICES ASSUME NEW n \in Nat, n < disk.size[Target]
                 PROVE  n < Length(Target) * BytsPerSec /\ Base + n < MemSize
      BY <1>2, <1>5 DEF SoFar
    <3>1. Length(Target) * BytsPerSec \in Nat /\ MemSize \in Nat
      <4>1. BytsPerSec \in Nat /\ MemSize \in Nat
        BY Areas
      <4> QED  BY <1>4, <4>1, SMT
    <3> QED  BY <1>4, <1>7, <2>1, <2>2, <3>1
  <2>4. CASE stage = "boot"
    <3>1. stage' = "loader" /\ pc' = "root" /\ Target = LoadBin /\ Base = BaseOfLoader
          /\ Limit[stage] = BaseOfKernel
      BY <1>9, <2>4 DEF Enter, Target, TargetStr, Base, LoadAddress, Limit
    <3>2. InMemory(LoadBin, BaseOfLoader, disk.size[LoadBin] - 1)'
      <4>1. ASSUME NEW n \in 0 .. disk.size[LoadBin] - 1 - 1
            PROVE  mem[BaseOfLoader + n] = FileByte(LoadBin, n)
        <5>1. n \in Nat /\ n < disk.size[Target]
          BY <1>4, <3>1
        <5> QED  BY <2>3, <3>1, <5>1
      <4> QED  BY <1>1, <1>6, <4>1 DEF InMemory
    <3>3. CodeWhole'
      BY <1>1, <1>3, <1>6, <2>1, <3>1, <3>2 DEF CodeWhole
    <3>4. LoaderProgress' /\ EntryFound' /\ Failed' /\ FileSoFar'
      BY <1>1, <3>1 DEF LoaderProgress, Loading, EntryFound, Failed, FileSoFar
    <3> QED  BY <3>3, <3>4 DEF LInv
  <2>5. CASE stage = "loader"
    <3>1. stage' = "kernel" /\ pc' = "entered" /\ Target = KernelBin /\ Base = BaseOfKernel
          /\ Limit[stage] = BaseOfAPP
      BY <1>9, <2>5 DEF Enter, Target, TargetStr, Base, LoadAddress, Limit
    <3>2. InMemory(KernelBin, BaseOfKernel, disk.size[KernelBin])'
      <4>1. ASSUME NEW n \in 0 .. disk.size[KernelBin] - 1
            PROVE  mem[BaseOfKernel + n] = FileByte(KernelBin, n)
        <5>1. n \in Nat /\ n < disk.size[Target]
          BY <1>4, <3>1
        <5> QED  BY <2>3, <3>1, <5>1
      <4> QED  BY <1>1, <1>6, <4>1 DEF InMemory
    <3>3. CodeWhole'
      BY <1>1, <1>3, <1>6, <2>1, <3>1, <3>2 DEF CodeWhole
    <3>4. LoaderProgress' /\ EntryFound' /\ Failed' /\ FileSoFar'
      BY <1>1, <3>1 DEF LoaderProgress, Loading, EntryFound, Failed, FileSoFar
    <3> QED  BY <3>3, <3>4 DEF LInv
  <2> QED  BY <1>1, <2>4, <2>5 DEF Loading
<1> QED  BY <1>8, <1>9

-----------------------------------------------------------------------------
LEMMA BootStarts == BootInit => LInv
<1> SUFFICES ASSUME BootInit  PROVE  LInv
  OBVIOUS
<1> DEFINE empty == [a \in 0 .. MemSize - 1 |-> <<-1, 0>>]
<1>1. disk \in Disks /\ stage = "boot" /\ pc = "root" /\ mem = readSector(empty, 0, 1, BaseOfBoot)
  BY DEF BootInit
<1>2. DOMAIN empty = 0 .. MemSize - 1
  OBVIOUS
<1> HIDE DEF empty
<1>3. 1 * BytsPerSec = BytsPerSec /\ BytsPerSec \in Nat /\ BaseOfBoot \in Nat
  BY Areas
<1>4. /\ DOMAIN mem = DOMAIN empty
      /\ \A n \in Nat : n < 1 * BytsPerSec /\ BaseOfBoot + n \in DOMAIN empty =>
            mem[BaseOfBoot + n] = <<0 + n \div BytsPerSec, n % BytsPerSec>>
  <2>1. 0 \in Nat /\ 1 \in Nat
    OBVIOUS
  <2>2. IsRead(mem, empty, 0, 1, BaseOfBoot)
    BY <1>1, <1>3, <2>1, ReadBytes
  <2> QED  BY <2>2 DEF IsRead
<1>5. ASSUME NEW a \in BaseOfBoot .. BootBuffer - 1
      PROVE  mem[a] = <<0, a - BaseOfBoot>>
  <2> DEFINE n == a - BaseOfBoot
  <2>1. /\ n \in Nat /\ n < 1 * BytsPerSec /\ BaseOfBoot + n = a
        /\ BaseOfBoot + n \in 0 .. MemSize - 1
    BY <1>3, Areas
  <2> HIDE DEF n
  <2>2. mem[BaseOfBoot + n] = <<0 + n \div BytsPerSec, n % BytsPerSec>>
    BY <1>2, <1>4, <2>1
  <2>3. n \div BytsPerSec = 0 /\ n % BytsPerSec = n
    BY <1>3, <2>1
  <2> QED  BY <2>1, <2>2, <2>3 DEF n
<1>6. CodeWhole
  BY <1>1, <1>5 DEF CodeWhole
<1> QED  BY <1>1, <1>2, <1>4, <1>6 DEF LInv, LoaderProgress, Loading, EntryFound, Failed, FileSoFar

LEMMA BootSteps == LInv /\ [BootNext]_bootVars => LInv'
<1>1. LInv /\ UNCHANGED bootVars => LInv'
  BY DEF LInv, LoaderProgress, CodeWhole, EntryFound, Failed, FileSoFar, SoFar, TableWhole, TooLong,
         Loading, Target, Base, Files, Chain, Length, InMemory, FileByte, bootVars
<1> QED  BY <1>1, ReadRootKeeps, FindKeeps, ReadFatKeeps, SectorKeeps, EnterKeeps DEF BootNext

LEMMA WholeByInv == LInv => LoadedWhole
<1> SUFFICES ASSUME LInv  PROVE  LoadedWhole
  OBVIOUS
<1>1. pc = "FindError" => TargetStr[stage] \notin DOMAIN disk.chain
  BY DEF LInv, LoaderProgress, Failed, Loading, Target, Files
<1>2. pc = "LenError" => LoadAddress[stage] + disk.size[TargetStr[stage]] > Limit[stage]
  BY DEF LInv, LoaderProgress, Failed, EntryFound, Loading, Target, TooLong
<1> QED  BY <1>1, <1>2 DEF LInv, CodeWhole, LoadedWhole

(* What is loaded is whole: neither directory nor table nor file is read    *)
(* over the code that runs, each program that is entered is the whole file  *)
(* and fits, and loading fails only if there is no such file or it is too   *)
(* long, for every disk and every layout of the areas.                      *)
THEOREM ProgramsAreWhole == StartSpec => []LoadedWhole
<1>1. StartInit => LInv
  BY BootStarts DEF StartInit
<1>2. LInv /\ [StartNext]_<<bootVars, mapVars>> => LInv'
  <2>1. [StartNext]_<<bootVars, mapVars>> => [BootNext]_bootVars
    BY DEF StartNext
  <2> QED  BY <2>1, BootSteps
<1> QED  BY <1>1, <1>2, WholeByInv, PTL DEF StartSpec

-----------------------------------------------------------------------------
(* The division of memory.  A zone as it is given to a list: the first one  *)
(* without the part of the programs.                                        *)
Place(z) == IF z.base = 0 THEN Zone(BaseOfAPP, z.len - BaseOfAPP) ELSE Zone(z.base, z.len)

(* What the BIOS tells of a zone, and what a list is given. *)
BiosZone == [base : Nat, len : Nat \ {0}, type : Nat]
GivenZone == [base : Nat, len : Nat]

(* The zones that have been given away. *)
Given == {k \in 1 .. i : bios[k].type # ZONE_RESERVED}

(* How far the start is. *)
MapProgress ==
    /\ phase \in {"e820", "InitGlobal", "zones", "divided"}
    /\ bios # <<>> => bios \in Maps
    /\ ards \in Seq(BiosZone)
    /\ Len(ards) = told /\ told <= Len(bios)
    /\ \A k \in 1 .. told : ards[k] = bios[k]
    /\ phase # "e820" => bios # <<>> /\ told = Len(bios)
    /\ phase \in {"e820", "InitGlobal"} => i = 0
    /\ phase \in {"zones", "divided"} => gMemInfo = bios /\ i \in 0 .. Len(bios)
    /\ phase = "divided" => i = Len(bios)

(* What the lists and the page frames have are zones given away ...         *)
FromZones ==
    /\ gVMemList \in Seq(GivenZone) /\ gFMemList \in Seq(GivenZone)
    /\ page \in GivenZone
    /\ \A n \in DOMAIN gVMemList : \E k \in Given : gVMemList[n] = Place(bios[k])
    /\ \A n \in DOMAIN gFMemList : \E k \in Given : gFMemList[n] = Place(bios[k])
    /\ page.len # 0 => \E k \in Given : page = Place(bios[k])

(* ... every one of them ... *)
AllGiven ==
    \A k \in Given :
        \/ \E n \in DOMAIN gVMemList : gVMemList[n] = Place(bios[k])
        \/ \E n \in DOMAIN gFMemList : gFMemList[n] = Place(bios[k])
        \/ page = Place(bios[k])

(* ... once. *)
GivenOnce ==
    /\ \A m, n \in DOMAIN gVMemList : gVMemList[m] = gVMemList[n] => m = n
    /\ \A m, n \in DOMAIN gFMemList : gFMemList[m] = gFMemList[n] => m = n
    /\ \A m \in DOMAIN gVMemList, n \in DOMAIN gFMemList : gVMemList[m] # gFMemList[n]
    /\ \A m \in DOMAIN gVMemList : gVMemList[m] # page
    /\ \A n \in DOMAIN gFMemList : gFMemList[n] # page

(* The page frames are the largest zone so far; only they can be replaced.  *)
LargestIsPage ==
    /\ \A n \in DOMAIN gFMemList : gFMemList[n].len <= page.len
    /\ \A n \in 2 .. Len(gVMemList) : gVMemList[n].len < page.len
    /\ i = 0 => gVMemList = <<>> /\ gFMemList = <<>>

(* So many have been given away; the first alone does not go to the page    *)
(* frames. *)
Counted ==
    /\ IsFiniteSet(Given)
    /\ Len(gVMemList) + Len(gFMemList) + (IF page.len # 0 THEN 1 ELSE 0) = Cardinality(Given)
    /\ page.len = 0 => Given \subseteq {1}

DInv == MapProgress /\ FromZones /\ AllGiven /\ GivenOnce /\ LargestIsPage /\ Counted

-----------------------------------------------------------------------------
LEMMA Element ==
    ASSUME NEW S, NEW s \in Seq(S)
    PROVE  /\ Len(s) \in Nat /\ DOMAIN s = 1 .. Len(s)
           /\ \A n \in DOMAIN s : s[n] \in S
           /\ \A x \in S :
                /\ Append(s, x) \in Seq(S)
                /\ Len(Append(s, x)) = Len(s) + 1
                /\ DOMAIN Append(s, x) = 1 .. Len(s) + 1
                /\ Append(s, x)[Len(s) + 1] = x
                /\ \A n \in DOMAIN s : Append(s, x)[n] = s[n]
  OBVIOUS

LEMMA GivenFields ==
    /\ \A p \in GivenZone : p.base \in Nat /\ p.len \in Nat
    /\ \A base, len \in Nat : Zone(base, len) \in GivenZone
BY DEF GivenZone, Zone

(* The zones of a map lie apart, and so do the places they are given as.    *)
LEMMA ZonesOf ==
    ASSUME bios \in Maps
    PROVE  /\ bios \in Seq(BiosZone)
           /\ DOMAIN bios = 1 .. Len(bios) /\ Len(bios) \in Nat \ {0}
           /\ bios[1].base = 0 /\ bios[1].len > BaseOfAPP
           /\ \A k \in 1 .. Len(bios) : bios[k].base \in Nat /\ bios[k].len \in Nat \ {0}
           /\ \A j, k \in 1 .. Len(bios) : j < k => bios[j].base + bios[j].len <= bios[k].base
           /\ Cardinality({k \in 1 .. Len(bios) : bios[k].type # ZONE_RESERVED})
                 <= MEM_LIST_NUM + 1
           /\ \A k \in 1 .. Len(bios) :
                bios[k].type # ZONE_RESERVED =>
                    bios[k].base < WordRange /\ bios[k].len < WordRange
<1>1. /\ bios \in Seq(BiosZone)
      /\ Len(bios) \in 1 .. 20 /\ bios[1].base = 0 /\ bios[1].len > BaseOfAPP
      /\ \A j, k \in DOMAIN bios : j < k => bios[j].base + bios[j].len <= bios[k].base
  BY MapsAssumption DEF BiosZone
<1>2. DOMAIN bios = 1 .. Len(bios) /\ \A k \in DOMAIN bios : bios[k] \in BiosZone
  BY <1>1, Element
<1>3. \A z \in BiosZone : z.base \in Nat /\ z.len \in Nat \ {0}
  BY DEF BiosZone
<1>4. \A k \in 1 .. Len(bios) : bios[k].base \in Nat /\ bios[k].len \in Nat \ {0}
  BY <1>2, <1>3
<1>5. Len(bios) \in Nat \ {0}
  BY <1>1
<1>6. \A j, k \in 1 .. Len(bios) : j < k => bios[j].base + bios[j].len <= bios[k].base
  BY <1>1, <1>2
<1> DEFINE given == {k \in DOMAIN bios : bios[k].type # ZONE_RESERVED}
<1>7. /\ Cardinality(given) <= MEM_LIST_NUM + 1
      /\ \A k \in given : bios[k].len < WordRange /\ bios[k].base + bios[k].len <= WordRange
  BY MapsAssumption
<1>8. WordRange \in Nat
  BY MapsAssumption
<1>9. \A k \in 1 .. Len(bios) :
        bios[k].type # ZONE_RESERVED => bios[k].base < WordRange /\ bios[k].len < WordRange
  <2> SUFFICES ASSUME NEW k \in 1 .. Len(bios), bios[k].type # ZONE_RESERVED
               PROVE  bios[k].base < WordRange /\ bios[k].len < WordRange
    OBVIOUS
  <2>1. bios[k].len < WordRange /\ bios[k].base + bios[k].len <= WordRange
    BY <1>2, <1>7
  <2> QED  BY <1>4, <1>8, <2>1
<1>10. Cardinality({k \in 1 .. Len(bios) : bios[k].type # ZONE_RESERVED}) <= MEM_LIST_NUM + 1
  BY <1>2, <1>7
<1> QED  BY <1>1, <1>2, <1>4, <1>5, <1>6, <1>9, <1>10

LEMMA PlaceOf ==
    ASSUME bios \in Maps, NEW k \in 1 .. Len(bios)
    PROVE  /\ Place(bios[k]) = IF k = 1 THEN Zone(BaseOfAPP, bios[k].len - BaseOfAPP)
                               ELSE Zone(bios[k].base, bios[k].len)
           /\ bios[k].base = 0 <=> k = 1
           /\ Place(bios[k]) \in GivenZone /\ Place(bios[k]).len > 0
           /\ \A a \in Nat : In(a, Place(bios[k])) <=> a >= BaseOfAPP /\ In(a, bios[k])
<1>1. BaseOfAPP \in Nat
  BY MapsAssumption
<1>2. CASE k = 1
  <2>1. bios[k].base = 0 /\ bios[k].len \in Nat /\ bios[k].len > BaseOfAPP
    BY <1>2, ZonesOf
  <2>2. Place(bios[k]) = Zone(BaseOfAPP, bios[k].len - BaseOfAPP)
    BY <2>1 DEF Place
  <2>3. bios[k].len - BaseOfAPP \in Nat /\ bios[k].len - BaseOfAPP > 0
    BY <1>1, <2>1
  <2> QED  BY <1>1, <1>2, <2>1, <2>2, <2>3, GivenFields DEF Zone, In
<1>3. CASE k # 1
  <2>1. bios[1].base + bios[1].len <= bios[k].base
    BY <1>3, ZonesOf
  <2>2. bios[k].base > BaseOfAPP /\ bios[k].base \in Nat /\ bios[k].len \in Nat \ {0}
    BY <1>1, <2>1, ZonesOf
  <2> QED  BY <1>1, <1>3, <2>2, GivenFields DEF Place, Zone, In
<1> QED  BY <1>2, <1>3

LEMMA PlacesApart ==
    ASSUME bios \in Maps, NEW j \in 1 .. Len(bios), NEW k \in 1 .. Len(bios),
           NEW a \in Nat, In(a, Place(bios[j])), In(a, Place(bios[k]))
    PROVE  j = k
<1>1. In(a, bios[j]) /\ In(a, bios[k])
  BY PlaceOf
<1>2. /\ bios[j].base \in Nat /\ bios[j].len \in Nat /\ bios[k].base \in Nat /\ bios[k].len \in Nat
      /\ j < k => bios[j].base + bios[j].len <= bios[k].base
      /\ k < j => bios[k].base + bios[k].len <= bios[j].base
  BY ZonesOf
<1> QED  BY <1>1, <1>2 DEF In

LEMMA PlacesDiffer ==
    ASSUME bios \in Maps, NEW j \in 1 .. Len(bios), NEW k \in 1 .. Len(bios),
           Place(bios[j]) = Place(bios[k])
    PROVE  j = k
<1>1. Place(bios[j]) \in GivenZone /\ Place(bios[j]).len > 0
  BY PlaceOf
<1>2. Place(bios[j]).base \in Nat /\ In(Place(bios[j]).base, Place(bios[j]))
  BY <1>1, GivenFields DEF In
<1> QED  BY <1>2, PlacesApart

(* A zone that has not been given away is at none of the places.            *)
LEMMA NewPlace ==
    ASSUME bios \in Maps, i \in 0 .. Len(bios) - 1, FromZones
    PROVE  /\ \A n \in DOMAIN gVMemList : gVMemList[n] # Place(bios[i + 1])
           /\ \A n \in DOMAIN gFMemList : gFMemList[n] # Place(bios[i + 1])
           /\ page # Place(bios[i + 1])
<1>1. i + 1 \in 1 .. Len(bios) /\ \A k \in Given : k \in 1 .. Len(bios) /\ k # i + 1
  BY ZonesOf DEF Given
<1>2. \A k \in Given : Place(bios[k]) # Place(bios[i + 1])
  BY <1>1, PlacesDiffer
<1>3. Place(bios[i + 1]).len > 0
  BY <1>1, PlaceOf
<1> QED  BY <1>2, <1>3 DEF FromZones

-----------------------------------------------------------------------------
LEMMA MapInitially == MapInit => DInv
<1> SUFFICES ASSUME MapInit  PROVE  DInv
  OBVIOUS
<1>1. Given = {}
  BY DEF MapInit, Given
<1>2. MapProgress
  BY DEF MapInit, MapProgress
<1>3. FromZones
  BY GivenFields DEF MapInit, FromZones, Zone
<1>4. AllGiven /\ GivenOnce /\ LargestIsPage
  BY <1>1 DEF MapInit, AllGiven, GivenOnce, LargestIsPage
<1>5. Counted
  BY <1>1, FS_EmptySet DEF MapInit, Counted, Zone
<1> QED  BY <1>2, <1>3, <1>4, <1>5 DEF DInv

(* The steps before the zones are divided, and the last one, leave the lists *)
(* and the zones alone. *)
LEMMA ProgressKeeps ==
    ASSUME DInv, MapProgress', Given' = Given, \A k \in Given : bios'[k] = bios[k],
           UNCHANGED <<i, gVMemList, gFMemList, page>>
    PROVE  DInv'
<1>1. FromZones'
  BY DEF DInv, FromZones
<1>2. AllGiven'
  BY DEF DInv, AllGiven
<1>3. GivenOnce' /\ LargestIsPage' /\ Counted'
  BY DEF DInv, GivenOnce, LargestIsPage, Counted
<1> QED  BY <1>1, <1>2, <1>3 DEF DInv

(* One step of the loop: the next zone. *)
LEMMA ZoneNext ==
    ASSUME DInv, DivideZone
    PROVE  /\ MapProgress' /\ bios' = bios /\ bios \in Maps
           /\ i' = i + 1 /\ i \in 0 .. Len(bios) - 1 /\ gMemInfo[i + 1] = bios[i + 1]
           /\ i + 1 \in 1 .. Len(bios) /\ Given \subseteq 1 .. Len(bios)
           /\ Given' = IF bios[i + 1].type = ZONE_RESERVED THEN Given ELSE Given \cup {i + 1}
<1>1. /\ phase = "zones" /\ i < Len(gMemInfo) /\ i' = i + 1
      /\ UNCHANGED <<phase, bios, told, ards, gMemInfo>>
  BY DEF DivideZone, NextZone
<1>2. gMemInfo = bios /\ i \in 0 .. Len(bios) /\ bios \in Maps
  BY <1>1 DEF DInv, MapProgress
<1>3. Len(bios) \in Nat \ {0}
  BY <1>2, ZonesOf
<1>4. i \in 0 .. Len(bios) - 1 /\ i' \in 0 .. Len(bios)
  BY <1>1, <1>2, <1>3
<1>5. MapProgress'
  BY <1>1, <1>2, <1>4 DEF DInv, MapProgress
<1>6. 1 .. i' = (1 .. i) \cup {i + 1}
  BY <1>1, <1>4
<1>7. Given' = IF bios[i + 1].type = ZONE_RESERVED THEN Given ELSE Given \cup {i + 1}
  BY <1>1, <1>6 DEF Given
<1> QED  BY <1>1, <1>2, <1>3, <1>4, <1>5, <1>7 DEF Given

(* The low words of a zone that is not reserved are the zone. *)
LEMMA WordsHold ==
    ASSUME DInv, DivideZone
    PROVE  /\ bios[i + 1].type # ZONE_RESERVED => LowWords(gMemInfo[i + 1]) = gMemInfo[i + 1]
           /\ LowWords(gMemInfo[i + 1]).type = bios[i + 1].type
<1> DEFINE z == gMemInfo[i + 1]
<1>1. z \in BiosZone /\ z = bios[i + 1]
  BY ZoneNext, ZonesOf
<1>2. z.type # ZONE_RESERVED => /\ z.base \in Nat /\ z.len \in Nat /\ WordRange \in Nat
                                /\ z.base < WordRange /\ z.len < WordRange
  BY <1>1, ZoneNext, ZonesOf, MapsAssumption
<1>3. z.type # ZONE_RESERVED => z.base % WordRange = z.base /\ z.len % WordRange = z.len
  BY <1>2
<1> HIDE DEF z
<1>4. LowWords(z).type = z.type
  BY <1>1 DEF LowWords, BiosZone
<1>5. z.type # ZONE_RESERVED => LowWords(z) = z
  BY <1>1, <1>3 DEF LowWords, BiosZone
<1>6. z = gMemInfo[i + 1]
  BY DEF z
<1> QED  BY <1>1, <1>4, <1>5, <1>6

(* Of a zone that is given away one more is counted. *)
LEMMA OneMore ==
    ASSUME DInv, DivideZone, bios[i + 1].type # ZONE_RESERVED
    PROVE  /\ IsFiniteSet(Given') /\ Cardinality(Given) \in Nat
           /\ Cardinality(Given') = Cardinality(Given) + 1
<1>1. Given' = Given \cup {i + 1} /\ i + 1 \notin Given
  BY ZoneNext DEF Given
<1>2. IsFiniteSet(Given)
  BY DEF DInv, Counted
<1> QED  BY <1>1, <1>2, FS_AddElement, FS_CardinalityType

LEMMA LowMemoryKeeps ==
    ASSUME DInv, DivideZone, LowMemory(gMemInfo[i + 1])
    PROVE  DInv'
<1> DEFINE z == bios[i + 1]
<1>1. /\ z.base = 0 /\ z.type # ZONE_RESERVED
      /\ gVMemList' = Append(gVMemList, Zone(BaseOfAPP, z.len - BaseOfAPP))
      /\ UNCHANGED <<gFMemList, page>>
  BY ZoneNext DEF LowMemory
<1>2. i + 1 = 1 /\ Place(z) = Zone(BaseOfAPP, z.len - BaseOfAPP)
  BY <1>1, ZoneNext, PlaceOf DEF Place
<1>3. gVMemList = <<>> /\ gFMemList = <<>> /\ Given = {}
  BY <1>2, ZoneNext DEF DInv, LargestIsPage, Given
<1>4. gVMemList' = <<Place(z)>> /\ Given' = {i + 1} /\ Place(z) \in GivenZone
  BY <1>1, <1>2, <1>3, ZoneNext, PlaceOf
<1>5. page # Place(z) /\ page.len = 0
  BY <1>3, NewPlace, ZoneNext DEF DInv, FromZones
<1>6. bios'[i + 1] = z
  BY ZoneNext
<1> HIDE DEF z
<1>7. FromZones'
  BY <1>1, <1>3, <1>4, <1>5, <1>6 DEF DInv, FromZones
<1>8. AllGiven'
  BY <1>4, <1>6 DEF AllGiven
<1>9. GivenOnce' /\ LargestIsPage'
  BY <1>1, <1>2, <1>3, <1>4, <1>5, ZoneNext DEF GivenOnce, LargestIsPage
<1>10. Counted'
  <2>1. Len(gVMemList') = 1 /\ Len(gFMemList') = 0 /\ page'.len = 0 /\ Given' \subseteq {1}
    BY <1>1, <1>2, <1>3, <1>4, <1>5
  <2>2. IsFiniteSet(Given') /\ Cardinality(Given') = 1
    BY <1>4, FS_Singleton
  <2> QED  BY <2>1, <2>2 DEF Counted
<1> QED  BY <1>7, <1>8, <1>9, <1>10, ZoneNext DEF DInv

LEMMA ForUnitsKeeps ==
    ASSUME DInv, DivideZone, ForUnits(gMemInfo[i + 1])
    PROVE  DInv'
<1> DEFINE z == bios[i + 1]
<1>1. /\ z.base # 0 /\ z.type # ZONE_RESERVED /\ ~Larger(z)
      /\ gFMemList' = Append(gFMemList, Zone(z.base, z.len))
      /\ UNCHANGED <<gVMemList, page>>
  BY ZoneNext DEF ForUnits
<1>0. bios[i + 1].type # ZONE_RESERVED
  BY <1>1
<1>2. /\ Place(z) = Zone(z.base, z.len) /\ Place(z) \in GivenZone
      /\ Place(z).len <= page.len /\ page.len # 0
  <2>1. Place(z) = Zone(z.base, z.len) /\ Place(z) \in GivenZone /\ Place(z).len > 0
    BY <1>1, ZoneNext, PlaceOf DEF Place
  <2>2. page.len \in Nat /\ z.len \in Nat
    BY ZoneNext, ZonesOf, GivenFields DEF DInv, FromZones
  <2> QED  BY <1>1, <2>1, <2>2, GivenFields DEF Larger, Zone
<1>3. Given' = Given \cup {i + 1} /\ bios'[i + 1] = z /\ \A k \in Given : bios'[k] = bios[k]
  BY <1>1, ZoneNext
<1>4. /\ gFMemList \in Seq(GivenZone)
      /\ gFMemList' \in Seq(GivenZone)
      /\ DOMAIN gFMemList = 1 .. Len(gFMemList) /\ Len(gFMemList) \in Nat
      /\ DOMAIN gFMemList' = 1 .. Len(gFMemList) + 1
      /\ gFMemList'[Len(gFMemList) + 1] = Place(z)
      /\ \A n \in 1 .. Len(gFMemList) : gFMemList'[n] = gFMemList[n]
  BY <1>1, <1>2 DEF DInv, FromZones
<1>5. /\ \A n \in DOMAIN gVMemList : gVMemList[n] # Place(z)
      /\ \A n \in DOMAIN gFMemList : gFMemList[n] # Place(z)
      /\ page # Place(z)
  BY ZoneNext, NewPlace DEF DInv
<1>6. i' # 0
  BY ZoneNext
<1> HIDE DEF z
<1>7. FromZones'
  BY <1>1, <1>3, <1>4 DEF DInv, FromZones
<1>8. AllGiven'
  BY <1>1, <1>3, <1>4 DEF DInv, AllGiven
<1>9. GivenOnce'
  BY <1>1, <1>4, <1>5 DEF DInv, GivenOnce
<1>10. LargestIsPage'
  BY <1>1, <1>2, <1>4, <1>6 DEF DInv, LargestIsPage
<1>11. Counted'
  <2>1. Len(gFMemList') = Len(gFMemList) + 1 /\ Len(gVMemList) \in Nat
    BY <1>4 DEF DInv, FromZones
  <2>2. /\ IsFiniteSet(Given') /\ Cardinality(Given) \in Nat
        /\ Cardinality(Given') = Cardinality(Given) + 1
    BY <1>0, OneMore
  <2>3. Len(gVMemList) + Len(gFMemList) + 1 = Cardinality(Given)
    BY <1>2 DEF DInv, Counted
  <2> QED  BY <1>1, <1>2, <1>4, <2>1, <2>2, <2>3 DEF Counted
<1> QED  BY <1>7, <1>8, <1>9, <1>10, <1>11, ZoneNext DEF DInv

LEMMA ForPagesKeeps ==
    ASSUME DInv, DivideZone, ForPages(gMemInfo[i + 1])
    PROVE  DInv'
<1> DEFINE z == bios[i + 1]
<1>1. /\ z.base # 0 /\ z.type # ZONE_RESERVED /\ Larger(z)
      /\ gVMemList' = Replaced /\ page' = Zone(z.base, z.len)
      /\ UNCHANGED gFMemList
  BY ZoneNext DEF ForPages
<1>0. /\ IsFiniteSet(Given') /\ Cardinality(Given) \in Nat
      /\ Cardinality(Given') = Cardinality(Given) + 1
  BY <1>1, OneMore
<1>2. /\ page' = Place(z) /\ page' \in GivenZone
      /\ page'.len > page.len /\ page.len \in Nat
  <2>1. Place(z) = Zone(z.base, z.len) /\ Place(z) \in GivenZone
    BY <1>1, ZoneNext, PlaceOf DEF Place
  <2>2. page.len \in Nat /\ z.len \in Nat
    BY ZoneNext, ZonesOf, GivenFields DEF DInv, FromZones
  <2> QED  BY <1>1, <2>1, <2>2, GivenFields DEF Larger, Zone
<1>3. Given' = Given \cup {i + 1} /\ bios'[i + 1] = z /\ \A k \in Given : bios'[k] = bios[k]
  BY <1>1, ZoneNext
<1>4. /\ \A n \in DOMAIN gVMemList : gVMemList[n] # Place(z)
      /\ \A n \in DOMAIN gFMemList : gFMemList[n] # Place(z)
      /\ page # Place(z)
  BY ZoneNext, NewPlace DEF DInv
<1>5. i' # 0
  BY ZoneNext
<1> HIDE DEF z
<1>6. /\ gVMemList \in Seq(GivenZone) /\ page \in GivenZone
      /\ DOMAIN gVMemList = 1 .. Len(gVMemList) /\ Len(gVMemList) \in Nat
      /\ Len(gFMemList) \in Nat
  BY DEF DInv, FromZones
<1>7. CASE page.len = 0
  <2>1. gVMemList' = gVMemList
    BY <1>1, <1>7 DEF Replaced
  <2>2. \A k \in Given : page # Place(bios[k])
    <3>1. \A k \in Given : Place(bios[k]).len > 0
      BY ZoneNext, PlaceOf
    <3> QED  BY <1>7, <3>1
  <2>3. FromZones'
    BY <1>1, <1>2, <1>3, <2>1 DEF DInv, FromZones
  <2>4. AllGiven'
    BY <1>1, <1>2, <1>3, <2>1, <2>2 DEF DInv, AllGiven
  <2>5. GivenOnce'
    BY <1>1, <1>2, <1>4, <2>1 DEF DInv, GivenOnce
  <2>6. LargestIsPage'
    <3>1. \A n \in DOMAIN gFMemList : gFMemList[n].len \in Nat
      BY Element, GivenFields DEF DInv, FromZones
    <3>2. \A n \in 2 .. Len(gVMemList) : gVMemList[n].len \in Nat
      BY <1>6, Element, GivenFields
    <3>3. page'.len \in Nat
      BY <1>2, GivenFields
    <3> QED  BY <1>1, <1>2, <1>5, <2>1, <3>1, <3>2, <3>3 DEF DInv, LargestIsPage
  <2>7. Counted'
    <3>1. Len(gVMemList) + Len(gFMemList) = Cardinality(Given) /\ page'.len # 0
      BY <1>2, <1>6, <1>7 DEF DInv, Counted
    <3> QED  BY <1>0, <1>1, <1>6, <2>1, <3>1 DEF Counted
  <2> QED  BY <2>3, <2>4, <2>5, <2>6, <2>7, ZoneNext DEF DInv
<1>8. CASE page.len # 0
  <2>1. /\ gVMemList' \in Seq(GivenZone)
        /\ DOMAIN gVMemList' = 1 .. Len(gVMemList) + 1 /\ Len(gVMemList') = Len(gVMemList) + 1
        /\ gVMemList'[Len(gVMemList) + 1] = page
        /\ \A n \in 1 .. Len(gVMemList) : gVMemList'[n] = gVMemList[n]
    BY <1>1, <1>6, <1>8 DEF Replaced
  <2>2. FromZones'
    <3>1. \E k \in Given : page = Place(bios[k])
      BY <1>8 DEF DInv, FromZones
    <3>2. \A n \in DOMAIN gVMemList' : \E k \in Given' : gVMemList'[n] = Place(bios'[k])
      BY <1>3, <1>6, <2>1, <3>1 DEF DInv, FromZones
    <3>3. \A n \in DOMAIN gFMemList' : \E k \in Given' : gFMemList'[n] = Place(bios'[k])
      BY <1>1, <1>3 DEF DInv, FromZones
    <3>4. \E k \in Given' : page' = Place(bios'[k])
      BY <1>2, <1>3
    <3> QED  BY <1>1, <1>2, <2>1, <3>2, <3>3, <3>4 DEF DInv, FromZones
  <2>3. AllGiven'
    BY <1>1, <1>2, <1>3, <1>6, <2>1 DEF DInv, AllGiven
  <2>4. GivenOnce'
    BY <1>1, <1>2, <1>4, <1>6, <2>1 DEF DInv, GivenOnce
  <2>5. LargestIsPage'
    <3>1. \A n \in DOMAIN gFMemList : gFMemList[n].len \in Nat
      BY Element, GivenFields DEF DInv, FromZones
    <3>2. \A n \in 1 .. Len(gVMemList) : gVMemList[n].len \in Nat
      BY <1>6, Element, GivenFields
    <3>3. page'.len \in Nat
      BY <1>2, GivenFields
    <3> QED  BY <1>1, <1>2, <1>5, <1>6, <2>1, <3>1, <3>2, <3>3 DEF DInv, LargestIsPage
  <2>6. Counted'
    <3>1. Len(gVMemList) + Len(gFMemList) + 1 = Cardinality(Given)
      BY <1>8 DEF DInv, Counted
    <3>2. page'.len # 0
      BY <1>2, GivenFields DEF DInv, FromZones
    <3> QED  BY <1>0, <1>1, <1>6, <2>1, <3>1, <3>2 DEF Counted
  <2> QED  BY <2>2, <2>3, <2>4, <2>5, <2>6, ZoneNext DEF DInv
<1> QED  BY <1>7, <1>8

LEMMA ReservedKeeps ==
    ASSUME DInv, DivideZone, Reserved(LowWords(gMemInfo[i + 1]))
    PROVE  DInv'
<1>1. bios[i + 1].type = ZONE_RESERVED /\ UNCHANGED <<gVMemList, gFMemList, page>>
  BY WordsHold DEF Reserved
<1>2. Given' = Given /\ bios' = bios /\ i' # 0
  BY <1>1, ZoneNext
<1>3. FromZones' /\ AllGiven'
  BY <1>1, <1>2 DEF DInv, FromZones, AllGiven
<1>4. GivenOnce' /\ LargestIsPage' /\ Counted'
  BY <1>1, <1>2 DEF DInv, GivenOnce, LargestIsPage, Counted
<1> QED  BY <1>3, <1>4, ZoneNext DEF DInv

LEMMA MapStep == DInv /\ [MapNext]_mapVars => DInv'
<1> SUFFICES ASSUME DInv, [MapNext]_mapVars  PROVE  DInv'
  OBVIOUS
<1>0. MapProgress
  BY DEF DInv
<1>1. CASE eax_0xe801
  <2>1. bios' \in Maps /\ bios = <<>> /\ phase = "e820"
        /\ UNCHANGED <<phase, told, ards, gMemInfo, i, gVMemList, gFMemList, page>>
    BY <1>1 DEF eax_0xe801
  <2>2. i = 0 /\ Given = {} /\ Given' = {} /\ told <= Len(bios) /\ Len(ards) = told
    BY <1>0, <2>1 DEF MapProgress, Given
  <2>3. told = 0 /\ Len(bios') \in Nat
    BY <1>0, <2>1, <2>2, MapsAssumption DEF MapProgress
  <2>4. MapProgress'
    BY <1>0, <2>1, <2>2, <2>3 DEF MapProgress
  <2> QED  BY <2>1, <2>2, <2>4, ProgressKeeps
<1>2. CASE getMemoryInfo
  <2>1. /\ phase = "e820" /\ told < Len(bios) /\ told' = told + 1
        /\ ards' = Append(ards, bios[told + 1])
        /\ phase' = "InitGlobal" => told' = Len(bios)
        /\ phase' \in {"e820", "InitGlobal"}
        /\ UNCHANGED <<bios, gMemInfo, i, gVMemList, gFMemList, page>>
    BY <1>2 DEF getMemoryInfo
  <2>2. told \in Nat /\ bios # <<>> /\ bios \in Maps
    BY <1>0, <2>1 DEF MapProgress
  <2>3. bios \in Seq(BiosZone) /\ Len(bios) \in Nat
    BY <2>2, ZonesOf
  <2>4. told + 1 \in 1 .. Len(bios)
    BY <2>1, <2>2, <2>3
  <2>5. bios[told + 1] \in BiosZone
    BY <2>3, <2>4
  <2>6. MapProgress'
    BY <1>0, <2>1, <2>2, <2>3, <2>4, <2>5 DEF MapProgress
  <2> QED  BY <2>1, <2>6, ProgressKeeps DEF Given
<1>3. CASE getError
  <2>1. MapProgress'
    BY <1>0, <1>3 DEF getError, MapProgress
  <2> QED  BY <1>3, <2>1, ProgressKeeps DEF getError, Given
<1>4. CASE InitGlobal
  <2>1. phase = "InitGlobal" /\ gMemInfo' = ards /\ phase' = "zones"
        /\ UNCHANGED <<bios, told, ards, i, gVMemList, gFMemList, page>>
    BY <1>4 DEF InitGlobal
  <2>2. bios \in Maps /\ told = Len(bios) /\ i = 0
    BY <1>0, <2>1 DEF MapProgress
  <2>3. ards = bios
    BY <1>0, <2>2, ZonesOf DEF MapProgress
  <2>4. 0 \in 0 .. Len(bios)
    BY <2>2, ZonesOf
  <2>5. MapProgress'
    BY <1>0, <2>1, <2>2, <2>3, <2>4 DEF MapProgress
  <2> QED  BY <2>1, <2>5, ProgressKeeps DEF Given
<1>5. CASE DivideZone
  <2> DEFINE z == gMemInfo[i + 1]
             w == LowWords(z)
  <2>1. LowMemory(w) \/ ForPages(w) \/ ForUnits(w) \/ Reserved(w)
    BY <1>5 DEF DivideZone
  <2>2. /\ w.type = bios[i + 1].type
        /\ bios[i + 1].type # ZONE_RESERVED => w = z
    BY <1>5, WordsHold
  <2>3. CASE bios[i + 1].type = ZONE_RESERVED
    <3>1. Reserved(w)
      BY <2>1, <2>2, <2>3 DEF LowMemory, ForPages, ForUnits
    <3> QED  BY <1>5, <3>1, ReservedKeeps
  <2>4. CASE bios[i + 1].type # ZONE_RESERVED
    <3>1. LowMemory(z) \/ ForPages(z) \/ ForUnits(z)
      BY <2>1, <2>2, <2>4 DEF Reserved
    <3> QED  BY <1>5, <3>1, LowMemoryKeeps, ForPagesKeeps, ForUnitsKeeps
  <2> QED  BY <2>3, <2>4
<1>6. CASE InitPages
  <2>1. MapProgress'
    BY <1>0, <1>6 DEF InitPages, MapProgress
  <2> QED  BY <1>6, <2>1, ProgressKeeps DEF InitPages, Given
<1>7. CASE UNCHANGED mapVars
  <2>1. MapProgress'
    BY <1>0, <1>7 DEF mapVars, MapProgress
  <2> QED  BY <1>7, <2>1, ProgressKeeps DEF mapVars, Given
<1> QED  BY <1>1, <1>2, <1>3, <1>4, <1>5, <1>6, <1>7 DEF MapNext

-----------------------------------------------------------------------------
LEMMA AtMostOne ==
    ASSUME NEW S, \A x, y \in S : x = y
    PROVE  Cardinality(S) = IF S = {} THEN 0 ELSE 1
<1>1. CASE S = {}
  BY <1>1, FS_EmptySet
<1>2. CASE S # {}
  <2>1. PICK x \in S : TRUE
    BY <1>2
  <2>2. S = {x}
    BY <2>1
  <2> QED  BY <1>2, <2>2, FS_Singleton
<1> QED  BY <1>1, <1>2

(* An address is in at most one of the places, and if so it is usable.      *)
LEMMA OwnersAre ==
    ASSUME DInv, NEW a \in Addresses
    PROVE  /\ Owners(a) \in {0, 1}
           /\ Owners(a) = 1 => Usable(a)
           /\ \A k \in Given : In(a, Place(bios[k])) => Owners(a) = 1
<1> DEFINE V == {k \in DOMAIN gVMemList : In(a, gVMemList[k])}
           F == {k \in DOMAIN gFMemList : In(a, gFMemList[k])}
<1>1. /\ MapProgress /\ FromZones /\ AllGiven /\ GivenOnce
  BY DEF DInv
<1>2. a \in Nat
  <2>1. CASE bios = <<>>
    BY <2>1 DEF Addresses
  <2>2. CASE bios # <<>>
    <3>1. bios \in Maps
      BY <1>1, <2>2 DEF MapProgress
    <3>2. bios[Len(bios)].base + bios[Len(bios)].len \in Nat
      BY <3>1, ZonesOf
    <3> QED  BY <2>2, <3>2 DEF Addresses
  <2> QED  BY <2>1, <2>2
<1>3. Given # {} => bios \in Maps /\ Given \subseteq 1 .. Len(bios)
  BY <1>1 DEF MapProgress, Given
<1>4. \A j, k \in Given : In(a, Place(bios[j])) /\ In(a, Place(bios[k])) => j = k
  BY <1>2, <1>3, PlacesApart
<1>5. \A k \in Given : In(a, Place(bios[k])) => Usable(a)
  <2> SUFFICES ASSUME NEW k \in Given, In(a, Place(bios[k]))  PROVE  Usable(a)
    OBVIOUS
  <2>1. bios \in Maps /\ k \in 1 .. Len(bios) /\ bios[k].type # ZONE_RESERVED
    BY <1>3 DEF Given
  <2>2. a >= BaseOfAPP /\ In(a, bios[k]) /\ k \in DOMAIN bios
    BY <1>2, <2>1, PlaceOf, ZonesOf
  <2> QED  BY <2>1, <2>2 DEF Usable
<1>6. ~In(a, page) \/ page.len # 0
  BY <1>1, <1>2, GivenFields DEF FromZones, In
<1>7. (\A m, n \in V : m = n) /\ (\A m, n \in F : m = n)
  BY <1>1, <1>4 DEF FromZones, GivenOnce
<1>8. (V = {} \/ F = {}) /\ (In(a, page) => V = {} /\ F = {})
  BY <1>1, <1>4, <1>6 DEF FromZones, GivenOnce
<1>9. V # {} \/ F # {} \/ In(a, page) => \E k \in Given : In(a, Place(bios[k]))
  BY <1>1, <1>6 DEF FromZones
<1>10. \A k \in Given : In(a, Place(bios[k])) => V # {} \/ F # {} \/ In(a, page)
  BY <1>1 DEF AllGiven
<1>11. Cardinality(V) = (IF V = {} THEN 0 ELSE 1) /\ Cardinality(F) = (IF F = {} THEN 0 ELSE 1)
  BY <1>7, AtMostOne
<1>12. Owners(a) = Cardinality(V) + Cardinality(F) + (IF In(a, page) THEN 1 ELSE 0)
  BY DEF Owners
<1> HIDE DEF V, F
<1>13. Owners(a) = IF V # {} \/ F # {} \/ In(a, page) THEN 1 ELSE 0
  BY <1>8, <1>11, <1>12
<1> QED  BY <1>5, <1>9, <1>10, <1>13

(* There are lists enough: what is given away is what can be used. *)
LEMMA ListsSuffice ==
    DInv => Len(gVMemList) <= MEM_LIST_NUM /\ Len(gFMemList) <= MEM_LIST_NUM
<1> SUFFICES ASSUME DInv
             PROVE  Len(gVMemList) <= MEM_LIST_NUM /\ Len(gFMemList) <= MEM_LIST_NUM
  OBVIOUS
<1>1. /\ Len(gVMemList) \in Nat /\ Len(gFMemList) \in Nat
      /\ IsFiniteSet(Given) /\ Cardinality(Given) \in Nat
      /\ Len(gVMemList) + Len(gFMemList) + (IF page.len # 0 THEN 1 ELSE 0) = Cardinality(Given)
      /\ page.len = 0 => Given \subseteq {1}
  BY FS_CardinalityType DEF DInv, FromZones, Counted
<1>2. MEM_LIST_NUM \in Nat \ {0}
  BY MapsAssumption
<1>3. CASE page.len = 0
  <2>1. Cardinality(Given) <= 1
    <3>1. Given \in SUBSET {1}
      BY <1>1, <1>3
    <3>2. IsFiniteSet({1}) /\ Cardinality({1}) = 1
      BY FS_Singleton
    <3> QED  BY <3>1, <3>2, FS_Subset
  <2> QED  BY <1>1, <1>2, <1>3, <2>1
<1>4. CASE page.len # 0
  <2> DEFINE usable == {k \in 1 .. Len(bios) : bios[k].type # ZONE_RESERVED}
  <2>1. bios # <<>>
    BY <1>4 DEF DInv, FromZones, MapProgress, Given
  <2>2. bios \in Maps /\ Len(bios) \in Nat /\ 1 .. i \subseteq 1 .. Len(bios)
    BY <2>1, ZonesOf DEF DInv, MapProgress
  <2>3. Given \subseteq usable /\ IsFiniteSet(usable)
    <3>1. IsFiniteSet(1 .. Len(bios)) /\ usable \subseteq 1 .. Len(bios)
      BY <2>2, FS_Interval
    <3> QED  BY <2>2, <3>1, FS_Subset DEF Given
  <2>4. Cardinality(usable) <= MEM_LIST_NUM + 1 /\ Cardinality(usable) \in Nat
    BY <2>2, <2>3, ZonesOf, FS_CardinalityType
  <2>5. Cardinality(Given) <= Cardinality(usable)
    BY <2>3, FS_Subset
  <2> HIDE DEF usable
  <2> QED  BY <1>1, <1>2, <1>4, <2>4, <2>5
<1> QED  BY <1>3, <1>4

LEMMA DividedOnce == DInv => MemoryDividedOnce
<1> SUFFICES ASSUME DInv  PROVE  MemoryDividedOnce
  OBVIOUS
<1>1. \A a \in Addresses : Owners(a) <= IF Usable(a) THEN 1 ELSE 0
  BY OwnersAre
<1>2. ASSUME phase = "divided", NEW a \in Addresses, Usable(a)  PROVE  Owners(a) = 1
  <2>1. bios \in Maps /\ i = Len(bios)
    BY <1>2 DEF DInv, MapProgress
  <2>2. PICK k \in DOMAIN bios : In(a, bios[k]) /\ bios[k].type # ZONE_RESERVED
    BY <1>2 DEF Usable
  <2>3. k \in 1 .. Len(bios) /\ k \in Given
    BY <2>1, <2>2, ZonesOf DEF Given
  <2>4. a \in Nat /\ a >= BaseOfAPP
    <3>1. bios # <<>> /\ bios[Len(bios)].base + bios[Len(bios)].len \in Nat
      BY <2>1, <2>2, ZonesOf
    <3> QED  BY <1>2, <3>1 DEF Usable, Addresses
  <2>5. In(a, Place(bios[k]))
    BY <2>1, <2>2, <2>3, <2>4, PlaceOf
  <2> QED  BY <2>3, <2>5, OwnersAre
<1> QED  BY <1>1, <1>2, ListsSuffice DEF MemoryDividedOnce, DInv, LargestIsPage

(* Memory is divided once: for every map whose usable zones lie below 4 GB  *)
(* and are not more than the lists and the page frames take, each usable    *)
(* address ends in exactly one list, and no other address in any.           *)
THEOREM MapIsDivided == StartSpec => []MemoryDividedOnce
<1>1. StartInit => DInv
  BY MapInitially DEF StartInit
<1>2. DInv /\ [StartNext]_<<bootVars, mapVars>> => DInv'
  <2>1. [StartNext]_<<bootVars, mapVars>> => [MapNext]_mapVars
    BY DEF StartNext
  <2> QED  BY <2>1, MapStep
<1> QED  BY <1>1, <1>2, DividedOnce, PTL DEF StartSpec

-----------------------------------------------------------------------------
(* Trees.  What keeps the recursive functions of btree.c from running in a  *)
(* circle: every set of nodes has one without a child in the set.           *)
TreeType ==
    /\ parent \in [TreeNode -> TreeNode \cup {NoNode}]
    /\ lChild \in [TreeNode -> TreeNode \cup {NoNode}]
    /\ rChild \in [TreeNode -> TreeNode \cup {NoNode}]

HangOnce ==
    \A n \in TreeNode :
        /\ \A c \in Children(n) :
            c # root /\ \A o \in TreeNode : c \in Children(o) => o = n
        /\ lChild[n] = rChild[n] => lChild[n] = NoNode

KnowsParent == \A n \in TreeNode : \A c \in Children(n) : c \in misled \/ parent[c] = n

Acyclic == \A S \in SUBSET TreeNode : S # {} => \E n \in S : Children(n) \cap S = {}

TInv == TreeType /\ HangOnce /\ KnowsParent /\ Acyclic

(* The children of a node in a set are nodes outside it, or none. *)
LEMMA Lowest ==
    ASSUME TreeType, Acyclic, NEW S \in SUBSET TreeNode, S # {}
    PROVE  \E n \in S : /\ lChild[n] = NoNode \/ lChild[n] \in TreeNode \ S
                        /\ rChild[n] = NoNode \/ rChild[n] \in TreeNode \ S
<1>1. PICK n \in S : Children(n) \cap S = {}
  BY DEF Acyclic
<1>2. lChild[n] \in TreeNode \cup {NoNode} /\ rChild[n] \in TreeNode \cup {NoNode}
  BY DEF TreeType
<1> QED  BY <1>1, <1>2 DEF Children

(* A recursive function of a tree whose value at a node is made from its    *)
(* values at the children.  It exists on any set of nodes that has their    *)
(* children; were there no such function on all nodes, a largest set that   *)
(* has one could be made larger.                                            *)
FoldOn(D, step, base, f) ==
    \A r \in D \cup {NoNode} :
        f[r] = IF r = NoNode THEN base ELSE step[<<r, f[lChild[r]], f[rChild[r]]>>]

LEMMA FoldExists ==
    ASSUME TreeType, Acyclic, NEW V, NEW base \in V, NEW step \in [TreeNode \X V \X V -> V]
    PROVE  \E f \in [TreeNode \cup {NoNode} -> V] : FoldOn(TreeNode, step, base, f)
<1> DEFINE Closed(D) == \A n \in D : Children(n) \subseteq D
           Has(D) == Closed(D) /\ \E f \in [D \cup {NoNode} -> V] : FoldOn(D, step, base, f)
           Sizes == {Cardinality(TreeNode \ D) : D \in {E \in SUBSET TreeNode : Has(E)}}
<1>0. NoNode \notin TreeNode /\ IsFiniteSet(TreeNode)
  BY TreeAssumption
<1>1. \A D \in SUBSET TreeNode : /\ IsFiniteSet(TreeNode \ D)
                                 /\ Cardinality(TreeNode \ D) \in Nat
  BY <1>0, FS_Difference, FS_CardinalityType
<1>2. Sizes \in SUBSET Nat
  BY <1>1
<1>3. Has({})
  <2> DEFINE f == [r \in {NoNode} |-> base]
  <2>1. f \in [{} \cup {NoNode} -> V] /\ FoldOn({}, step, base, f)
    BY DEF FoldOn
  <2> QED  BY <2>1
<1>4. Sizes # {}
  BY <1>3
<1>5. PICK m \in Sizes : \A x \in Sizes : m <= x
  BY <1>2, <1>4, LeastNat
<1>6. PICK D \in SUBSET TreeNode : Has(D) /\ m = Cardinality(TreeNode \ D)
  BY <1>5
<1>7. CASE D = TreeNode
  BY <1>6, <1>7
<1>8. CASE D # TreeNode
  <2> DEFINE S == TreeNode \ D
  <2>1. S \in SUBSET TreeNode /\ S # {}
    BY <1>8
  <2>2. PICK n \in S : /\ lChild[n] = NoNode \/ lChild[n] \in TreeNode \ S
                       /\ rChild[n] = NoNode \/ rChild[n] \in TreeNode \ S
    BY <2>1, Lowest
  <2>3. lChild[n] \in D \cup {NoNode} /\ rChild[n] \in D \cup {NoNode}
    BY <2>2
  <2>4. PICK f \in [D \cup {NoNode} -> V] : FoldOn(D, step, base, f)
    BY <1>6
  <2> DEFINE E == D \cup {n}
             g == [r \in E \cup {NoNode} |->
                    IF r = n THEN step[<<n, f[lChild[n]], f[rChild[n]]>>] ELSE f[r]]
  <2>5. n \in TreeNode /\ n \notin D /\ n # NoNode /\ E \in SUBSET TreeNode
    BY <1>0
  <2>6. step[<<n, f[lChild[n]], f[rChild[n]]>>] \in V
    BY <2>3, <2>4, <2>5
  <2>7. g \in [E \cup {NoNode} -> V]
    BY <2>4, <2>6
  <2>8. \A r \in D \cup {NoNode} : g[r] = f[r]
    BY <2>5
  <2>9. Closed(E)
    BY <1>6, <2>3 DEF Children
  <2>10. FoldOn(E, step, base, g)
    <3>1. ASSUME NEW r \in E \cup {NoNode}
          PROVE  g[r] = IF r = NoNode THEN base ELSE step[<<r, g[lChild[r]], g[rChild[r]]>>]
      <4>1. CASE r = n
        <5>1. g[n] = step[<<n, f[lChild[n]], f[rChild[n]]>>]
          OBVIOUS
        <5>2. g[lChild[n]] = f[lChild[n]] /\ g[rChild[n]] = f[rChild[n]]
          BY <2>3, <2>8
        <5> QED  BY <2>5, <4>1, <5>1, <5>2
      <4>2. CASE r = NoNode
        BY <2>4, <2>8, <4>2 DEF FoldOn
      <4>3. CASE r \in D
        <5>1. lChild[r] \in D \cup {NoNode} /\ rChild[r] \in D \cup {NoNode}
          BY <1>6, <4>3 DEF Children
        <5>2. g[lChild[r]] = f[lChild[r]] /\ g[rChild[r]] = f[rChild[r]] /\ g[r] = f[r]
          BY <2>8, <4>3, <5>1
        <5> HIDE DEF g
        <5> QED  BY <2>4, <4>3, <5>2 DEF FoldOn
      <4> QED  BY <4>1, <4>2, <4>3
    <3> HIDE DEF g, E
    <3> QED  BY <3>1 DEF FoldOn
  <2>11. Has(E)
    BY <2>7, <2>9, <2>10
  <2>12. TreeNode \ E = (TreeNode \ D) \ {n}
    OBVIOUS
  <2>13. Cardinality(TreeNode \ E) = m - 1
    <3>1. IsFiniteSet(TreeNode \ D) /\ n \in TreeNode \ D
      BY <1>1
    <3>2. Cardinality((TreeNode \ D) \ {n}) = Cardinality(TreeNode \ D) - 1
      BY <3>1, FS_RemoveElement
    <3> QED  BY <1>6, <2>12, <3>2
  <2>14. Cardinality(TreeNode \ E) \in Sizes
    BY <2>5, <2>11
  <2>15. m \in Nat /\ m <= m - 1
    BY <1>2, <1>5, <2>13, <2>14
  <2> QED  BY <2>15
<1> QED  BY <1>7, <1>8

-----------------------------------------------------------------------------
(* Hence each recursive function satisfies its own definition.              *)
(* The nodes below a node, itself among them. *)
Below ==
    LET below[r \in TreeNode \cup {NoNode}] ==
            IF r = NoNode THEN {} ELSE {r} \cup below[lChild[r]] \cup below[rChild[r]]
    IN  below

LEMMA BelowIs ==
    ASSUME TreeType, Acyclic
    PROVE  /\ Below[NoNode] = {}
           /\ \A r \in TreeNode : Below[r] = {r} \cup Below[lChild[r]] \cup Below[rChild[r]]
<1> DEFINE V == SUBSET TreeNode
           step == [t \in TreeNode \X V \X V |-> {t[1]} \cup t[2] \cup t[3]]
<1>1. step \in [TreeNode \X V \X V -> V] /\ {} \in V
  OBVIOUS
<1>2. PICK f \in [TreeNode \cup {NoNode} -> V] : FoldOn(TreeNode, step, {}, f)
  <2> HIDE DEF V, step
  <2> QED  BY <1>1, FoldExists
<1>3. NoNode \notin TreeNode
  BY TreeAssumption
<1>4. ASSUME NEW r \in TreeNode \cup {NoNode}
      PROVE  f[r] = IF r = NoNode THEN {} ELSE {r} \cup f[lChild[r]] \cup f[rChild[r]]
  <2>1. CASE r = NoNode
    BY <1>2, <2>1 DEF FoldOn
  <2>2. CASE r # NoNode
    <3>1. r \in TreeNode /\ f[lChild[r]] \in V /\ f[rChild[r]] \in V
      BY <1>2, <2>2 DEF TreeType
    <3>2. f[r] = step[<<r, f[lChild[r]], f[rChild[r]]>>]
      BY <1>2, <2>2, <3>1 DEF FoldOn
    <3> QED  BY <2>2, <3>1, <3>2
  <2> QED  BY <2>1, <2>2
<1>5. f = [r \in TreeNode \cup {NoNode} |->
            IF r = NoNode THEN {} ELSE {r} \cup f[lChild[r]] \cup f[rChild[r]]]
  BY <1>2, <1>4
<1>6. Below = [r \in TreeNode \cup {NoNode} |->
                IF r = NoNode THEN {} ELSE {r} \cup Below[lChild[r]] \cup Below[rChild[r]]]
  BY <1>5, Zenon DEF Below
<1> QED  BY <1>3, <1>6

LEMMA CountIs ==
    ASSUME TreeType, Acyclic
    PROVE  /\ BTree_Count[NoNode] = 0
           /\ \A r \in TreeNode :
                BTree_Count[r] = BTree_Count[lChild[r]] + BTree_Count[rChild[r]] + 1
<1> DEFINE step == [t \in TreeNode \X Nat \X Nat |-> t[2] + t[3] + 1]
<1>1. step \in [TreeNode \X Nat \X Nat -> Nat]
  OBVIOUS
<1>2. PICK f \in [TreeNode \cup {NoNode} -> Nat] : FoldOn(TreeNode, step, 0, f)
  <2> HIDE DEF step
  <2> QED  BY <1>1, FoldExists
<1>3. NoNode \notin TreeNode
  BY TreeAssumption
<1>4. ASSUME NEW r \in TreeNode \cup {NoNode}
      PROVE  f[r] = IF r = NoNode THEN 0 ELSE f[lChild[r]] + f[rChild[r]] + 1
  <2>1. CASE r = NoNode
    BY <1>2, <2>1 DEF FoldOn
  <2>2. CASE r # NoNode
    <3>1. r \in TreeNode /\ f[lChild[r]] \in Nat /\ f[rChild[r]] \in Nat
      BY <1>2, <2>2 DEF TreeType
    <3>2. f[r] = step[<<r, f[lChild[r]], f[rChild[r]]>>]
      BY <1>2, <2>2, <3>1 DEF FoldOn
    <3> QED  BY <2>2, <3>1, <3>2
  <2> QED  BY <2>1, <2>2
<1>5. f = [r \in TreeNode \cup {NoNode} |->
            IF r = NoNode THEN 0 ELSE f[lChild[r]] + f[rChild[r]] + 1]
  BY <1>2, <1>4
<1>6. BTree_Count = [r \in TreeNode \cup {NoNode} |->
        IF r = NoNode THEN 0 ELSE BTree_Count[lChild[r]] + BTree_Count[rChild[r]] + 1]
  BY <1>5, Zenon DEF BTree_Count
<1> QED  BY <1>3, <1>6

LEMMA HightIs ==
    ASSUME TreeType, Acyclic
    PROVE  /\ BTree_Hight[NoNode] = 0
           /\ \A r \in TreeNode :
                BTree_Hight[r] = IF BTree_Hight[lChild[r]] > BTree_Hight[rChild[r]]
                                 THEN BTree_Hight[lChild[r]] + 1
                                 ELSE BTree_Hight[rChild[r]] + 1
<1> DEFINE step == [t \in TreeNode \X Nat \X Nat |-> IF t[2] > t[3] THEN t[2] + 1 ELSE t[3] + 1]
<1>1. step \in [TreeNode \X Nat \X Nat -> Nat]
  OBVIOUS
<1>2. PICK f \in [TreeNode \cup {NoNode} -> Nat] : FoldOn(TreeNode, step, 0, f)
  <2> HIDE DEF step
  <2> QED  BY <1>1, FoldExists
<1>3. NoNode \notin TreeNode
  BY TreeAssumption
<1>4. ASSUME NEW r \in TreeNode \cup {NoNode}
      PROVE  f[r] = IF r = NoNode THEN 0
                    ELSE IF f[lChild[r]] > f[rChild[r]] THEN f[lChild[r]] + 1 ELSE f[rChild[r]] + 1
  <2>1. CASE r = NoNode
    BY <1>2, <2>1 DEF FoldOn
  <2>2. CASE r # NoNode
    <3>1. r \in TreeNode /\ f[lChild[r]] \in Nat /\ f[rChild[r]] \in Nat
      BY <1>2, <2>2 DEF TreeType
    <3>2. f[r] = step[<<r, f[lChild[r]], f[rChild[r]]>>]
      BY <1>2, <2>2, <3>1 DEF FoldOn
    <3> QED  BY <2>2, <3>1, <3>2
  <2> QED  BY <2>1, <2>2
<1>5. f = [r \in TreeNode \cup {NoNode} |->
            IF r = NoNode THEN 0
            ELSE IF f[lChild[r]] > f[rChild[r]] THEN f[lChild[r]] + 1 ELSE f[rChild[r]] + 1]
  BY <1>2, <1>4
<1>6. BTree_Hight = [r \in TreeNode \cup {NoNode} |->
        IF r = NoNode THEN 0
        ELSE IF BTree_Hight[lChild[r]] > BTree_Hight[rChild[r]]
             THEN BTree_Hight[lChild[r]] + 1 ELSE BTree_Hight[rChild[r]] + 1]
  BY <1>5, Zenon DEF BTree_Hight
<1> QED  BY <1>3, <1>6

LEMMA OrderIs ==
    ASSUME TreeType, Acyclic
    PROVE  /\ ClearOrder[NoNode] = <<>>
           /\ \A r \in TreeNode :
                ClearOrder[r] = ClearOrder[lChild[r]] \o ClearOrder[rChild[r]] \o <<r>>
<1> DEFINE V == Seq(TreeNode)
           step == [t \in TreeNode \X V \X V |-> t[2] \o t[3] \o <<t[1]>>]
<1>1. step \in [TreeNode \X V \X V -> V] /\ <<>> \in V
  OBVIOUS
<1>2. PICK f \in [TreeNode \cup {NoNode} -> V] : FoldOn(TreeNode, step, <<>>, f)
  <2> HIDE DEF V, step
  <2> QED  BY <1>1, FoldExists
<1>3. NoNode \notin TreeNode
  BY TreeAssumption
<1>4. ASSUME NEW r \in TreeNode \cup {NoNode}
      PROVE  f[r] = IF r = NoNode THEN <<>> ELSE f[lChild[r]] \o f[rChild[r]] \o <<r>>
  <2>1. CASE r = NoNode
    BY <1>2, <2>1 DEF FoldOn
  <2>2. CASE r # NoNode
    <3>1. r \in TreeNode /\ f[lChild[r]] \in V /\ f[rChild[r]] \in V
      BY <1>2, <2>2 DEF TreeType
    <3>2. f[r] = step[<<r, f[lChild[r]], f[rChild[r]]>>]
      BY <1>2, <2>2, <3>1 DEF FoldOn
    <3> QED  BY <2>2, <3>1, <3>2
  <2> QED  BY <2>1, <2>2
<1>5. f = [r \in TreeNode \cup {NoNode} |->
            IF r = NoNode THEN <<>> ELSE f[lChild[r]] \o f[rChild[r]] \o <<r>>]
  BY <1>2, <1>4
<1>6. ClearOrder = [r \in TreeNode \cup {NoNode} |->
        IF r = NoNode THEN <<>> ELSE ClearOrder[lChild[r]] \o ClearOrder[rChild[r]] \o <<r>>]
  BY <1>5, Zenon DEF ClearOrder
<1> QED  BY <1>3, <1>6

(* A search looks left before right and never at a child that is not there. *)
LEMMA FindIs ==
    ASSUME TreeType, Acyclic, NEW node \in TreeNode
    PROVE  \A r \in TreeNode :
             BTree_Find(node)[r] =
                LET l == IF lChild[r] = NoNode THEN NoNode ELSE BTree_Find(node)[lChild[r]]
                IN  IF r = node THEN node
                    ELSE IF l # NoNode THEN l
                    ELSE IF rChild[r] = NoNode THEN NoNode ELSE BTree_Find(node)[rChild[r]]
<1> DEFINE V == TreeNode \cup {NoNode}
           step == [t \in TreeNode \X V \X V |->
                        IF t[1] = node THEN node ELSE IF t[2] # NoNode THEN t[2] ELSE t[3]]
<1>1. step \in [TreeNode \X V \X V -> V] /\ NoNode \in V
  OBVIOUS
<1>2. PICK f \in [TreeNode \cup {NoNode} -> V] : FoldOn(TreeNode, step, NoNode, f)
  <2> HIDE DEF V, step
  <2> QED  BY <1>1, FoldExists
<1>3. NoNode \notin TreeNode
  BY TreeAssumption
<1> DEFINE g == [r \in TreeNode |-> f[r]]
<1>4. ASSUME NEW r \in TreeNode
      PROVE  g[r] = LET l == IF lChild[r] = NoNode THEN NoNode ELSE g[lChild[r]]
                    IN  IF r = node THEN node
                        ELSE IF l # NoNode THEN l
                        ELSE IF rChild[r] = NoNode THEN NoNode ELSE g[rChild[r]]
  <2>1. lChild[r] \in V /\ rChild[r] \in V /\ r # NoNode
    BY <1>3 DEF TreeType
  <2>2. f[lChild[r]] \in V /\ f[rChild[r]] \in V /\ f[NoNode] = NoNode
    BY <1>2, <2>1 DEF FoldOn
  <2>3. f[r] = step[<<r, f[lChild[r]], f[rChild[r]]>>]
    BY <1>2, <2>1 DEF FoldOn
  <2>4. f[r] = IF r = node THEN node ELSE IF f[lChild[r]] # NoNode THEN f[lChild[r]] ELSE f[rChild[r]]
    BY <2>2, <2>3
  <2>5. /\ lChild[r] # NoNode => g[lChild[r]] = f[lChild[r]]
        /\ rChild[r] # NoNode => g[rChild[r]] = f[rChild[r]]
    BY <2>1
  <2> QED  BY <2>2, <2>4, <2>5
<1>5. g = [r \in TreeNode |->
            LET l == IF lChild[r] = NoNode THEN NoNode ELSE g[lChild[r]]
            IN  IF r = node THEN node
                ELSE IF l # NoNode THEN l
                ELSE IF rChild[r] = NoNode THEN NoNode ELSE g[rChild[r]]]
  <2>1. g = [r \in TreeNode |-> g[r]]
    OBVIOUS
  <2> HIDE DEF g
  <2> QED  BY <1>4, <2>1
<1> HIDE DEF g
<1>6. BTree_Find(node) = [r \in TreeNode |->
            LET l == IF lChild[r] = NoNode THEN NoNode ELSE BTree_Find(node)[lChild[r]]
            IN  IF r = node THEN node
                ELSE IF l # NoNode THEN l
                ELSE IF rChild[r] = NoNode THEN NoNode ELSE BTree_Find(node)[rChild[r]]]
  BY <1>5, Zenon DEF BTree_Find
<1> QED  BY <1>6

LEMMA DegreeIs ==
    ASSUME TreeType, Acyclic
    PROVE  /\ BTree_Degree[NoNode] = 0
           /\ \A r \in TreeNode :
                BTree_Degree[r] =
                    LET LargerOf(a, b) == IF a > b THEN a ELSE b
                        own == Cardinality(Children(r))
                        left == LargerOf(own, IF own = 2 THEN 0 ELSE BTree_Degree[lChild[r]])
                    IN  IF left = 2 THEN 2 ELSE LargerOf(left, BTree_Degree[rChild[r]])
<1> DEFINE Max2(a, b) == IF a > b THEN a ELSE b
           own(r) == Cardinality({lChild[r], rChild[r]} \ {NoNode})
           left(r, x) == Max2(own(r), IF own(r) = 2 THEN 0 ELSE x)
           value(r, x, y) == IF left(r, x) = 2 THEN 2 ELSE Max2(left(r, x), y)
           step == [t \in TreeNode \X Nat \X Nat |-> value(t[1], t[2], t[3])]
<1>0. \A r : own(r) \in Nat
  <2> TAKE r
  <2>1. IsFiniteSet({lChild[r]} \cup {rChild[r]})
    BY FS_Singleton, FS_AddElement
  <2>2. {lChild[r], rChild[r]} \ {NoNode} \in SUBSET ({lChild[r]} \cup {rChild[r]})
    OBVIOUS
  <2> QED  BY <2>1, <2>2, FS_Subset, FS_CardinalityType
<1> HIDE DEF own
<1>1. step \in [TreeNode \X Nat \X Nat -> Nat]
  BY <1>0
<1>2. PICK f \in [TreeNode \cup {NoNode} -> Nat] : FoldOn(TreeNode, step, 0, f)
  <2> HIDE DEF step
  <2> QED  BY <1>1, FoldExists
<1>3. NoNode \notin TreeNode
  BY TreeAssumption
<1>4. ASSUME NEW r \in TreeNode \cup {NoNode}
      PROVE  f[r] = IF r = NoNode THEN 0 ELSE value(r, f[lChild[r]], f[rChild[r]])
  <2> HIDE DEF value
  <2>1. CASE r = NoNode
    BY <1>2, <2>1 DEF FoldOn
  <2>2. CASE r # NoNode
    <3>1. r \in TreeNode /\ f[lChild[r]] \in Nat /\ f[rChild[r]] \in Nat
      BY <1>2, <2>2 DEF TreeType
    <3>2. f[r] = step[<<r, f[lChild[r]], f[rChild[r]]>>]
      BY <1>2, <2>2, <3>1 DEF FoldOn
    <3> QED  BY <2>2, <3>1, <3>2
  <2> QED  BY <2>1, <2>2
<1>5. f = [r \in TreeNode \cup {NoNode} |->
            IF r = NoNode THEN 0 ELSE value(r, f[lChild[r]], f[rChild[r]])]
  <2> HIDE DEF value
  <2> QED  BY <1>2, <1>4
<1>6. BTree_Degree = [r \in TreeNode \cup {NoNode} |->
        IF r = NoNode THEN 0 ELSE value(r, BTree_Degree[lChild[r]], BTree_Degree[rChild[r]])]
  BY <1>5, Zenon DEF BTree_Degree, own
<1>7. /\ BTree_Degree[NoNode] = 0
      /\ \A r \in TreeNode :
            BTree_Degree[r] = value(r, BTree_Degree[lChild[r]], BTree_Degree[rChild[r]])
  <2> HIDE DEF value
  <2> QED  BY <1>3, <1>6
<1> QED  BY <1>7, Zenon DEF own, Children

-----------------------------------------------------------------------------
(* What is below a node.                                                    *)
LEMMA BelowSubset ==
    ASSUME TreeType, Acyclic
    PROVE  \A r \in TreeNode : Below[r] \in SUBSET TreeNode /\ r \in Below[r]
<1> DEFINE S == {r \in TreeNode : Below[r] \notin SUBSET TreeNode}
<1>1. CASE S # {}
  <2>1. PICK n \in S : /\ lChild[n] = NoNode \/ lChild[n] \in TreeNode \ S
                       /\ rChild[n] = NoNode \/ rChild[n] \in TreeNode \ S
    <3>1. S \in SUBSET TreeNode
      OBVIOUS
    <3> HIDE DEF S
    <3> QED  BY <1>1, <3>1, Lowest
  <2>2. Below[lChild[n]] \in SUBSET TreeNode /\ Below[rChild[n]] \in SUBSET TreeNode
    BY <2>1, BelowIs
  <2>3. Below[n] \in SUBSET TreeNode
    BY <2>2, BelowIs
  <2> QED  BY <2>3
<1>2. CASE S = {}
  BY <1>2, BelowIs
<1> QED  BY <1>1, <1>2

(* Everything below a node is the node or below one of its children. *)
LEMMA BelowByChildren ==
    ASSUME TreeType, Acyclic, NEW r \in TreeNode
    PROVE  /\ \A c \in Children(r) : c \in TreeNode /\ Below[c] \subseteq Below[r]
           /\ \A n \in Below[r] : n = r \/ \E c \in Children(r) : n \in Below[c]
<1>1. lChild[r] \in TreeNode \cup {NoNode} /\ rChild[r] \in TreeNode \cup {NoNode}
  BY DEF TreeType
<1>2. Below[r] = {r} \cup Below[lChild[r]] \cup Below[rChild[r]] /\ Below[NoNode] = {}
  BY BelowIs
<1> QED  BY <1>1, <1>2 DEF Children

(* What is below a node is closed under children, and but for the node      *)
(* itself everything there hangs on something there.                        *)
LEMMA BelowClosed ==
    ASSUME TreeType, Acyclic
    PROVE  \A r \in TreeNode :
             /\ \A n \in Below[r] : Children(n) \subseteq Below[r]
             /\ \A n \in Below[r] : n = r \/ \E p \in Below[r] : n \in Children(p)
<1> DEFINE Good(r) == /\ \A n \in Below[r] : Children(n) \subseteq Below[r]
                      /\ \A n \in Below[r] : n = r \/ \E p \in Below[r] : n \in Children(p)
           S == {r \in TreeNode : ~Good(r)}
<1> SUFFICES ASSUME S # {}  PROVE  FALSE
  OBVIOUS
<1>1. PICK r \in S : Children(r) \cap S = {}
  BY DEF Acyclic
<1>2. r \in TreeNode /\ r \in Below[r]
  BY BelowSubset
<1>3. \A c \in Children(r) : c \in TreeNode /\ Good(c) /\ Below[c] \subseteq Below[r] /\ c \in Below[c]
  BY <1>1, <1>2, BelowByChildren, BelowSubset
<1>4. ASSUME NEW n \in Below[r]
      PROVE  Children(n) \subseteq Below[r] /\ (n = r \/ \E p \in Below[r] : n \in Children(p))
  <2>1. CASE n = r
    BY <1>3, <2>1
  <2>2. CASE n # r
    <3>1. PICK c \in Children(r) : n \in Below[c]
      BY <1>2, <2>2, BelowByChildren
    <3>2. Children(n) \subseteq Below[c]
      BY <1>3, <3>1
    <3>3. n = c \/ \E p \in Below[c] : n \in Children(p)
      BY <1>3, <3>1
    <3> QED  BY <1>2, <1>3, <3>1, <3>2, <3>3
  <2> QED  BY <2>1, <2>2
<1> QED  BY <1>4

(* What is below something below r is below r. *)
LEMMA BelowBelow ==
    ASSUME TreeType, Acyclic, NEW r \in TreeNode, NEW n \in Below[r]
    PROVE  Below[n] \subseteq Below[r]
<1>1. n \in TreeNode
  BY BelowSubset
<1> DEFINE S == {x \in Below[r] : ~ (Below[x] \subseteq Below[r])}
<1> SUFFICES ASSUME S # {}  PROVE  FALSE
  OBVIOUS
<1>2. S \in SUBSET TreeNode
  BY BelowSubset
<1>3. PICK x \in S : Children(x) \cap S = {}
  BY <1>2 DEF Acyclic
<1>4. x \in TreeNode /\ Children(x) \subseteq Below[r]
  BY <1>2, BelowClosed
<1>5. \A c \in Children(x) : Below[c] \subseteq Below[r]
  BY <1>3, <1>4
<1> QED  BY <1>3, <1>4, <1>5, BelowByChildren

(* The height grows from a child to its parent. *)
LEMMA HightGrows ==
    ASSUME TreeType, Acyclic
    PROVE  \A r \in TreeNode :
             /\ BTree_Hight[r] \in Nat /\ BTree_Hight[r] >= 1
             /\ \A c \in Children(r) : BTree_Hight[c] < BTree_Hight[r]
             /\ BTree_Hight[r] = 1 \/ \E c \in Children(r) : BTree_Hight[c] = BTree_Hight[r] - 1
<1> DEFINE h == BTree_Hight
           S == {r \in TreeNode : ~ (h[r] \in Nat)}
<1>0. /\ h[NoNode] = 0 /\ NoNode \notin TreeNode
      /\ \A r \in TreeNode : h[r] = IF h[lChild[r]] > h[rChild[r]] THEN h[lChild[r]] + 1 ELSE h[rChild[r]] + 1
      /\ \A r \in TreeNode : lChild[r] \in TreeNode \cup {NoNode} /\ rChild[r] \in TreeNode \cup {NoNode}
  BY HightIs, TreeAssumption DEF TreeType
<1> HIDE DEF h
<1>1. S = {}
  <2> SUFFICES ASSUME S # {}  PROVE  FALSE
    OBVIOUS
  <2>1. PICK n \in S : /\ lChild[n] = NoNode \/ lChild[n] \in TreeNode \ S
                       /\ rChild[n] = NoNode \/ rChild[n] \in TreeNode \ S
    <3>1. S \in SUBSET TreeNode
      OBVIOUS
    <3> HIDE DEF S
    <3> QED  BY <3>1, Lowest
  <2>2. h[lChild[n]] \in Nat /\ h[rChild[n]] \in Nat
    BY <1>0, <2>1
  <2>3. h[n] \in Nat
    BY <1>0, <2>2
  <2> QED  BY <2>3
<1>2. ASSUME NEW r \in TreeNode
      PROVE  /\ h[r] \in Nat /\ h[r] >= 1
             /\ \A c \in Children(r) : h[c] < h[r]
             /\ h[r] = 1 \/ \E c \in Children(r) : h[c] = h[r] - 1
  <2>1. h[lChild[r]] \in Nat /\ h[rChild[r]] \in Nat
    BY <1>0, <1>1
  <2>2. h[r] = IF h[lChild[r]] > h[rChild[r]] THEN h[lChild[r]] + 1 ELSE h[rChild[r]] + 1
    BY <1>0
  <2>3. h[r] \in Nat /\ h[r] >= 1 /\ h[lChild[r]] < h[r] /\ h[rChild[r]] < h[r]
    BY <2>1, <2>2
  <2>4. \A c \in Children(r) : c = lChild[r] \/ c = rChild[r]
    BY DEF Children
  <2>5. h[r] = 1 \/ (h[r] = h[lChild[r]] + 1 /\ lChild[r] # NoNode)
                 \/ (h[r] = h[rChild[r]] + 1 /\ rChild[r] # NoNode)
    BY <1>0, <2>1, <2>2
  <2> QED  BY <2>1, <2>3, <2>4, <2>5 DEF Children
<1> QED  BY <1>2 DEF h

(* Nothing below a node is higher than it is, and a node is not below its   *)
(* children.                                                                *)
LEMMA BelowLower ==
    ASSUME TreeType, Acyclic, NEW r \in TreeNode
    PROVE  /\ \A n \in Below[r] : BTree_Hight[n] <= BTree_Hight[r]
           /\ \A c \in Children(r) : r \notin Below[c]
<1> DEFINE h == BTree_Hight
           Good(x) == \A n \in Below[x] : h[n] <= h[x]
           S == {x \in TreeNode : ~Good(x)}
<1>1. S = {}
  <2> SUFFICES ASSUME S # {}  PROVE  FALSE
    OBVIOUS
  <2>1. PICK x \in S : Children(x) \cap S = {}
    BY DEF Acyclic
  <2>2. ASSUME NEW n \in Below[x], n # x  PROVE  h[n] <= h[x]
    <3>1. PICK c \in Children(x) : n \in Below[c]
      BY <2>2, BelowByChildren
    <3>2. c \in TreeNode /\ h[n] <= h[c]
      BY <2>1, <3>1, BelowByChildren
    <3>3. n \in TreeNode /\ h[n] \in Nat /\ h[c] \in Nat /\ h[x] \in Nat /\ h[c] < h[x]
      BY <3>1, <3>2, BelowSubset, HightGrows
    <3> QED  BY <3>2, <3>3
  <2>3. h[x] <= h[x]
    BY HightGrows
  <2> QED  BY <2>1, <2>2, <2>3
<1>2. ASSUME NEW c \in Children(r)  PROVE  r \notin Below[c]
  <2>1. c \in TreeNode /\ h[c] \in Nat /\ h[r] \in Nat /\ h[c] < h[r]
    BY BelowByChildren, HightGrows
  <2>2. ~ (h[r] <= h[c])
    BY <2>1
  <2> QED  BY <1>1, <2>1, <2>2
<1> QED  BY <1>1, <1>2

(* The two subtrees of a node have nothing in common: of what they had, the *)
(* highest node would hang on a higher one in both.                         *)
LEMMA SubtreesApart ==
    ASSUME TreeType, Acyclic, HangOnce, NEW r \in TreeNode, NEW a \in Children(r),
           NEW b \in Children(r), a # b
    PROVE  Below[a] \cap Below[b] = {}
<1> DEFINE X == Below[a] \cap Below[b]
           H == {BTree_Hight[r] - BTree_Hight[x] : x \in X}
<1> SUFFICES ASSUME X # {}  PROVE  FALSE
  OBVIOUS
<1>1. /\ a \in TreeNode /\ b \in TreeNode
      /\ Below[a] \subseteq Below[r] /\ Below[b] \subseteq Below[r]
      /\ r \notin Below[a] /\ r \notin Below[b]
  BY BelowByChildren, BelowLower
<1>2. \A x \in X : /\ x \in TreeNode /\ BTree_Hight[x] \in Nat
                   /\ BTree_Hight[r] \in Nat /\ BTree_Hight[x] <= BTree_Hight[r]
  BY <1>1, BelowSubset, BelowLower, HightGrows
<1>3. H \in SUBSET Nat /\ H # {}
  BY <1>2
<1>4. PICK m \in H : \A y \in H : m <= y
  BY <1>3, LeastNat
<1>5. PICK x \in X : m = BTree_Hight[r] - BTree_Hight[x]
  BY <1>4
<1>6. \A p, q \in TreeNode : x \in Children(p) /\ x \in Children(q) => p = q
  BY DEF HangOnce
<1>7. x # a /\ x # b
  <2>1. ASSUME NEW c \in Children(r), NEW d \in Children(r), c # d, x = c, x \in Below[d]
        PROVE  FALSE
    <3>1. d \in TreeNode /\ r \notin Below[d] /\ Below[d] \in SUBSET TreeNode
      BY BelowByChildren, BelowLower, BelowSubset
    <3>2. PICK p \in Below[d] : x \in Children(p)
      BY <2>1, <3>1, BelowClosed
    <3> QED  BY <1>6, <2>1, <3>1, <3>2
  <2>2. x = a => FALSE
    BY <2>1
  <2>3. x = b => FALSE
    BY <2>1
  <2> QED  BY <2>2, <2>3
<1>8. PICK p \in Below[a] : x \in Children(p)
  BY <1>1, <1>7, BelowClosed
<1>9. PICK q \in Below[b] : x \in Children(q)
  BY <1>1, <1>7, BelowClosed
<1>10. p \in TreeNode /\ q \in TreeNode
  BY <1>1, BelowSubset
<1>11. p = q
  BY <1>6, <1>8, <1>9, <1>10
<1>12. p \in X
  BY <1>8, <1>9, <1>11
<1>13. BTree_Hight[x] < BTree_Hight[p]
  BY <1>8, <1>10, HightGrows
<1>14. BTree_Hight[r] - BTree_Hight[p] \in H
  BY <1>12
<1>15. m <= BTree_Hight[r] - BTree_Hight[p]
  BY <1>4, <1>14
<1>16. BTree_Hight[r] \in Nat /\ BTree_Hight[x] \in Nat /\ BTree_Hight[p] \in Nat
  BY <1>2, <1>12
<1> QED  BY <1>5, <1>13, <1>15, <1>16

-----------------------------------------------------------------------------
(* What the functions return.                                               *)
LEMMA BelowFinite ==
    ASSUME TreeType, Acyclic
    PROVE  \A r \in TreeNode \cup {NoNode} :
             IsFiniteSet(Below[r]) /\ Cardinality(Below[r]) \in Nat
<1>1. ASSUME NEW r \in TreeNode \cup {NoNode}  PROVE  Below[r] \in SUBSET TreeNode
  BY BelowIs, BelowSubset
<1>2. IsFiniteSet(TreeNode)
  BY TreeAssumption
<1> QED  BY <1>1, <1>2, FS_Subset, FS_CardinalityType

(* The number of nodes below r, from those below its children. *)
LEMMA BelowSize ==
    ASSUME TreeType, Acyclic, HangOnce, NEW r \in TreeNode
    PROVE  Cardinality(Below[r])
             = Cardinality(Below[lChild[r]]) + Cardinality(Below[rChild[r]]) + 1
<1> DEFINE l == lChild[r]
           d == rChild[r]
<1>0. l \in TreeNode \cup {NoNode} /\ d \in TreeNode \cup {NoNode}
  BY DEF TreeType
<1>1. Below[l] \cap Below[d] = {} /\ r \notin Below[l] /\ r \notin Below[d]
  <2>1. Below[NoNode] = {} /\ (l = d => l = NoNode)
    BY BelowIs DEF HangOnce
  <2>2. (l # NoNode => l \in Children(r)) /\ (d # NoNode => d \in Children(r))
    BY DEF Children
  <2>3. r \notin Below[l] /\ r \notin Below[d]
    BY <2>1, <2>2, BelowLower
  <2>4. CASE l = NoNode \/ d = NoNode
    BY <2>1, <2>3, <2>4
  <2>5. CASE l # NoNode /\ d # NoNode
    BY <2>1, <2>2, <2>3, <2>5, SubtreesApart
  <2> QED  BY <2>4, <2>5
<1>2. /\ IsFiniteSet(Below[l]) /\ Cardinality(Below[l]) \in Nat
      /\ IsFiniteSet(Below[d]) /\ Cardinality(Below[d]) \in Nat
  BY <1>0, BelowFinite
<1>3. /\ IsFiniteSet(Below[l] \cup Below[d])
      /\ Cardinality(Below[l] \cup Below[d]) = Cardinality(Below[l]) + Cardinality(Below[d])
  BY <1>1, <1>2, FS_Union, FS_EmptySet
<1>4. Below[r] = (Below[l] \cup Below[d]) \cup {r}
  BY BelowIs
<1> QED  BY <1>1, <1>3, <1>4, FS_AddElement

LEMMA CountCounts ==
    ASSUME TreeType, Acyclic, HangOnce
    PROVE  \A r \in TreeNode : BTree_Count[r] = Cardinality(Below[r])
<1> DEFINE S == {r \in TreeNode : BTree_Count[r] # Cardinality(Below[r])}
<1> SUFFICES ASSUME S # {}  PROVE  FALSE
  OBVIOUS
<1>1. PICK n \in S : /\ lChild[n] = NoNode \/ lChild[n] \in TreeNode \ S
                     /\ rChild[n] = NoNode \/ rChild[n] \in TreeNode \ S
  <2>1. S \in SUBSET TreeNode
    OBVIOUS
  <2> HIDE DEF S
  <2> QED  BY <2>1, Lowest
<1>2. BTree_Count[NoNode] = Cardinality(Below[NoNode])
  BY BelowIs, CountIs, FS_EmptySet
<1>3. /\ BTree_Count[lChild[n]] = Cardinality(Below[lChild[n]])
      /\ BTree_Count[rChild[n]] = Cardinality(Below[rChild[n]])
  BY <1>1, <1>2
<1> QED  BY <1>3, CountIs, BelowSize

(* A tree is at most as high as it has nodes. *)
LEMMA HightBound ==
    ASSUME TreeType, Acyclic, HangOnce
    PROVE  \A r \in TreeNode : BTree_Hight[r] <= Cardinality(TreeNode)
<1> DEFINE Size(r) == Cardinality(Below[r])
           S == {r \in TreeNode : ~ (BTree_Hight[r] <= Size(r))}
<1>1. S = {}
  <2> SUFFICES ASSUME S # {}  PROVE  FALSE
    OBVIOUS
  <2>1. PICK n \in S : Children(n) \cap S = {}
    BY DEF Acyclic
  <2>2. lChild[n] \in TreeNode \cup {NoNode} /\ rChild[n] \in TreeNode \cup {NoNode}
    BY DEF TreeType
  <2>3. /\ Size(lChild[n]) \in Nat /\ Size(rChild[n]) \in Nat
        /\ Size(n) = Size(lChild[n]) + Size(rChild[n]) + 1
    BY <2>2, BelowFinite, BelowSize
  <2>4. BTree_Hight[n] \in Nat
    BY HightGrows
  <2> HIDE DEF Size
  <2>5. CASE BTree_Hight[n] = 1
    BY <2>1, <2>3, <2>5
  <2>6. CASE BTree_Hight[n] # 1
    <3>1. PICK c \in Children(n) : BTree_Hight[c] = BTree_Hight[n] - 1
      BY <2>6, HightGrows
    <3>2. c \in TreeNode /\ BTree_Hight[c] <= Size(c) /\ BTree_Hight[c] \in Nat
      BY <2>1, BelowByChildren, HightGrows
    <3>3. c = lChild[n] \/ c = rChild[n]
      BY DEF Children
    <3> QED  BY <2>1, <2>3, <2>4, <3>1, <3>2, <3>3
  <2> QED  BY <2>5, <2>6
<1>2. ASSUME NEW r \in TreeNode  PROVE  BTree_Hight[r] <= Cardinality(TreeNode)
  <2>1. /\ Size(r) <= Cardinality(TreeNode) /\ Size(r) \in Nat /\ Cardinality(TreeNode) \in Nat
    <3>1. Below[r] \in SUBSET TreeNode
      BY BelowSubset
    <3> QED  BY <3>1, FS_Subset, FS_CardinalityType, TreeAssumption
  <2>2. BTree_Hight[r] \in Nat /\ BTree_Hight[r] <= Size(r)
    BY <1>1, HightGrows
  <2> QED  BY <2>1, <2>2
<1> QED  BY <1>2

(* A search finds a node where it is and nowhere else. *)
LEMMA FindFinds ==
    ASSUME TreeType, Acyclic, NEW node \in TreeNode
    PROVE  \A r \in TreeNode :
             BTree_Find(node)[r] = IF node \in Below[r] THEN node ELSE NoNode
<1> DEFINE find == BTree_Find(node)
           Right(r) == find[r] = IF node \in Below[r] THEN node ELSE NoNode
           S == {r \in TreeNode : ~Right(r)}
<1> SUFFICES ASSUME S # {}  PROVE  FALSE
  OBVIOUS
<1>1. PICK n \in S : /\ lChild[n] = NoNode \/ lChild[n] \in TreeNode \ S
                     /\ rChild[n] = NoNode \/ rChild[n] \in TreeNode \ S
  <2>1. S \in SUBSET TreeNode
    OBVIOUS
  <2> HIDE DEF S
  <2> QED  BY <2>1, Lowest
<1>2. find[n] = LET l == IF lChild[n] = NoNode THEN NoNode ELSE find[lChild[n]]
                IN  IF n = node THEN node
                    ELSE IF l # NoNode THEN l
                    ELSE IF rChild[n] = NoNode THEN NoNode ELSE find[rChild[n]]
  BY FindIs
<1>3. /\ Below[n] = {n} \cup Below[lChild[n]] \cup Below[rChild[n]] /\ Below[NoNode] = {}
      /\ node # NoNode
  BY BelowIs, TreeAssumption
<1>4. (lChild[n] # NoNode => Right(lChild[n])) /\ (rChild[n] # NoNode => Right(rChild[n]))
  BY <1>1
<1> HIDE DEF find
<1>5. Right(n)
  BY <1>2, <1>3, <1>4
<1> QED  BY <1>5

(* The degree is the largest number of children of a node below. *)
LEMMA DegreeIsLargest ==
    ASSUME TreeType, Acyclic
    PROVE  \A r \in TreeNode :
             /\ \A n \in Below[r] : BTree_Degree[r] >= Cardinality(Children(n))
             /\ \E n \in Below[r] : BTree_Degree[r] = Cardinality(Children(n))
<1> DEFINE own(n) == Cardinality(Children(n))
           Right(r) == /\ \A n \in Below[r] : BTree_Degree[r] >= own(n)
                       /\ \E n \in Below[r] : BTree_Degree[r] = own(n)
           S == {r \in TreeNode : ~Right(r)}
<1> SUFFICES ASSUME S # {}  PROVE  FALSE
  OBVIOUS
<1>1. PICK r \in S : /\ lChild[r] = NoNode \/ lChild[r] \in TreeNode \ S
                     /\ rChild[r] = NoNode \/ rChild[r] \in TreeNode \ S
  <2>1. S \in SUBSET TreeNode
    OBVIOUS
  <2> HIDE DEF S
  <2> QED  BY <2>1, Lowest
<1>2. \A n \in TreeNode : own(n) \in {0, 1, 2}
  <2> TAKE n \in TreeNode
  <2>1. /\ IsFiniteSet({lChild[n]}) /\ Cardinality({lChild[n]}) = 1
    BY FS_Singleton
  <2>2. /\ IsFiniteSet({lChild[n]} \cup {rChild[n]})
        /\ Cardinality({lChild[n]} \cup {rChild[n]}) \in {1, 2}
    <3>1. Cardinality({lChild[n]} \cup {rChild[n]}) =
            IF rChild[n] \in {lChild[n]} THEN Cardinality({lChild[n]})
            ELSE Cardinality({lChild[n]}) + 1
      BY <2>1, FS_AddElement
    <3>2. IsFiniteSet({lChild[n]} \cup {rChild[n]})
      BY <2>1, FS_AddElement
    <3> QED  BY <2>1, <3>1, <3>2
  <2>3. Children(n) \in SUBSET ({lChild[n]} \cup {rChild[n]})
    BY DEF Children
  <2>4. Cardinality(Children(n)) \in Nat /\ Cardinality(Children(n)) <= 2
    BY <2>2, <2>3, FS_Subset, FS_CardinalityType
  <2> QED  BY <2>4
<1> HIDE DEF own
<1> DEFINE LargerOf(a, b) == IF a > b THEN a ELSE b
           left == LargerOf(own(r), IF own(r) = 2 THEN 0 ELSE BTree_Degree[lChild[r]])
<1>3. BTree_Degree[r] = IF left = 2 THEN 2 ELSE LargerOf(left, BTree_Degree[rChild[r]])
  BY DegreeIs, Zenon DEF own
<1>4. /\ Below[r] = {r} \cup Below[lChild[r]] \cup Below[rChild[r]]
      /\ Below[NoNode] = {} /\ BTree_Degree[NoNode] = 0
      /\ Below[r] \in SUBSET TreeNode
  BY BelowIs, DegreeIs, BelowSubset
<1>5. /\ \A n \in Below[lChild[r]] : own(n) \in {0, 1, 2} /\ BTree_Degree[lChild[r]] >= own(n)
      /\ \A n \in Below[rChild[r]] : own(n) \in {0, 1, 2} /\ BTree_Degree[rChild[r]] >= own(n)
      /\ BTree_Degree[lChild[r]] = 0 \/ \E n \in Below[lChild[r]] : BTree_Degree[lChild[r]] = own(n)
      /\ BTree_Degree[rChild[r]] = 0 \/ \E n \in Below[rChild[r]] : BTree_Degree[rChild[r]] = own(n)
  BY <1>1, <1>2, <1>4
<1>6. BTree_Degree[lChild[r]] \in {0, 1, 2} /\ BTree_Degree[rChild[r]] \in {0, 1, 2}
  BY <1>5
<1>7. own(r) \in {0, 1, 2}
  BY <1>2
<1>8. /\ BTree_Degree[r] >= own(r)
      /\ own(r) # 2 => BTree_Degree[r] >= BTree_Degree[lChild[r]]
      /\ left # 2 => BTree_Degree[r] >= BTree_Degree[rChild[r]]
      /\ left = 2 => BTree_Degree[r] = 2
      /\ BTree_Degree[r] \in {0, 1, 2}
      /\ \/ BTree_Degree[r] = own(r)
         \/ BTree_Degree[r] = BTree_Degree[lChild[r]] /\ BTree_Degree[r] # 0
         \/ BTree_Degree[r] = BTree_Degree[rChild[r]] /\ BTree_Degree[r] # 0
  BY <1>3, <1>6, <1>7
<1>9. ASSUME NEW n \in Below[r]  PROVE  BTree_Degree[r] >= own(n)
  <2>1. own(n) \in {0, 1, 2} /\ (own(r) = 2 => left = 2)
    BY <1>2, <1>4, <1>6
  <2>2. n = r \/ n \in Below[lChild[r]] \/ n \in Below[rChild[r]]
    BY <1>4
  <2> QED  BY <1>5, <1>6, <1>7, <1>8, <2>1, <2>2
<1>10. \E n \in Below[r] : BTree_Degree[r] = own(n)
  BY <1>4, <1>5, <1>8
<1> QED  BY <1>9, <1>10

(* BTree_Clear calls func for every node below, once, children first.       *)
OrderOf(r) ==
    /\ ClearOrder[r] \in Seq(Below[r])
    /\ Len(ClearOrder[r]) = Cardinality(Below[r])
    /\ \A n \in Below[r] : \E k \in DOMAIN ClearOrder[r] : ClearOrder[r][k] = n
    /\ \A j, k \in DOMAIN ClearOrder[r] :
            ClearOrder[r][j] \in Children(ClearOrder[r][k]) => j < k

(* A sequence made of two and a last element. *)
Composed(s, a, T, b, U, x) ==
    /\ s \in Seq(T \cup U \cup {x})
    /\ Len(a) \in Nat /\ Len(b) \in Nat
    /\ DOMAIN a = 1 .. Len(a) /\ DOMAIN b = 1 .. Len(b)
    /\ DOMAIN s = 1 .. (Len(a) + Len(b) + 1) /\ Len(s) = Len(a) + Len(b) + 1
    /\ \A k \in DOMAIN a : k \in DOMAIN s /\ s[k] = a[k] /\ a[k] \in T
    /\ \A k \in DOMAIN b : Len(a) + k \in DOMAIN s /\ s[Len(a) + k] = b[k] /\ b[k] \in U
    /\ Len(a) + Len(b) + 1 \in DOMAIN s /\ s[Len(a) + Len(b) + 1] = x
    /\ \A k \in DOMAIN s : \/ k \in DOMAIN a
                           \/ k - Len(a) \in DOMAIN b
                           \/ k = Len(a) + Len(b) + 1

LEMMA ThreeParts ==
    ASSUME NEW T, NEW U, NEW a \in Seq(T), NEW b \in Seq(U), NEW x,
           NEW s, s = a \o b \o <<x>>
    PROVE  Composed(s, a, T, b, U, x)
<1> DEFINE W == T \cup U \cup {x}
<1>1. a \in Seq(W) /\ b \in Seq(W) /\ <<x>> \in Seq(W)
  OBVIOUS
<1>2. /\ Len(a) \in Nat /\ Len(b) \in Nat /\ DOMAIN a = 1 .. Len(a) /\ DOMAIN b = 1 .. Len(b)
      /\ \A k \in DOMAIN a : a[k] \in T
      /\ \A k \in DOMAIN b : b[k] \in U
  OBVIOUS
<1> HIDE DEF W
<1>3. /\ s \in Seq(W) /\ Len(s) = Len(a) + Len(b) + 1 /\ DOMAIN s = 1 .. (Len(a) + Len(b) + 1)
  BY <1>1
<1>4. \A k \in 1 .. (Len(a) + Len(b) + 1) :
        s[k] = IF k <= Len(a) THEN a[k] ELSE IF k <= Len(a) + Len(b) THEN b[k - Len(a)] ELSE x
  BY <1>1
<1>5. \A k \in DOMAIN a : k \in DOMAIN s /\ s[k] = a[k]
  BY <1>2, <1>3, <1>4
<1>6. \A k \in DOMAIN b : Len(a) + k \in DOMAIN s /\ s[Len(a) + k] = b[k]
  BY <1>2, <1>3, <1>4
<1>7. Len(a) + Len(b) + 1 \in DOMAIN s /\ s[Len(a) + Len(b) + 1] = x
  BY <1>2, <1>3, <1>4
<1>8. \A k \in DOMAIN s : k \in DOMAIN a \/ k - Len(a) \in DOMAIN b \/ k = Len(a) + Len(b) + 1
  <2>1. \A A, B \in Nat : \A k \in 1 .. (A + B + 1) : k \in 1 .. A \/ k - A \in 1 .. B \/ k = A + B + 1
    OBVIOUS
  <2> QED  BY <1>2, <1>3, <2>1, Zenon
<1> QED  BY <1>2, <1>3, <1>5, <1>6, <1>7, <1>8 DEF W, Composed

LEMMA OrderOrders ==
    ASSUME TreeType, Acyclic, HangOnce
    PROVE  \A r \in TreeNode : OrderOf(r)
<1> DEFINE S == {r \in TreeNode : ~OrderOf(r)}
<1> SUFFICES ASSUME S # {}  PROVE  FALSE
  OBVIOUS
<1>1. PICK r \in S : /\ lChild[r] = NoNode \/ lChild[r] \in TreeNode \ S
                     /\ rChild[r] = NoNode \/ rChild[r] \in TreeNode \ S
  <2>1. S \in SUBSET TreeNode
    OBVIOUS
  <2> HIDE DEF S
  <2> QED  BY <2>1, Lowest
<1>2. OrderOf(NoNode)
  <2>1. ClearOrder[NoNode] = <<>> /\ Below[NoNode] = {}
    BY BelowIs, OrderIs
  <2> QED  BY <2>1, FS_EmptySet DEF OrderOf
<1>3. OrderOf(lChild[r]) /\ OrderOf(rChild[r])
  BY <1>1, <1>2
<1> DEFINE T == Below[lChild[r]]
           U == Below[rChild[r]]
           a == ClearOrder[lChild[r]]
           b == ClearOrder[rChild[r]]
           s == ClearOrder[r]
           A == Len(a)
           B == Len(b)
<1>4. s = a \o b \o <<r>> /\ Below[r] = T \cup U \cup {r}
  BY BelowIs, OrderIs
<1>5. a \in Seq(T) /\ b \in Seq(U) /\ A = Cardinality(T) /\ B = Cardinality(U)
  BY <1>3 DEF OrderOf
<1>6. /\ \A n \in T : \E k \in DOMAIN a : a[k] = n
      /\ \A n \in U : \E k \in DOMAIN b : b[k] = n
      /\ \A j, k \in DOMAIN a : a[j] \in Children(a[k]) => j < k
      /\ \A j, k \in DOMAIN b : b[j] \in Children(b[k]) => j < k
  BY <1>3 DEF OrderOf
<1>7. Cardinality(Below[r]) = Cardinality(T) + Cardinality(U) + 1
  BY BelowSize
<1>8. /\ T \cap U = {} /\ r \notin T /\ r \notin U /\ r \notin Children(r)
      /\ \A n \in T : Children(n) \subseteq T
      /\ \A n \in U : Children(n) \subseteq U
  <2>1. Below[NoNode] = {} /\ (lChild[r] = rChild[r] => lChild[r] = NoNode)
    BY BelowIs DEF HangOnce
  <2>2. /\ lChild[r] # NoNode => lChild[r] \in Children(r) /\ lChild[r] \in TreeNode
        /\ rChild[r] # NoNode => rChild[r] \in Children(r) /\ rChild[r] \in TreeNode
    BY <1>1 DEF Children
  <2>3. r \notin T /\ r \notin U /\ T \cap U = {}
    BY <2>1, <2>2, BelowLower, SubtreesApart
  <2>4. r \notin Children(r)
    BY BelowByChildren, BelowLower, BelowSubset
  <2>5. \A n \in T : Children(n) \subseteq T
    BY <2>1, <2>2, BelowClosed
  <2>6. \A n \in U : Children(n) \subseteq U
    BY <2>1, <2>2, BelowClosed
  <2> QED  BY <2>3, <2>4, <2>5, <2>6
<1>9. /\ s \in Seq(T \cup U \cup {r})
      /\ A \in Nat /\ B \in Nat /\ DOMAIN a = 1 .. A /\ DOMAIN b = 1 .. B
      /\ DOMAIN s = 1 .. (A + B + 1) /\ Len(s) = A + B + 1
      /\ \A k \in DOMAIN a : k \in DOMAIN s /\ s[k] = a[k] /\ a[k] \in T
      /\ \A k \in DOMAIN b : A + k \in DOMAIN s /\ s[A + k] = b[k] /\ b[k] \in U
      /\ A + B + 1 \in DOMAIN s /\ s[A + B + 1] = r
      /\ \A k \in DOMAIN s : k \in DOMAIN a \/ k - A \in DOMAIN b \/ k = A + B + 1
  <2> HIDE DEF T, U, a, b, s
  <2>1. a \in Seq(T) /\ b \in Seq(U) /\ s = a \o b \o <<r>>
    BY <1>4, <1>5
  <2>2. Composed(s, a, T, b, U, r)
    BY <2>1, ThreeParts
  <2> QED  BY <2>2, Zenon DEF Composed
<1> HIDE DEF T, U, a, b, s, A, B
<1>10. s \in Seq(Below[r]) /\ Len(s) = Cardinality(Below[r])
  BY <1>4, <1>5, <1>7, <1>9
<1>11. ASSUME NEW n \in Below[r]  PROVE  \E k \in DOMAIN s : s[k] = n
  <2>1. CASE n \in T
    BY <1>6, <1>9, <2>1
  <2>2. CASE n \in U
    BY <1>6, <1>9, <2>2
  <2>3. CASE n = r
    BY <1>9, <2>3
  <2> QED  BY <1>4, <2>1, <2>2, <2>3
<1>12. ASSUME NEW j \in DOMAIN s, NEW k \in DOMAIN s, s[j] \in Children(s[k])  PROVE  j < k
  <2>0. j \in Nat /\ k \in Nat /\ j >= 1 /\ k >= 1 /\ j <= A + B + 1 /\ k <= A + B + 1
    BY <1>9
  <2>1. CASE k = A + B + 1
    <3>1. s[k] = r
      BY <1>9, <2>1
    <3>2. j # k
      BY <1>8, <1>12, <3>1
    <3> QED  BY <1>9, <2>0, <2>1, <3>2
  <2>2. CASE k \in DOMAIN a
    <3>1. s[k] = a[k] /\ a[k] \in T /\ s[j] \in T
      BY <1>8, <1>9, <1>12, <2>2
    <3>2. j \in DOMAIN a
      <4>1. j # A + B + 1
        BY <1>8, <1>9, <3>1
      <4>2. j - A \notin DOMAIN b
        <5> SUFFICES ASSUME j - A \in DOMAIN b  PROVE  FALSE
          OBVIOUS
        <5>1. A + (j - A) = j
          BY <1>9, <2>0
        <5>2. s[j] \in U
          BY <1>9, <5>1
        <5> QED  BY <1>8, <3>1, <5>2
      <4> QED  BY <1>9, <4>1, <4>2
    <3>3. a[j] \in Children(a[k])
      BY <1>9, <1>12, <3>1, <3>2
    <3> QED  BY <1>6, <2>2, <3>2, <3>3
  <2>3. CASE k - A \in DOMAIN b
    <3>0. A + (k - A) = k
      BY <1>9, <2>0
    <3>1. s[k] = b[k - A] /\ b[k - A] \in U
      BY <1>9, <2>3, <3>0
    <3>2. s[j] \in U
      BY <1>8, <1>12, <3>1
    <3>3. j # A + B + 1
      BY <1>8, <1>9, <3>2
    <3>4. j \notin DOMAIN a
      BY <1>8, <1>9, <3>2
    <3>5. j - A \in DOMAIN b
      BY <1>9, <3>3, <3>4
    <3>6. A + (j - A) = j
      BY <1>9, <2>0
    <3>7. s[j] = b[j - A]
      BY <1>9, <3>5, <3>6
    <3>8. j - A < k - A
      BY <1>6, <1>12, <2>3, <3>1, <3>5, <3>7
    <3> QED  BY <1>9, <2>0, <3>8
  <2> QED  BY <1>9, <2>1, <2>2, <2>3
<1>13. OrderOf(r)
  <2>1. /\ s \in Seq(Below[r]) /\ Len(s) = Cardinality(Below[r])
        /\ \A n \in Below[r] : \E k \in DOMAIN s : s[k] = n
        /\ \A j, k \in DOMAIN s : s[j] \in Children(s[k]) => j < k
    BY <1>10, <1>11, <1>12
  <2> QED  BY <2>1 DEF OrderOf, s
<1> QED  BY <1>13

-----------------------------------------------------------------------------
(* The generations below a node, by which TreeAgrees says what is there.    *)
Generations(r, N, g) ==
    g = [k \in 0 .. N |-> IF k = 0 THEN {r} ELSE UNION {Children(n) : n \in g[k - 1]}]

LEMMA GenerationsExist ==
    ASSUME NEW r, NEW N \in Nat
    PROVE  \E g : Generations(r, N, g)
<1> DEFINE S == {n \in Nat : ~ \E g : Generations(r, n, g)}
<1> SUFFICES ASSUME S # {}  PROVE  FALSE
  OBVIOUS
<1>1. PICK m \in S : \A n \in S : m <= n
  BY LeastNat
<1>2. CASE m = 0
  <2> DEFINE g == [k \in 0 .. 0 |-> {r}]
  <2>1. g = [k \in 0 .. 0 |-> IF k = 0 THEN {r} ELSE UNION {Children(n) : n \in g[k - 1]}]
    OBVIOUS
  <2> QED  BY <1>1, <1>2, <2>1 DEF Generations
<1>3. CASE m # 0
  <2>1. m \in Nat /\ m - 1 \in Nat /\ m - 1 \notin S
    BY <1>1, <1>3
  <2>2. PICK f : Generations(r, m - 1, f)
    BY <2>1
  <2> DEFINE next(X) == UNION {Children(n) : n \in X}
  <2>3. /\ DOMAIN f = 0 .. m - 1
        /\ \A k \in 0 .. m - 1 : f[k] = IF k = 0 THEN {r} ELSE next(f[k - 1])
    BY <2>2 DEF Generations
  <2> DEFINE g == [k \in 0 .. m |-> IF k = m THEN next(f[m - 1]) ELSE f[k]]
  <2> HIDE DEF next
  <2>4. ASSUME NEW k \in 0 .. m
        PROVE  g[k] = IF k = 0 THEN {r} ELSE next(g[k - 1])
    <3>1. CASE k = m
      BY <1>3, <2>1, <3>1
    <3>2. CASE k # m
      <4>1. k \in 0 .. m - 1 /\ g[k] = f[k]
        BY <2>1, <3>2
      <4>2. k # 0 => k - 1 \in 0 .. m /\ k - 1 # m /\ g[k - 1] = f[k - 1]
        BY <2>1, <4>1
      <4> QED  BY <2>3, <4>1, <4>2
    <3> QED  BY <3>1, <3>2
  <2>5. g = [k \in 0 .. m |-> IF k = 0 THEN {r} ELSE next(g[k - 1])]
    <3>1. g = [k \in 0 .. m |-> g[k]]
      OBVIOUS
    <3> HIDE DEF g
    <3> QED  BY <2>4, <3>1
  <2>6. Generations(r, m, g)
    BY <2>5 DEF Generations, next
  <2> QED  BY <1>1, <2>6
<1> QED  BY <1>2, <1>3

LEMMA GenerationIs ==
    ASSUME NEW r
    PROVE  /\ Cardinality(TreeNode) \in Nat
           /\ DOMAIN Generation(r) = 0 .. Cardinality(TreeNode)
           /\ Generation(r)[0] = {r}
           /\ \A k \in 1 .. Cardinality(TreeNode) : \A x :
                x \in Generation(r)[k] <=> \E n \in Generation(r)[k - 1] : x \in Children(n)
<1> DEFINE N == Cardinality(TreeNode)
<1>1. N \in Nat
  BY TreeAssumption, FS_CardinalityType
<1>2. \E g : Generations(r, N, g)
  BY <1>1, GenerationsExist
<1>3. \E g : g = [k \in 0 .. N |-> IF k = 0 THEN {r} ELSE UNION {Children(n) : n \in g[k - 1]}]
  BY <1>2 DEF Generations
<1> DEFINE G == Generation(r)
<1>4. G = [k \in 0 .. N |-> IF k = 0 THEN {r} ELSE UNION {Children(n) : n \in G[k - 1]}]
  BY <1>3, Zenon DEF Generation
<1> HIDE DEF N, G
<1>5. DOMAIN G = 0 .. N /\ G[0] = {r}
  BY <1>1, <1>4
<1>6. \A k \in 1 .. N : G[k] = UNION {Children(n) : n \in G[k - 1]}
  BY <1>1, <1>4
<1>7. \A k \in 1 .. N : \A x : x \in G[k] <=> \E n \in G[k - 1] : x \in Children(n)
  BY <1>6
<1> QED  BY <1>1, <1>5, <1>7 DEF N, G

(* The generations below a node are those below its children, one later. *)
LEMMA GenerationShifts ==
    ASSUME TreeType, NEW r \in TreeNode
    PROVE  \A k \in 1 .. Cardinality(TreeNode) : \A x :
             x \in Generation(r)[k] <=> \E c \in Children(r) : x \in Generation(c)[k - 1]
<1> DEFINE N == Cardinality(TreeNode)
           Good(k) == \A x : x \in Generation(r)[k]
                             <=> \E c \in Children(r) : x \in Generation(c)[k - 1]
           S == {k \in 1 .. N : ~Good(k)}
<1> SUFFICES ASSUME S # {}  PROVE  FALSE
  OBVIOUS
<1>0. N \in Nat
  BY GenerationIs
<1>1. S \in SUBSET Nat
  BY <1>0
<1>2. PICK k \in S : \A n \in S : k <= n
  BY <1>1, LeastNat
<1> HIDE DEF N
<1>3. k \in 1 .. N /\ \A x : x \in Generation(r)[k] <=> \E n \in Generation(r)[k - 1] : x \in Children(n)
  BY GenerationIs DEF N
<1>4. CASE k = 1
  <2>1. Generation(r)[k - 1] = {r} /\ \A c : Generation(c)[k - 1] = {c}
    BY <1>4, GenerationIs
  <2> QED  BY <1>3, <2>1
<1>5. CASE k # 1
  <2>1. k - 1 \in 1 .. N /\ k - 1 \notin S /\ (k - 1) - 1 = k - 2
    BY <1>0, <1>2, <1>3, <1>5
  <2>2. \A x : x \in Generation(r)[k - 1] <=> \E c \in Children(r) : x \in Generation(c)[k - 2]
    BY <2>1
  <2>3. \A c, x : x \in Generation(c)[k - 1] <=> \E n \in Generation(c)[k - 2] : x \in Children(n)
    BY <2>1, GenerationIs DEF N
  <2> QED  BY <1>3, <2>2, <2>3
<1> QED  BY <1>4, <1>5

(* A generation has nodes as long as the tree is higher, and together they  *)
(* are what is below.                                                       *)
LEMMA GenerationsBelow ==
    ASSUME TreeType, Acyclic, HangOnce
    PROVE  \A r \in TreeNode :
             /\ \A k \in 0 .. Cardinality(TreeNode) :
                    Generation(r)[k] # {} <=> k < BTree_Hight[r]
             /\ Under(r) = Below[r]
<1> DEFINE N == Cardinality(TreeNode)
           h == BTree_Hight
           Lasts(r) == \A k \in 0 .. N : (\E x : x \in Generation(r)[k]) <=> k < h[r]
           Covers(r) == \A n : n \in Below[r] <=> \E k \in 0 .. N : n \in Generation(r)[k]
           S == {r \in TreeNode : ~ (Lasts(r) /\ Covers(r))}
<1>0. N \in Nat
  BY GenerationIs
<1>1. S = {}
  <2> SUFFICES ASSUME S # {}  PROVE  FALSE
    OBVIOUS
  <2>1. PICK r \in S : Children(r) \cap S = {}
    BY DEF Acyclic
  <2>2. \A c \in Children(r) : c \in TreeNode /\ Lasts(c) /\ Covers(c)
    BY <2>1, BelowByChildren
  <2>3. /\ h[r] \in Nat /\ h[r] >= 1 /\ h[r] <= N
        /\ \A c \in Children(r) : h[c] \in Nat /\ h[c] < h[r]
        /\ h[r] = 1 \/ \E c \in Children(r) : h[c] = h[r] - 1
    BY <2>2, HightGrows, HightBound
  <2>4. \A x : x \in Generation(r)[0] <=> x = r
    BY GenerationIs
  <2>5. \A k \in 1 .. N : \A x :
            x \in Generation(r)[k] <=> \E c \in Children(r) : x \in Generation(c)[k - 1]
    BY GenerationShifts
  <2>6. r \in Below[r] /\ \A n : n \in Below[r] <=> n = r \/ \E c \in Children(r) : n \in Below[c]
    BY BelowByChildren, BelowSubset
  <2> HIDE DEF N, h
  <2>7. ASSUME NEW k \in 0 .. N  PROVE  (\E x : x \in Generation(r)[k]) <=> k < h[r]
    <3>1. CASE k = 0
      BY <2>3, <2>4, <3>1
    <3>2. CASE k # 0
      <4>1. k \in 1 .. N /\ k - 1 \in 0 .. N /\ k \in Nat
        BY <1>0, <3>2
      <4>2. (\E x : x \in Generation(r)[k])
              <=> \E c \in Children(r) : \E x : x \in Generation(c)[k - 1]
        BY <2>5, <4>1
      <4>3. (\E x : x \in Generation(r)[k]) <=> \E c \in Children(r) : k - 1 < h[c]
        BY <2>2, <4>1, <4>2
      <4>4. (\E c \in Children(r) : k - 1 < h[c]) <=> k < h[r]
        BY <2>3, <4>1
      <4> QED  BY <4>3, <4>4
    <3> QED  BY <3>1, <3>2
  <2>8. ASSUME NEW n  PROVE  n \in Below[r] <=> \E k \in 0 .. N : n \in Generation(r)[k]
    <3>1. ASSUME n \in Below[r]  PROVE  \E k \in 0 .. N : n \in Generation(r)[k]
      <4>1. CASE n = r
        <5>1. 0 \in 0 .. N /\ n \in Generation(r)[0]
          BY <1>0, <2>4, <4>1
        <5> QED  BY <5>1
      <4>2. CASE n # r
        <5>1. PICK c \in Children(r) : n \in Below[c]
          BY <2>6, <3>1, <4>2
        <5>2. PICK k \in 0 .. N : n \in Generation(c)[k]
          BY <2>2, <5>1
        <5>3. k < h[c]
          BY <2>2, <5>2
        <5>4. k + 1 \in 1 .. N /\ (k + 1) - 1 = k
          BY <1>0, <2>3, <5>3
        <5>5. n \in Generation(r)[k + 1]
          BY <2>5, <5>2, <5>4
        <5>6. k + 1 \in 0 .. N
          BY <5>4
        <5> QED  BY <5>5, <5>6
      <4> QED  BY <4>1, <4>2
    <3>2. ASSUME NEW k \in 0 .. N, n \in Generation(r)[k]  PROVE  n \in Below[r]
      <4>1. CASE k = 0
        BY <2>4, <2>6, <3>2, <4>1
      <4>2. CASE k # 0
        <5>1. k \in 1 .. N /\ k - 1 \in 0 .. N
          BY <1>0, <4>2
        <5>2. PICK c \in Children(r) : n \in Generation(c)[k - 1]
          BY <2>5, <3>2, <5>1
        <5> QED  BY <2>2, <2>6, <5>1, <5>2
      <4> QED  BY <4>1, <4>2
    <3> QED  BY <3>1, <3>2
  <2>9. Lasts(r) /\ Covers(r)
    BY <2>7, <2>8
  <2> QED  BY <2>9
<1>2. ASSUME NEW r \in TreeNode
      PROVE  /\ \A k \in 0 .. N : Generation(r)[k] # {} <=> k < h[r]
             /\ Under(r) = Below[r]
  <2>1. Lasts(r) /\ Covers(r)
    BY <1>1
  <2>2. Under(r) = Below[r]
    BY <2>1 DEF Under
  <2>3. \A k \in 0 .. N : Generation(r)[k] # {} <=> k < h[r]
    BY <2>1
  <2> QED  BY <2>2, <2>3
<1> QED  BY <1>2

LEMMA GenerationsCount ==
    ASSUME TreeType, Acyclic, HangOnce, NEW r \in TreeNode
    PROVE  BTree_Hight[r]
             = Cardinality({k \in DOMAIN Generation(r) : Generation(r)[k] # {}})
<1> DEFINE N == Cardinality(TreeNode)
           h == BTree_Hight[r]
           K == {k \in DOMAIN Generation(r) : Generation(r)[k] # {}}
<1>1. N \in Nat /\ DOMAIN Generation(r) = 0 .. N /\ h \in Nat /\ h >= 1 /\ h <= N
  BY GenerationIs, HightGrows, HightBound
<1>2. \A k \in 0 .. N : Generation(r)[k] # {} <=> k < h
  BY GenerationsBelow
<1> HIDE DEF N, h
<1>3. K = 0 .. h - 1
  BY <1>1, <1>2
<1>4. 0 \in Int /\ h - 1 \in Int /\ ~ (0 > h - 1)
  BY <1>1
<1>5. Cardinality(0 .. h - 1) = (h - 1) - 0 + 1
  BY <1>4, FS_Interval
<1> HIDE DEF K
<1>6. Cardinality(K) = h
  BY <1>1, <1>3, <1>5
<1> QED  BY <1>6 DEF h, K

LEMMA ShapeAgrees ==
    ASSUME TInv
    PROVE  TreeAgrees
<1>0. TreeType /\ HangOnce /\ KnowsParent /\ Acyclic
  BY DEF TInv
<1>1. \A r \in TreeNode : Under(r) = Below[r] /\ Below[r] \in SUBSET TreeNode
  BY <1>0, GenerationsBelow, BelowSubset
<1>2. ASSUME NEW n \in TreeNode
      PROVE  /\ \A c \in Children(n) :
                /\ c # root /\ n \notin Under(c) /\ (c \in misled \/ parent[c] = n)
                /\ \A o \in TreeNode \ {n} : c \notin Children(o)
             /\ lChild[n] = rChild[n] => lChild[n] = NoNode
  <2>1. \A c \in Children(n) : n \notin Under(c)
    BY <1>0, <1>1, BelowByChildren, BelowLower
  <2> QED  BY <1>0, <2>1 DEF HangOnce, KnowsParent
<1>3. ASSUME NEW r \in TreeNode
      PROVE  LET all == Under(r)
                 order == ClearOrder[r]
             IN  /\ \A n \in TreeNode : BTree_Find(n)[r] = IF n \in all THEN n ELSE NoNode
                 /\ BTree_Count[r] = Cardinality(all)
                 /\ BTree_Hight[r] = Cardinality({k \in DOMAIN Generation(r) : Generation(r)[k] # {}})
                 /\ \A n \in all : BTree_Degree[r] >= Cardinality(Children(n))
                 /\ \E n \in all : BTree_Degree[r] = Cardinality(Children(n))
                 /\ Len(order) = Cardinality(all) /\ {order[k] : k \in DOMAIN order} = all
                 /\ \A j, k \in DOMAIN order : order[j] \in Children(order[k]) => j < k
  <2>1. \A n \in TreeNode : BTree_Find(n)[r] = IF n \in Under(r) THEN n ELSE NoNode
    BY <1>0, <1>1, FindFinds
  <2>2. BTree_Count[r] = Cardinality(Under(r))
    BY <1>0, <1>1, CountCounts
  <2>3. BTree_Hight[r] = Cardinality({k \in DOMAIN Generation(r) : Generation(r)[k] # {}})
    BY <1>0, GenerationsCount
  <2>4. /\ \A n \in Under(r) : BTree_Degree[r] >= Cardinality(Children(n))
        /\ \E n \in Under(r) : BTree_Degree[r] = Cardinality(Children(n))
    BY <1>0, <1>1, DegreeIsLargest
  <2>5. OrderOf(r)
    BY <1>0, OrderOrders
  <2>6. /\ Len(ClearOrder[r]) = Cardinality(Under(r))
        /\ \A j, k \in DOMAIN ClearOrder[r] : ClearOrder[r][j] \in Children(ClearOrder[r][k]) => j < k
    BY <1>1, <2>5 DEF OrderOf
  <2>7. {ClearOrder[r][k] : k \in DOMAIN ClearOrder[r]} = Below[r]
    <3>1. \A k \in DOMAIN ClearOrder[r] : ClearOrder[r][k] \in Below[r]
      BY <2>5 DEF OrderOf
    <3>2. \A n \in Below[r] : \E k \in DOMAIN ClearOrder[r] : ClearOrder[r][k] = n
      BY <2>5 DEF OrderOf
    <3> QED  BY <3>1, <3>2
  <2> QED  BY <1>1, <2>1, <2>2, <2>3, <2>4, <2>6, <2>7
<1> QED  BY <1>2, <1>3 DEF TreeAgrees

-----------------------------------------------------------------------------
(* The calls.                                                               *)
LEMMA TreeInitially == TreeInit => TInv
<1> SUFFICES ASSUME TreeInit  PROVE  TInv
  OBVIOUS
<1>1. TreeType
  BY DEF TreeInit, TreeType
<1>2. \A n \in TreeNode : Children(n) = {}
  BY DEF TreeInit, Children
<1>3. HangOnce
  BY <1>2 DEF TreeInit, HangOnce
<1>4. KnowsParent /\ Acyclic
  BY <1>2 DEF KnowsParent, Acyclic
<1> QED  BY <1>1, <1>3, <1>4 DEF TInv

(* A node that is taken hangs nowhere, since it is not below root.  What is *)
(* not below root has no child there, so that no circle goes through the    *)
(* new link.  A node that is refused while it hangs counts as misled.       *)
LEMMA InsertKeepsTree ==
    ASSUME TInv, NEW node \in TreeNode, NEW object \in TreeNode, NEW pos,
           BTree_Insert(object, node, pos)
    PROVE  TInv'
<1> DEFINE left == Accepts(object, node) /\ "left" \in pos /\ lChild[object] = NoNode
           right == Accepts(object, node) /\ ~left /\ "right" \in pos /\ rChild[object] = NoNode
<1>0. TreeType /\ HangOnce /\ KnowsParent /\ Acyclic /\ root \in TreeNode /\ NoNode \notin TreeNode
  BY TreeAssumption DEF TInv
<1>1. /\ Hangs(node) => BTree_Find(node)[root] # NoNode
      /\ parent' = [parent EXCEPT ![node] = object]
      /\ misled' = IF Hangs(node) THEN misled \cup {node} ELSE misled \ {node}
      /\ lChild' = IF left THEN [lChild EXCEPT ![object] = node] ELSE lChild
      /\ rChild' = IF right THEN [rChild EXCEPT ![object] = node] ELSE rChild
  BY DEF BTree_Insert
<1>2. left \/ right =>
        object \in Below[root] /\ node \notin Below[root] /\ node # root
        /\ \A n \in TreeNode : node # lChild[n] /\ node # rChild[n]
  <2>1. BTree_Find(object)[root] = IF object \in Below[root] THEN object ELSE NoNode
    BY <1>0, FindFinds
  <2>2. BTree_Find(node)[root] = IF node \in Below[root] THEN node ELSE NoNode
    BY <1>0, FindFinds
  <2>3. root \in Below[root]
    BY <1>0, BelowSubset
  <2> SUFFICES ASSUME Accepts(object, node)
               PROVE  /\ object \in Below[root] /\ node \notin Below[root] /\ node # root
                      /\ \A n \in TreeNode : node # lChild[n] /\ node # rChild[n]
    OBVIOUS
  <2>4. object \in Below[root] /\ node \notin Below[root]
    BY <1>0, <2>1, <2>2 DEF Accepts
  <2>5. ~Hangs(node)
    BY <1>1 DEF Accepts
  <2> QED  BY <2>3, <2>4, <2>5 DEF Hangs
<1>3. \A n \in TreeNode : node \in Children(n) => Hangs(node)
  BY DEF Hangs, Children
<1> HIDE DEF left, right
<1>4. TreeType'
  BY <1>0, <1>1 DEF TreeType
<1>5. ASSUME NEW n \in TreeNode
      PROVE  /\ lChild'[n] = IF left /\ n = object THEN node ELSE lChild[n]
             /\ rChild'[n] = IF right /\ n = object THEN node ELSE rChild[n]
             /\ parent'[n] = IF n = node THEN object ELSE parent[n]
  BY <1>0, <1>1 DEF TreeType
<1>6. ~ (left /\ right)
  BY DEF left, right
<1>7. \A n \in TreeNode : \A c : c \in Children(n)' <=>
            c \in Children(n) \/ (n = object /\ c = node /\ (left \/ right))
  <2>1. left => lChild[object] = NoNode
    BY DEF left
  <2>2. right => rChild[object] = NoNode
    BY DEF right
  <2> QED  BY <1>0, <1>5, <1>6, <2>1, <2>2 DEF Children
<1>8. left \/ right => \A n \in TreeNode : node \notin Children(n)
  BY <1>2 DEF Children
<1>9. HangOnce'
  <2>1. ASSUME NEW n \in TreeNode, NEW c \in Children(n)'
        PROVE  c # root /\ \A o \in TreeNode : c \in Children(o)' => o = n
    <3>1. CASE c \in Children(n) /\ ~(c = node /\ (left \/ right))
      BY <1>0, <1>7, <3>1 DEF HangOnce
    <3>2. CASE c = node /\ (left \/ right)
      BY <1>2, <1>7, <1>8, <3>2
    <3> QED  BY <1>7, <3>1, <3>2
  <2>2. ASSUME NEW n \in TreeNode, lChild'[n] = rChild'[n]
        PROVE  lChild'[n] = NoNode
    BY <1>0, <1>2, <1>5, <1>6, <2>2 DEF HangOnce
  <2> QED  BY <2>1, <2>2 DEF HangOnce
<1>10. KnowsParent'
  <2> SUFFICES ASSUME NEW n \in TreeNode, NEW c \in Children(n)'
               PROVE  c \in misled' \/ parent'[c] = n
    BY DEF KnowsParent
  <2>1. CASE c \in Children(n) /\ c = node
    BY <1>1, <1>3, <2>1
  <2>2. CASE c \in Children(n) /\ c # node
    <3>1. c \in TreeNode /\ (c \in misled \/ parent[c] = n)
      BY <1>0, <2>2, BelowByChildren DEF KnowsParent
    <3> QED  BY <1>1, <1>5, <2>2, <3>1
  <2>3. CASE n = object /\ c = node
    BY <1>5, <2>3
  <2> QED  BY <1>7, <2>1, <2>2, <2>3
<1>11. Acyclic'
  <2> SUFFICES ASSUME NEW S \in SUBSET TreeNode, S # {}
               PROVE  \E n \in S : Children(n)' \cap S = {}
    BY DEF Acyclic
  <2> DEFINE T == S \ Below[root]
  <2>0. CASE ~ (left \/ right)
    BY <1>0, <1>7, <2>0 DEF Acyclic
  <2>1. CASE (left \/ right) /\ T # {}
    <3>1. PICK n \in T : Children(n) \cap T = {}
      BY <1>0, <2>1 DEF Acyclic
    <3>2. n \in TreeNode /\ n \notin Below[root] /\ Children(n)' = Children(n)
      BY <1>2, <1>7, <2>1
    <3>3. ASSUME NEW c \in Children(n)  PROVE  c \notin Below[root]
      <4> SUFFICES ASSUME c \in Below[root]  PROVE  FALSE
        OBVIOUS
      <4>1. c # root
        BY <1>0, <3>2 DEF HangOnce
      <4>2. PICK p \in Below[root] : c \in Children(p)
        BY <1>0, <4>1, BelowClosed
      <4>3. p \in TreeNode /\ p = n
        BY <1>0, <3>2, <4>2, BelowSubset DEF HangOnce
      <4> QED  BY <3>2, <4>3
    <3> QED  BY <3>1, <3>2, <3>3
  <2>2. CASE (left \/ right) /\ T = {}
    <3>1. PICK n \in S : Children(n) \cap S = {}
      BY <1>0 DEF Acyclic
    <3>2. node \notin S
      BY <1>2, <2>2
    <3> QED  BY <1>7, <3>1, <3>2
  <2> QED  BY <2>0, <2>1, <2>2
<1> QED  BY <1>4, <1>9, <1>10, <1>11 DEF TInv

(* Fewer children make no circle, and a node still hangs on one only. *)
LEMMA FewerChildren ==
    ASSUME HangOnce, Acyclic, \A n \in TreeNode : Children(n)' \subseteq Children(n),
           \A n \in TreeNode : lChild'[n] = rChild'[n] => lChild'[n] = NoNode
    PROVE  HangOnce' /\ Acyclic'
<1>1. HangOnce'
  BY DEF HangOnce
<1>2. ASSUME NEW S \in SUBSET TreeNode, S # {}
      PROVE  \E n \in S : Children(n)' \cap S = {}
  <2>1. PICK n \in S : Children(n) \cap S = {}
    BY <1>2 DEF Acyclic
  <2> QED  BY <2>1
<1> QED  BY <1>1, <1>2 DEF Acyclic

(* A node that knows its parent hangs nowhere when it is removed; one that  *)
(* does not may cut off another and is misled in any case.                  *)
LEMMA RemoveKeepsTree ==
    ASSUME TInv, NEW node \in TreeNode, BTree_Remove(node)
    PROVE  TInv'
<1>0. TreeType /\ HangOnce /\ KnowsParent /\ Acyclic /\ NoNode \notin TreeNode
  BY TreeAssumption DEF TInv
<1> DEFINE p == parent[node]
           wasLeft == lChild[p] = node
<1>1. /\ p # NoNode /\ misled' = misled
      /\ parent' = [parent EXCEPT ![node] = NoNode]
      /\ lChild' = IF wasLeft THEN [lChild EXCEPT ![p] = NoNode] ELSE lChild
      /\ rChild' = IF wasLeft THEN rChild ELSE [rChild EXCEPT ![p] = NoNode]
  BY DEF BTree_Remove, WasLeft
<1>2. p \in TreeNode
  BY <1>0, <1>1 DEF TreeType
<1> HIDE DEF p, wasLeft
<1>3. TreeType'
  BY <1>0, <1>1, <1>2 DEF TreeType
<1>4. ASSUME NEW n \in TreeNode
      PROVE  /\ lChild'[n] = IF wasLeft /\ n = p THEN NoNode ELSE lChild[n]
             /\ rChild'[n] = IF ~wasLeft /\ n = p THEN NoNode ELSE rChild[n]
             /\ parent'[n] = IF n = node THEN NoNode ELSE parent[n]
  BY <1>0, <1>1 DEF TreeType
<1>5. \A n \in TreeNode : Children(n)' \subseteq Children(n)
  BY <1>4 DEF Children
<1>6. \A n \in TreeNode : node \in Children(n)' => node \in misled
  <2> SUFFICES ASSUME NEW n \in TreeNode, node \in Children(n)', node \notin misled
               PROVE  FALSE
    OBVIOUS
  <2>1. node \in Children(n) /\ n = p
    BY <1>0, <1>5 DEF KnowsParent, p
  <2>2. lChild[p] # rChild[p] \/ lChild[p] = NoNode
    BY <1>0, <1>2 DEF HangOnce
  <2>3. node = lChild[p] \/ node = rChild[p]
    BY <2>1 DEF Children
  <2> QED  BY <1>0, <1>2, <1>4, <2>1, <2>2, <2>3 DEF Children, wasLeft
<1>7. \A n \in TreeNode : lChild'[n] = rChild'[n] => lChild'[n] = NoNode
  <2> SUFFICES ASSUME NEW n \in TreeNode, lChild'[n] = rChild'[n]  PROVE  lChild'[n] = NoNode
    OBVIOUS
  <2> QED  BY <1>0, <1>4 DEF HangOnce
<1>8. KnowsParent'
  <2> SUFFICES ASSUME NEW n \in TreeNode, NEW c \in Children(n)'
               PROVE  c \in misled' \/ parent'[c] = n
    BY DEF KnowsParent
  <2>1. c \in Children(n) /\ c \in TreeNode /\ (c \in misled \/ parent[c] = n)
    BY <1>0, <1>5, BelowByChildren DEF KnowsParent
  <2> QED  BY <1>1, <1>4, <1>6, <2>1
<1> QED  BY <1>0, <1>3, <1>5, <1>7, <1>8, FewerChildren DEF TInv

LEMMA ClearKeepsTree ==
    ASSUME TInv, NEW node \in TreeNode, BTree_Clear(node)
    PROVE  TInv'
<1>0. TreeType /\ HangOnce /\ KnowsParent /\ Acyclic /\ NoNode \notin TreeNode
  BY TreeAssumption DEF TInv
<1> DEFINE cleared == {ClearOrder[node][k] : k \in DOMAIN ClearOrder[node]}
<1>1. cleared = Below[node]
  <2>1. OrderOf(node)
    BY <1>0, OrderOrders
  <2>2. \A k \in DOMAIN ClearOrder[node] : ClearOrder[node][k] \in Below[node]
    BY <2>1 DEF OrderOf
  <2>3. \A n \in Below[node] : \E k \in DOMAIN ClearOrder[node] : ClearOrder[node][k] = n
    BY <2>1 DEF OrderOf
  <2> QED  BY <2>2, <2>3
<1>2. /\ ~Hangs(node) /\ misled' = misled
      /\ parent' = [n \in TreeNode |-> IF n \in cleared THEN NoNode ELSE parent[n]]
      /\ lChild' = [n \in TreeNode |-> IF n \in cleared THEN NoNode ELSE lChild[n]]
      /\ rChild' = [n \in TreeNode |-> IF n \in cleared THEN NoNode ELSE rChild[n]]
  BY DEF BTree_Clear
<1> HIDE DEF cleared
<1>3. TreeType'
  BY <1>0, <1>2 DEF TreeType
<1>4. \A n \in TreeNode : Children(n)' = IF n \in cleared THEN {} ELSE Children(n)
  BY <1>2 DEF Children
<1>5. ASSUME NEW n \in TreeNode, n \notin cleared, NEW c \in Children(n)
      PROVE  c \notin cleared
  <2> SUFFICES ASSUME c \in cleared  PROVE  FALSE
    OBVIOUS
  <2>1. c # node
    BY <1>2 DEF Hangs, Children
  <2>2. PICK q \in Below[node] : c \in Children(q)
    BY <1>0, <1>1, <2>1, BelowClosed
  <2>3. q \in TreeNode /\ q = n
    BY <1>0, <2>2, BelowSubset DEF HangOnce
  <2> QED  BY <1>1, <1>5, <2>2, <2>3
<1>6. \A n \in TreeNode : lChild'[n] = rChild'[n] => lChild'[n] = NoNode
  BY <1>0, <1>2 DEF HangOnce
<1>7. \A n \in TreeNode : Children(n)' \subseteq Children(n)
  BY <1>4
<1>8. KnowsParent'
  <2> SUFFICES ASSUME NEW n \in TreeNode, NEW c \in Children(n)'
               PROVE  c \in misled' \/ parent'[c] = n
    BY DEF KnowsParent
  <2>1. n \notin cleared /\ c \in Children(n) /\ c \notin cleared
    BY <1>4, <1>5
  <2>2. c \in TreeNode /\ (c \in misled \/ parent[c] = n)
    BY <1>0, <2>1, BelowByChildren DEF KnowsParent
  <2> QED  BY <1>2, <2>1, <2>2
<1> QED  BY <1>0, <1>3, <1>6, <1>7, <1>8, FewerChildren DEF TInv

LEMMA TreeStep == TInv /\ [TreeNext]_treeVars => TInv'
<1> SUFFICES ASSUME TInv, [TreeNext]_treeVars  PROVE  TInv'
  OBVIOUS
<1>1. ASSUME NEW node \in TreeNode, NEW object \in TreeNode,
             NEW pos \in {{"left"}, {"right"}, {"left", "right"}}, BTree_Insert(object, node, pos)
      PROVE  TInv'
  BY <1>1, InsertKeepsTree
<1>2. ASSUME NEW node \in TreeNode, BTree_Remove(node)  PROVE  TInv'
  BY <1>2, RemoveKeepsTree
<1>3. ASSUME NEW node \in TreeNode, BTree_Clear(node)  PROVE  TInv'
  BY <1>3, ClearKeepsTree
<1>4. CASE UNCHANGED treeVars
  BY <1>4 DEF TInv, TreeType, HangOnce, KnowsParent, Acyclic, Children, treeVars
<1> QED  BY <1>1, <1>2, <1>3, <1>4 DEF TreeNext

(* For any nodes and any sequence of calls, inserts of nodes that hang      *)
(* below root already included, every node hangs at most once, only a       *)
(* refused insert separates a node that hangs from its parent, and what the *)
(* recursive functions of btree.c find, count, measure and free is what is  *)
(* there.                                                                   *)
THEOREM TreesAreTrees == TreeSpec => []TreeAgrees
<1>1. TInv => TreeAgrees
  BY ShapeAgrees
<1> QED  BY <1>1, TreeInitially, TreeStep, PTL DEF TreeSpec

-----------------------------------------------------------------------------
(* Strings.  Memory holds characters, and the last one ends a string. *)
SInv == chars \in [0 .. CharCount - 1 -> Char] /\ chars[CharCount - 1] = EOS

(* A loop that goes on while P and then returns v. *)
Scan(D, P, v, f) == f = [k \in D |-> IF P[k] THEN f[k + 1] ELSE v[k]]

(* Where such a loop stops, if it does. *)
Stops(D, P, k) == {j \in D : k <= j /\ ~P[j]}
First(S) == CHOOSE j \in S : \A x \in S : j <= x

LEMMA FirstIs ==
    ASSUME NEW S \in SUBSET Nat, S # {}
    PROVE  First(S) \in S /\ \A x \in S : First(S) <= x
BY LeastNat DEF First

LEMMA ScanExists ==
    ASSUME NEW D \in SUBSET Nat, NEW P \in [D -> BOOLEAN], NEW v,
           \A k \in D : P[k] => k + 1 \in D
    PROVE  \E f : Scan(D, P, v, f)
<1> DEFINE f == [k \in D |-> IF Stops(D, P, k) # {} THEN v[First(Stops(D, P, k))] ELSE 0]
<1>0. \A k \in D : k \in Nat
  OBVIOUS
<1>1. ASSUME NEW k \in D  PROVE  f[k] = IF P[k] THEN f[k + 1] ELSE v[k]
  <2> DEFINE g == f
  <2>0. \A x \in D : g[x] = IF Stops(D, P, x) # {} THEN v[First(Stops(D, P, x))] ELSE 0
    OBVIOUS
  <2> HIDE DEF f, g
  <2>1. CASE P[k]
    <3>1. k + 1 \in D
      BY <2>1
    <3>2. Stops(D, P, k) = Stops(D, P, k + 1)
      <4>1. \A j \in D : k <= j /\ ~P[j] => k + 1 <= j
        BY <1>0, <2>1
      <4>2. \A j \in D : k + 1 <= j => k <= j
        BY <1>0
      <4> QED  BY <4>1, <4>2 DEF Stops
    <3> QED  BY <2>0, <2>1, <3>1, <3>2 DEF g
  <2>2. CASE ~P[k]
    <3>1. k \in Nat /\ k <= k
      BY <1>0
    <3>2. k \in Stops(D, P, k) /\ Stops(D, P, k) \in SUBSET Nat
      BY <1>0, <2>2, <3>1 DEF Stops
    <3>3. First(Stops(D, P, k)) \in Stops(D, P, k) /\ First(Stops(D, P, k)) <= k
      BY <3>2, FirstIs
    <3>4. First(Stops(D, P, k)) \in Nat /\ k <= First(Stops(D, P, k))
      BY <1>0, <3>3 DEF Stops
    <3>5. First(Stops(D, P, k)) = k
      BY <3>1, <3>3, <3>4
    <3> QED  BY <2>0, <2>2, <3>2, <3>5 DEF g
  <2> QED  BY <2>1, <2>2
<1>2. f = [k \in D |-> f[k]]
  OBVIOUS
<1> HIDE DEF f
<1>3. f = [k \in D |-> IF P[k] THEN f[k + 1] ELSE v[k]]
  BY <1>1, <1>2
<1> QED  BY <1>3 DEF Scan

(* The loop goes on from k and stops at j. *)
GoesOn(D, P, k, j) ==
    /\ k \in D /\ j \in D /\ k <= j /\ P[j] = FALSE
    /\ \A x \in Nat : k <= x /\ x < j => x \in D /\ P[x] = TRUE

LEMMA ScanValue ==
    ASSUME NEW D \in SUBSET Nat, NEW P, NEW v, NEW f, Scan(D, P, v, f),
           NEW k, NEW j, GoesOn(D, P, k, j)
    PROVE  f[k] = v[j]
<1> DEFINE S == {d \in Nat : d <= j - k /\ f[j - d] # v[j]}
<1>0. /\ k \in D /\ j \in D /\ k <= j /\ ~P[j] /\ k \in Nat /\ j \in Nat /\ j - k \in Nat
      /\ \A x \in Nat : k <= x /\ x < j => x \in D /\ P[x]
  BY DEF GoesOn
<1>1. \A x \in D : f[x] = IF P[x] THEN f[x + 1] ELSE v[x]
  BY DEF Scan
<1>2. S = {}
  <2> SUFFICES ASSUME S # {}  PROVE  FALSE
    OBVIOUS
  <2>1. PICK d \in S : \A x \in S : d <= x
    BY LeastNat
  <2>2. d \in Nat /\ d <= j - k /\ f[j - d] # v[j]
    BY <2>1
  <2>3. CASE d = 0
    BY <1>0, <1>1, <2>2, <2>3
  <2>4. CASE d # 0
    <3>1. d - 1 \in Nat /\ d - 1 <= j - k /\ d - 1 \notin S
      BY <1>0, <2>1, <2>2, <2>4
    <3>2. f[j - (d - 1)] = v[j]
      BY <3>1
    <3>3. j - d \in Nat /\ k <= j - d /\ j - d < j /\ (j - d) + 1 = j - (d - 1)
      BY <1>0, <2>2, <2>4
    <3>4. f[j - d] = f[(j - d) + 1]
      BY <1>0, <1>1, <3>3
    <3> QED  BY <2>2, <3>2, <3>3, <3>4
  <2> QED  BY <2>3, <2>4
<1>3. \A d \in Nat : d <= j - k => f[j - d] = v[j]
  BY <1>2
<1>4. j - k \in Nat /\ j - k <= j - k /\ j - (j - k) = k
  BY <1>0
<1> QED  BY <1>3, <1>4

-----------------------------------------------------------------------------
(* Where the string at p ends, and what it is.                              *)
LEMMA PointerIs ==
    ASSUME SInv
    PROVE  /\ Pointer = 0 .. CharCount - 1 /\ Pointer \in SUBSET Nat
           /\ CharCount \in Nat /\ CharCount >= 1 /\ CharCount - 1 \in Pointer
           /\ Cardinality(Pointer) = CharCount
           /\ \A a \in Pointer : a <= CharCount - 1 /\ chars[a] \in Char /\ chars[a] \in Nat
<1>1. CharCount \in Nat /\ CharCount >= 1 /\ Pointer = 0 .. CharCount - 1
  BY StringsAssumption DEF SInv, Pointer
<1>2. Cardinality(0 .. CharCount - 1) = CharCount
  <2>1. 0 \in Int /\ CharCount - 1 \in Int /\ ~ (0 > CharCount - 1)
    BY <1>1
  <2>2. Cardinality(0 .. CharCount - 1) = CharCount - 1 - 0 + 1
    BY <2>1, FS_Interval
  <2> QED  BY <1>1, <2>2
<1>3. \A a \in Pointer : chars[a] \in Char /\ chars[a] \in Nat
  BY <1>1, StringsAssumption DEF SInv
<1> QED  BY <1>1, <1>2, <1>3

IsEnd(p, e) == e \in Pointer /\ p <= e /\ chars[e] = EOS /\ \A a \in p .. e - 1 : chars[a] # EOS

LEMMA EndIs ==
    ASSUME SInv, NEW p \in Pointer
    PROVE  IsEnd(p, End(p)) /\ \A e : IsEnd(p, e) => e = End(p)
<1> DEFINE S == {e \in Pointer : e >= p /\ chars[e] = EOS}
<1>1. S \in SUBSET Nat /\ CharCount - 1 \in S /\ p \in Nat
  BY PointerIs DEF SInv
<1>2. PICK e \in S : \A x \in S : e <= x
  BY <1>1, LeastNat
<1>3. e \in Pointer /\ e >= p /\ chars[e] = EOS /\ \A a \in p .. e - 1 : chars[a] # EOS
  <2>1. ASSUME NEW a \in p .. e - 1  PROVE  chars[a] # EOS
    <3>1. a \in Pointer /\ a >= p /\ ~ (e <= a)
      BY <1>1, PointerIs
    <3> QED  BY <1>2, <3>1
  <2> QED  BY <2>1
<1>4. /\ End(p) \in Pointer /\ End(p) >= p /\ chars[End(p)] = EOS
      /\ \A a \in p .. End(p) - 1 : chars[a] # EOS
  <2> HIDE DEF S
  <2> QED  BY <1>3, Zenon DEF End
<1>5. IsEnd(p, End(p))
  BY <1>1, <1>4, PointerIs DEF IsEnd
<1>6. ASSUME NEW x, IsEnd(p, x)  PROVE  x = End(p)
  <2>1. x \in Nat /\ End(p) \in Nat /\ p \in Nat
    BY <1>1, <1>4, <1>6, PointerIs DEF IsEnd
  <2>2. ~ (x < End(p))
    BY <1>4, <1>6, <2>1 DEF IsEnd
  <2>3. ~ (End(p) < x)
    BY <1>5, <1>6, <2>1 DEF IsEnd
  <2> QED  BY <2>1, <2>2, <2>3
<1> QED  BY <1>5, <1>6

LEMMA EndFacts ==
    ASSUME SInv, NEW p \in Pointer
    PROVE  /\ p \in Nat /\ End(p) \in Nat /\ End(p) \in Pointer /\ p <= End(p)
           /\ chars[End(p)] = EOS
           /\ \A a \in Nat : p <= a /\ a < End(p) => a \in Pointer /\ chars[a] # EOS
<1>1. IsEnd(p, End(p)) /\ p \in Nat /\ End(p) \in Nat
  BY EndIs, PointerIs DEF IsEnd
<1>2. \A a \in Nat : p <= a /\ a < End(p) => a \in Pointer /\ a \in p .. End(p) - 1
  BY <1>1, PointerIs DEF IsEnd
<1> QED  BY <1>1, <1>2 DEF IsEnd

LEMMA TextIs ==
    ASSUME SInv, NEW p \in Pointer
    PROVE  /\ Text(p) \in Seq(Char) /\ Len(Text(p)) = End(p) - p /\ End(p) - p \in Nat
           /\ DOMAIN Text(p) = 1 .. End(p) - p
           /\ \A k \in 1 .. End(p) - p : Text(p)[k] = chars[p + k - 1] /\ Text(p)[k] # EOS
           /\ \A k \in 0 .. End(p) - p : p + k \in Pointer
           /\ \A k \in Nat : k < End(p) - p => chars[p + k] # EOS
<1>1. /\ p \in Nat /\ End(p) \in Nat /\ p <= End(p)
      /\ \A a \in Nat : p <= a /\ a < End(p) => a \in Pointer /\ chars[a] # EOS
      /\ End(p) <= CharCount - 1 /\ CharCount \in Nat /\ Pointer = 0 .. CharCount - 1
  BY EndFacts, PointerIs
<1>2. Text(p) = [k \in 1 .. End(p) - p |-> chars[p + k - 1]]
  BY DEF Text
<1> DEFINE n == End(p) - p
<1>3. n \in Nat
  BY <1>1
<1>4. \A k \in 1 .. n : p + k - 1 \in Nat /\ p <= p + k - 1 /\ p + k - 1 < End(p)
  BY <1>1
<1>5. \A k \in 1 .. n : chars[p + k - 1] \in Char /\ chars[p + k - 1] # EOS
  BY <1>1, <1>4, PointerIs
<1>6. \A k \in 0 .. n : p + k \in Pointer
  BY <1>1
<1>7. \A k \in Nat : k < n => p + k \in Nat /\ p <= p + k /\ p + k < End(p)
  BY <1>1
<1>8. \A k \in Nat : k < n => chars[p + k] # EOS
  BY <1>1, <1>7
<1> HIDE DEF n
<1>9. [k \in 1 .. n |-> chars[p + k - 1]] \in Seq(Char)
  BY <1>3, <1>5
<1>10. Len([k \in 1 .. n |-> chars[p + k - 1]]) = n
  BY <1>3
<1> QED  BY <1>2, <1>3, <1>5, <1>6, <1>8, <1>9, <1>10 DEF n

(* strlen counts the characters before the end. *)
LEMMA LengthIs ==
    ASSUME SInv, NEW p \in Pointer
    PROVE  strlen(chars, p) = End(p) - p
<1> DEFINE D == DOMAIN chars
           P == [k \in D |-> chars[k] # EOS]
           v == [k \in D |-> k + 1]
           past == CHOOSE past : past = [a \in D |-> IF chars[a] # EOS THEN past[a + 1] ELSE a + 1]
<1>1. /\ D = Pointer /\ D = 0 .. CharCount - 1 /\ D \in SUBSET Nat /\ CharCount \in Nat
      /\ chars[CharCount - 1] = EOS
  BY PointerIs DEF Pointer, SInv
<1> HIDE DEF D
<1>2. \A k \in D : P[k] => k + 1 \in D
  <2>1. \A k \in D : k # CharCount - 1 => k + 1 \in D
    BY <1>1
  <2> QED  BY <1>1, <2>1
<1>3. \E f : Scan(D, P, v, f)
  <2>1. P \in [D -> BOOLEAN]
    OBVIOUS
  <2> HIDE DEF P, v
  <2> QED  BY <1>1, <1>2, <2>1, ScanExists
<1>4. PICK f : Scan(D, P, v, f)
  BY <1>3
<1>5. f = [a \in D |-> IF chars[a] # EOS THEN f[a + 1] ELSE a + 1]
  BY <1>4 DEF Scan
<1>6. past = [a \in D |-> IF chars[a] # EOS THEN past[a + 1] ELSE a + 1]
  BY <1>5
<1> HIDE DEF past
<1>7. Scan(D, P, v, past)
  BY <1>6 DEF Scan
<1>8. /\ End(p) \in D /\ p \in D /\ p <= End(p) /\ ~P[End(p)]
      /\ \A x \in Nat : p <= x /\ x < End(p) => x \in D /\ P[x]
  BY <1>1, EndFacts
<1>9. past[p] = v[End(p)]
  <2>1. GoesOn(D, P, p, End(p)) /\ D \in SUBSET Nat
    BY <1>1, <1>8 DEF GoesOn
  <2> HIDE DEF P, v
  <2> QED  BY <1>7, <2>1, ScanValue
<1>10. v[End(p)] = End(p) + 1 /\ End(p) \in Nat /\ p \in Nat
  BY <1>1, <1>8
<1>11. strlen(chars, p) = past[p] - p - 1
  BY DEF strlen, past, D
<1> QED  BY <1>9, <1>10, <1>11

(* strchr stops at the first ch, or at the end.                             *)
LEMMA LeastIs ==
    ASSUME NEW S \in SUBSET Nat, NEW a \in S, \A x \in S : a <= x
    PROVE  Least(S) = a
<1>1. \E x \in S : \A y \in S : x <= y
  OBVIOUS
<1>2. Least(S) \in S /\ \A y \in S : Least(S) <= y
  BY <1>1 DEF Least
<1>3. Least(S) <= a /\ a <= Least(S) /\ a \in Nat /\ Least(S) \in Nat
  BY <1>2
<1> QED  BY <1>3

LEMMA GreatestIs ==
    ASSUME NEW S \in SUBSET Nat, NEW a \in S, \A x \in S : x <= a
    PROVE  Greatest(S) = a
<1>1. \E x \in S : \A y \in S : x >= y
  BY \A x, y \in Nat : x <= y => y >= x
<1>2. Greatest(S) \in S /\ \A y \in S : Greatest(S) >= y
  BY <1>1 DEF Greatest
<1>3. Greatest(S) >= a /\ Greatest(S) <= a /\ a \in Nat /\ Greatest(S) \in Nat
  BY <1>2
<1> QED  BY <1>3

LEMMA FirstFound ==
    ASSUME SInv, NEW p \in Pointer, NEW ch \in Char
    PROVE  strchr(chars, p, ch) = Least({a \in p .. End(p) : chars[a] = ch})
<1> DEFINE D == DOMAIN chars
           P == [k \in D |-> chars[k] # ch /\ chars[k] # EOS]
           v == [k \in D |-> k]
           at == CHOOSE at : at = [a \in D |-> IF chars[a] # ch /\ chars[a] # EOS THEN at[a + 1] ELSE a]
           S == {a \in p .. End(p) : chars[a] = ch}
           T == {a \in p .. End(p) : chars[a] = ch \/ chars[a] = EOS}
<1>1. /\ D = Pointer /\ D = 0 .. CharCount - 1 /\ D \in SUBSET Nat /\ CharCount \in Nat
      /\ chars[CharCount - 1] = EOS
  BY PointerIs DEF Pointer, SInv
<1>2. /\ p \in Nat /\ End(p) \in Nat /\ End(p) \in D /\ p <= End(p) /\ chars[End(p)] = EOS
      /\ \A a \in Nat : p <= a /\ a < End(p) => a \in D /\ chars[a] # EOS
  BY EndFacts, <1>1
<1> HIDE DEF D
<1>3. \A k \in D : P[k] => k + 1 \in D
  <2>1. \A k \in D : k # CharCount - 1 => k + 1 \in D
    BY <1>1
  <2> QED  BY <1>1, <2>1
<1>4. PICK f : Scan(D, P, v, f)
  <2>1. P \in [D -> BOOLEAN]
    OBVIOUS
  <2> HIDE DEF P, v
  <2> QED  BY <1>1, <1>3, <2>1, ScanExists
<1>5. f = [a \in D |-> IF chars[a] # ch /\ chars[a] # EOS THEN f[a + 1] ELSE a]
  BY <1>4 DEF Scan
<1>6. at = [a \in D |-> IF chars[a] # ch /\ chars[a] # EOS THEN at[a + 1] ELSE a]
  BY <1>5
<1> HIDE DEF at
<1>7. Scan(D, P, v, at)
  BY <1>6 DEF Scan
<1>8. T \in SUBSET Nat /\ End(p) \in T
  BY <1>2
<1>9. PICK j \in T : \A x \in T : j <= x
  BY <1>8, LeastNat
<1>10. j \in Nat /\ p <= j /\ j <= End(p) /\ j \in D /\ (chars[j] = ch \/ chars[j] = EOS)
  BY <1>2, <1>9
<1>11. ASSUME NEW x \in Nat, p <= x, x < j  PROVE  x \in D /\ chars[x] # ch /\ chars[x] # EOS
  <2>1. x < End(p) /\ x \in p .. End(p) /\ ~ (j <= x)
    BY <1>2, <1>10, <1>11
  <2> QED  BY <1>2, <1>9, <1>11, <2>1
<1>12. at[p] = j
  <2>1. GoesOn(D, P, p, j)
    BY <1>2, <1>1, <1>10, <1>11 DEF GoesOn
  <2>2. at[p] = v[j]
    <3> HIDE DEF P, v
    <3> QED  BY <1>1, <1>7, <2>1, ScanValue
  <2> QED  BY <1>10, <2>2
<1>13. strchr(chars, p, ch) = IF chars[at[p]] = ch THEN at[p] ELSE -1
  BY DEF strchr, at, D
<1>14. CASE chars[j] = ch
  <2>1. j \in S /\ S \in SUBSET Nat
    BY <1>2, <1>10, <1>14
  <2>2. \A x \in S : j <= x
    BY <1>9
  <2>3. Least(S) = j
    <3> HIDE DEF S
    <3> QED  BY <2>1, <2>2, LeastIs
  <2> QED  BY <1>12, <1>13, <1>14, <2>3
<1>15. CASE chars[j] # ch
  <2>1. chars[j] = EOS /\ j = End(p)
    BY <1>2, <1>10, <1>15
  <2>2. S = {}
    <3>1. ASSUME NEW x \in S  PROVE  FALSE
      <4>1. x \in Nat /\ p <= x /\ x <= End(p) /\ chars[x] = ch
        BY <1>2
      <4>2. x # j
        BY <1>15, <4>1
      <4>3. x < j
        BY <1>2, <2>1, <4>1, <4>2
      <4> QED  BY <1>11, <4>1, <4>3
    <3> QED  BY <3>1
  <2> QED  BY <1>12, <1>13, <1>15, <2>2 DEF Least
<1> QED  BY <1>14, <1>15

(* strrchr goes back from the end to the last ch, or to the beginning.      *)
LEMMA LastFound ==
    ASSUME SInv, NEW p \in Pointer, NEW ch \in Char
    PROVE  strrchr(chars, p, ch) = Greatest({a \in p .. End(p) : chars[a] = ch})
<1> DEFINE e == p + strlen(chars, p)
           D == p .. e
           S == {a \in D : chars[a] = ch}
           at == CHOOSE at : at = [a \in D |-> IF chars[a] # ch /\ a # p THEN at[a - 1] ELSE a]
           T(a) == {x \in Nat : x <= a /\ p <= x /\ (chars[x] = ch \/ x = p)}
           LastOf(X) == CHOOSE x \in X : \A y \in X : x >= y
           f == [a \in D |-> LastOf(T(a))]
<1>0. e = End(p)
  BY EndFacts, LengthIs
<1>1. p \in Nat /\ e \in Nat /\ p <= e
  BY <1>0, EndFacts
<1> HIDE DEF e
<1>2. ASSUME NEW a \in D  PROVE  LastOf(T(a)) \in T(a) /\ \A y \in T(a) : LastOf(T(a)) >= y
  <2> DEFINE U == {a - x : x \in T(a)}
  <2>0. a \in Nat /\ p <= a
    BY <1>1
  <2>1. U \in SUBSET Nat /\ a - p \in U
    BY <1>1, <2>0
  <2>2. PICK u \in U : \A y \in U : u <= y
    BY <2>1, LeastNat
  <2>3. PICK x \in T(a) : u = a - x
    BY <2>2
  <2>4. \A y \in T(a) : x >= y
    <3> TAKE y \in T(a)
    <3>1. a - y \in U
      OBVIOUS
    <3>2. u <= a - y /\ x \in Nat /\ y \in Nat
      BY <2>2, <3>1
    <3> QED  BY <2>0, <2>3, <3>2
  <2> HIDE DEF T
  <2> QED  BY <2>4
<1>3. ASSUME NEW a \in D  PROVE  f[a] = IF chars[a] # ch /\ a # p THEN f[a - 1] ELSE a
  <2>1. a \in Nat /\ p <= a /\ a <= e
    BY <1>1
  <2>2. CASE chars[a] # ch /\ a # p
    <3>1. a - 1 \in D
      BY <1>1, <2>1, <2>2
    <3>2. T(a) = T(a - 1)
      <4>1. \A x \in Nat : x <= a /\ (chars[x] = ch \/ x = p) => x <= a - 1
        BY <2>1, <2>2
      <4>2. \A x \in Nat : x <= a - 1 => x <= a
        BY <2>1
      <4> QED  BY <4>1, <4>2
    <3> HIDE DEF T, LastOf
    <3> QED  BY <2>2, <3>1, <3>2
  <2>3. CASE ~ (chars[a] # ch /\ a # p)
    <3>1. a \in T(a)
      BY <2>1, <2>3
    <3>2. LastOf(T(a)) \in Nat /\ LastOf(T(a)) <= a /\ LastOf(T(a)) >= a
      BY <1>2, <3>1
    <3>3. LastOf(T(a)) = a
      BY <2>1, <3>2
    <3> HIDE DEF T, LastOf
    <3> QED  BY <2>3, <3>3
  <2> QED  BY <2>2, <2>3
<1>4. f = [a \in D |-> IF chars[a] # ch /\ a # p THEN f[a - 1] ELSE a]
  <2>1. f = [a \in D |-> f[a]]
    OBVIOUS
  <2> HIDE DEF f
  <2> QED  BY <1>3, <2>1
<1> HIDE DEF f
<1>5. at = [a \in D |-> IF chars[a] # ch /\ a # p THEN at[a - 1] ELSE a]
  BY <1>4
<1> HIDE DEF at
<1>6. \A a \in D : at[a] = IF chars[a] # ch /\ a # p THEN at[a - 1] ELSE a
  BY <1>5
<1> DEFINE B == {a \in D : at[a] # LastOf(T(a))}
<1>7. B = {}
  <2> SUFFICES ASSUME B # {}  PROVE  FALSE
    OBVIOUS
  <2>1. B \in SUBSET Nat
    BY <1>1
  <2>2. PICK a \in B : \A x \in B : a <= x
    BY <2>1, LeastNat
  <2>3. a \in D /\ a \in Nat /\ p <= a /\ a <= e /\ at[a] # LastOf(T(a))
    BY <1>1, <2>2
  <2>4. f[a] = LastOf(T(a))
    BY <2>3 DEF f
  <2> HIDE DEF T, LastOf
  <2>5. CASE chars[a] # ch /\ a # p
    <3>1. a - 1 \in D /\ a - 1 \notin B
      BY <1>1, <2>2, <2>3, <2>5
    <3>2. at[a - 1] = f[a - 1]
      BY <3>1 DEF f
    <3> QED  BY <1>3, <1>6, <2>3, <2>4, <2>5, <3>2
  <2>6. CASE ~ (chars[a] # ch /\ a # p)
    BY <1>3, <1>6, <2>3, <2>4, <2>6
  <2> QED  BY <2>5, <2>6
<1>8. e \in D
  BY <1>1
<1>9. at[e] = LastOf(T(e))
  <2> HIDE DEF T, LastOf
  <2> QED  BY <1>7, <1>8
<1>10. strrchr(chars, p, ch) = IF chars[at[e]] = ch THEN at[e] ELSE -1
  BY DEF strrchr, at, e
<1>11. at[e] \in T(e) /\ \A y \in T(e) : at[e] >= y
  <2> HIDE DEF T, LastOf
  <2> QED  BY <1>2, <1>8, <1>9
<1>12. CASE chars[at[e]] = ch
  <2>1. at[e] \in S /\ S \in SUBSET Nat
    BY <1>1, <1>11, <1>12
  <2>2. \A x \in S : x <= at[e]
    <3> TAKE x \in S
    <3>1. x \in T(e)
      BY <1>1
    <3> QED  BY <1>11, <3>1
  <2>3. Greatest(S) = at[e]
    <3> HIDE DEF S
    <3> QED  BY <2>1, <2>2, GreatestIs
  <2> QED  BY <1>0, <1>10, <1>12, <2>3
<1>13. CASE chars[at[e]] # ch
  <2>1. at[e] = p
    BY <1>11, <1>13
  <2>2. S = {}
    <3>1. ASSUME NEW x \in S  PROVE  FALSE
      <4>1. x \in T(e) /\ x \in Nat /\ p <= x /\ chars[x] = ch
        BY <1>1
      <4>2. x = p
        BY <1>1, <1>11, <2>1, <4>1
      <4> QED  BY <1>13, <2>1, <4>1, <4>2
    <3> QED  BY <3>1
  <2> QED  BY <1>0, <1>10, <1>13, <2>2 DEF Greatest
<1> QED  BY <1>12, <1>13

-----------------------------------------------------------------------------
(* Copies.  What has been written after k characters, the k-th from s[k] to *)
(* d[k].                                                                    *)
Copies(m, N, d, s, f) ==
    f = [k \in 0 .. N |->
            IF k = 0 THEN m ELSE [f[k - 1] EXCEPT ![d[k]] = f[k - 1][s[k]]]]

LEMMA CopiesExist ==
    ASSUME NEW m, NEW N \in Nat, NEW d, NEW s
    PROVE  \E f : Copies(m, N, d, s, f)
<1> DEFINE S == {n \in Nat : ~ \E f : Copies(m, n, d, s, f)}
           next(c, k) == [c EXCEPT ![d[k]] = c[s[k]]]
<1> HIDE DEF next
<1> SUFFICES ASSUME S # {}  PROVE  FALSE
  OBVIOUS
<1>1. PICK n \in S : \A x \in S : n <= x
  BY LeastNat
<1>2. CASE n = 0
  <2> DEFINE f == [k \in 0 .. 0 |-> m]
  <2>1. f = [k \in 0 .. 0 |-> IF k = 0 THEN m ELSE next(f[k - 1], k)]
    OBVIOUS
  <2> QED  BY <1>1, <1>2, <2>1 DEF Copies, next
<1>3. CASE n # 0
  <2>1. n \in Nat /\ n - 1 \in Nat /\ n - 1 \notin S
    BY <1>1, <1>3
  <2>2. PICK f : Copies(m, n - 1, d, s, f)
    BY <2>1
  <2>3. f = [k \in 0 .. n - 1 |-> IF k = 0 THEN m ELSE next(f[k - 1], k)]
    BY <2>2 DEF Copies, next
  <2> DEFINE g == [k \in 0 .. n |-> IF k = n THEN next(f[n - 1], n) ELSE f[k]]
  <2>4. ASSUME NEW k \in 0 .. n
        PROVE  g[k] = IF k = 0 THEN m ELSE next(g[k - 1], k)
    <3>1. CASE k = n
      BY <1>3, <2>1, <3>1
    <3>2. CASE k # n
      <4>1. k \in 0 .. n - 1 /\ g[k] = f[k]
        BY <2>1, <3>2
      <4>2. k # 0 => k - 1 \in 0 .. n /\ k - 1 # n /\ g[k - 1] = f[k - 1]
        BY <2>1, <4>1
      <4>3. f[k] = IF k = 0 THEN m ELSE next(f[k - 1], k)
        BY <2>3, <4>1
      <4> QED  BY <4>1, <4>2, <4>3
    <3> QED  BY <3>1, <3>2
  <2>5. g = [k \in 0 .. n |-> IF k = 0 THEN m ELSE next(g[k - 1], k)]
    <3>1. g = [k \in 0 .. n |-> g[k]]
      OBVIOUS
    <3> HIDE DEF g
    <3> QED  BY <2>4, <3>1
  <2>6. Copies(m, n, d, s, g)
    BY <2>5 DEF Copies, next
  <2> QED  BY <1>1, <2>6
<1> QED  BY <1>2, <1>3

Contents(D, V, m) == m \in [D -> V]

(* No character is written before it is read, and none twice.               *)
InOrder(D, d, s, n) ==
    /\ \A k \in 1 .. n : d[k] \in D /\ s[k] \in D
    /\ \A k \in 1 .. n : \A x \in 1 .. k - 1 : d[x] # s[k] /\ d[x] # d[k]

(* Then the first n copies are those of the memory as it was.               *)
LEMMA CopiesCopy ==
    ASSUME NEW D, NEW V, NEW m, Contents(D, V, m), NEW N \in Nat, NEW d, NEW s, NEW f,
           Copies(m, N, d, s, f), NEW n \in 0 .. N,
           InOrder(D, d, s, n)
    PROVE  /\ Contents(D, V, f[n])
           /\ \A k \in 1 .. n : f[n][d[k]] = m[s[k]]
           /\ \A a \in D : (\A k \in 1 .. n : d[k] # a) => f[n][a] = m[a]
<1> DEFINE Right(j) == /\ Contents(D, V, f[j])
                       /\ \A k \in 1 .. j : f[j][d[k]] = m[s[k]]
                       /\ \A a \in D : (\A k \in 1 .. j : d[k] # a) => f[j][a] = m[a]
           S == {j \in 0 .. n : ~Right(j)}
<1>0. /\ n \in Nat /\ n <= N
      /\ \A k \in 1 .. n : d[k] \in D /\ s[k] \in D
      /\ \A k \in 1 .. n : \A x \in 1 .. k - 1 : d[x] # s[k] /\ d[x] # d[k]
  BY DEF InOrder
<1>1. f[0] = m /\ \A k \in 1 .. N : f[k] = [f[k - 1] EXCEPT ![d[k]] = f[k - 1][s[k]]]
  <2>1. 0 \in 0 .. N /\ \A k \in 1 .. N : k \in 0 .. N /\ k # 0
    OBVIOUS
  <2>2. \A k \in 0 .. N : f[k] = IF k = 0 THEN m ELSE [f[k - 1] EXCEPT ![d[k]] = f[k - 1][s[k]]]
    BY DEF Copies
  <2> QED  BY <2>1, <2>2
<1>2. S = {}
  <2> SUFFICES ASSUME S # {}  PROVE  FALSE
    OBVIOUS
  <2>1. S \in SUBSET Nat
    BY <1>0
  <2>2. PICK j \in S : \A x \in S : j <= x
    BY <2>1, LeastNat
  <2>3. CASE j = 0
    BY <1>1, <2>2, <2>3
  <2>4. CASE j # 0
    <3>1. j \in 1 .. n /\ j \in 1 .. N /\ j - 1 \in 0 .. n /\ j - 1 \notin S /\ j \in Nat
      BY <1>0, <2>2, <2>4
    <3>2. Right(j - 1)
      BY <3>1
    <3>3. f[j] = [f[j - 1] EXCEPT ![d[j]] = f[j - 1][s[j]]]
      BY <1>1, <3>1
    <3>4. d[j] \in D /\ s[j] \in D
      BY <1>0, <3>1
    <3>5. f[j - 1][s[j]] = m[s[j]]
      <4>1. \A x \in 1 .. j - 1 : d[x] # s[j]
        BY <1>0, <3>1
      <4> QED  BY <3>2, <3>4, <4>1
    <3>6. Contents(D, V, f[j]) /\ f[j][d[j]] = m[s[j]]
      <4>1. m[s[j]] \in V
        BY <3>4 DEF Contents
      <4> QED  BY <3>2, <3>3, <3>4, <3>5, <4>1 DEF Contents
    <3>7. \A a \in D : a # d[j] => f[j][a] = f[j - 1][a]
      BY <3>2, <3>3 DEF Contents
    <3>8. ASSUME NEW k \in 1 .. j  PROVE  f[j][d[k]] = m[s[k]]
      <4>1. CASE k = j
        BY <3>6, <4>1
      <4>2. CASE k # j
        <5>1. k \in 1 .. j - 1 /\ k \in 1 .. n
          BY <3>1, <4>2
        <5>2. d[k] \in D /\ d[k] # d[j]
          BY <1>0, <3>1, <5>1
        <5> QED  BY <3>2, <3>7, <5>1, <5>2
      <4> QED  BY <4>1, <4>2
    <3>9. ASSUME NEW a \in D, \A k \in 1 .. j : d[k] # a  PROVE  f[j][a] = m[a]
      <4>1. a # d[j] /\ \A k \in 1 .. j - 1 : d[k] # a
        BY <3>1, <3>9
      <4> QED  BY <3>2, <3>7, <4>1
    <3> QED  BY <2>2, <3>6, <3>8, <3>9
  <2> QED  BY <2>3, <2>4
<1>3. n \in 0 .. n
  BY <1>0
<1> QED  BY <1>2, <1>3

(* The same for consecutive characters from src to dest: Copied, when what  *)
(* is read is never written.                                                *)
LEMMA CopiedCopies ==
    ASSUME SInv, NEW dest \in Pointer, NEW src \in Pointer, NEW n \in Nat,
           dest + n <= CharCount, src + n <= CharCount,
           dest <= src \/ src + n <= dest
    PROVE  /\ Copied(chars, dest, src)[n] \in [Pointer -> Char]
           /\ \A a \in Pointer :
                Copied(chars, dest, src)[n][a] =
                    IF dest <= a /\ a < dest + n THEN chars[src + (a - dest)] ELSE chars[a]
<1> DEFINE N == Cardinality(DOMAIN chars)
           d == [k \in Nat |-> dest + k - 1]
           s == [k \in Nat |-> src + k - 1]
           from == CHOOSE from : from = [k \in 0 .. N |->
                        IF k = 0 THEN chars
                        ELSE [from[k - 1] EXCEPT ![dest + k - 1] = from[k - 1][src + k - 1]]]
<1>1. /\ N = CharCount /\ N \in Nat /\ dest \in Nat /\ src \in Nat
      /\ Pointer = 0 .. N - 1 /\ chars \in [Pointer -> Char]
  <2>1. Pointer = DOMAIN chars
    BY DEF Pointer
  <2> QED  BY <2>1, PointerIs DEF SInv
<1> HIDE DEF N
<1>2. \A k \in 0 .. N : k # 0 => k \in Nat /\ d[k] = dest + k - 1 /\ s[k] = src + k - 1
  BY <1>1
<1> HIDE DEF d, s
<1>3. PICK f : Copies(chars, N, d, s, f)
  BY <1>1, CopiesExist
<1>4. f = [k \in 0 .. N |-> IF k = 0 THEN chars
                            ELSE [f[k - 1] EXCEPT ![dest + k - 1] = f[k - 1][src + k - 1]]]
  BY <1>2, <1>3 DEF Copies
<1>5. from = [k \in 0 .. N |-> IF k = 0 THEN chars
                               ELSE [from[k - 1] EXCEPT ![dest + k - 1] = from[k - 1][src + k - 1]]]
  BY <1>4
<1> HIDE DEF from
<1>6. Copies(chars, N, d, s, from)
  BY <1>2, <1>5 DEF Copies
<1>7. n \in 0 .. N
  BY <1>1
<1>8. \A k \in 1 .. n : /\ k \in Nat /\ d[k] = dest + k - 1 /\ s[k] = src + k - 1
                        /\ d[k] \in Pointer /\ s[k] \in Pointer
  BY <1>1, <1>2
<1>9. \A k \in 1 .. n : \A x \in 1 .. k - 1 : d[x] # s[k] /\ d[x] # d[k]
  <2> TAKE k \in 1 .. n
  <2> TAKE x \in 1 .. k - 1
  <2>1. x \in 1 .. n /\ x < k /\ x \in Nat /\ k \in Nat /\ k <= n /\ 1 <= x
    OBVIOUS
  <2> QED  BY <1>1, <1>8, <2>1
<1>10. /\ from[n] \in [Pointer -> Char]
       /\ \A k \in 1 .. n : from[n][d[k]] = chars[s[k]]
       /\ \A a \in Pointer : (\A k \in 1 .. n : d[k] # a) => from[n][a] = chars[a]
  <2>1. InOrder(Pointer, d, s, n)
    BY <1>8, <1>9 DEF InOrder
  <2>2. Contents(Pointer, Char, chars) /\ N \in Nat
    BY <1>1 DEF Contents
  <2>3. /\ Contents(Pointer, Char, from[n])
        /\ \A k \in 1 .. n : from[n][d[k]] = chars[s[k]]
        /\ \A a \in Pointer : (\A k \in 1 .. n : d[k] # a) => from[n][a] = chars[a]
    BY <1>6, <1>7, <2>1, <2>2, CopiesCopy
  <2> QED  BY <2>3 DEF Contents
<1>11. Copied(chars, dest, src) = from
  BY DEF Copied, from, N
<1>12. ASSUME NEW a \in Pointer
       PROVE  from[n][a] = IF dest <= a /\ a < dest + n THEN chars[src + (a - dest)] ELSE chars[a]
  <2>0. a \in Nat
    BY <1>1
  <2>1. CASE dest <= a /\ a < dest + n
    <3>1. a - dest + 1 \in 1 .. n
      BY <1>1, <2>0, <2>1
    <3>2. d[a - dest + 1] = a /\ s[a - dest + 1] = src + (a - dest)
      BY <1>1, <1>8, <2>0, <3>1
    <3> QED  BY <1>10, <2>1, <3>1, <3>2
  <2>2. CASE ~ (dest <= a /\ a < dest + n)
    <3>1. \A k \in 1 .. n : d[k] # a
      BY <1>1, <1>8, <2>0, <2>2
    <3> QED  BY <1>10, <2>2, <3>1
  <2> QED  BY <2>1, <2>2
<1> QED  BY <1>10, <1>11, <1>12

-----------------------------------------------------------------------------
(* Copies of strings.                                                       *)
Moved(dest, src, n) ==
    [a \in Pointer |-> IF dest <= a /\ a < dest + n THEN chars[src + (a - dest)] ELSE chars[a]]

LEMMA MovedIs ==
    ASSUME SInv, NEW dest \in Pointer, NEW src \in Pointer, NEW n \in Nat,
           dest + n <= CharCount, src + n <= CharCount,
           dest <= src \/ src + n <= dest
    PROVE  Copied(chars, dest, src)[n] = Moved(dest, src, n)
<1> DEFINE c == Copied(chars, dest, src)[n]
<1>1. /\ c \in [Pointer -> Char]
      /\ \A a \in Pointer :
            c[a] = IF dest <= a /\ a < dest + n THEN chars[src + (a - dest)] ELSE chars[a]
  BY CopiedCopies
<1> HIDE DEF c
<1>2. c = [a \in Pointer |-> c[a]]
  BY <1>1
<1>3. c = Moved(dest, src, n)
  BY <1>1, <1>2 DEF Moved
<1> QED  BY <1>3 DEF c

LEMMA MovedAt ==
    ASSUME SInv, NEW dest \in Pointer, NEW src \in Pointer, NEW n \in Nat,
           NEW x \in Pointer, x < dest \/ dest + n <= x
    PROVE  Moved(dest, src, n)[x] = chars[x]
<1>1. dest \in Nat /\ x \in Nat
  BY PointerIs
<1> QED  BY <1>1 DEF Moved

(* What the loops of strcpy and strncpy see: the source, as it was.         *)
LEMMA SourceKept ==
    ASSUME SInv, NEW dest \in Pointer, NEW src \in Pointer, NEW k \in Nat, 1 <= k,
           k <= End(src) - src + 1,
           dest + (End(src) - src + 1) < CharCount,
           dest + (End(src) - src + 1) <= src \/ src + (End(src) - src + 1) <= dest
    PROVE  /\ Copied(chars, dest, src)[k] = Moved(dest, src, k)
           /\ Copied(chars, dest, src)[k][src + k - 1] = chars[src + k - 1]
           /\ chars[src + k - 1] = EOS <=> k = End(src) - src + 1
<1>1. /\ dest \in Nat /\ src \in Nat /\ End(src) \in Nat /\ src <= End(src)
      /\ End(src) <= CharCount - 1 /\ CharCount \in Nat /\ Pointer = 0 .. CharCount - 1
      /\ chars[End(src)] = EOS
      /\ \A a \in Nat : src <= a /\ a < End(src) => chars[a] # EOS
  BY EndFacts, PointerIs
<1>2. Copied(chars, dest, src)[k] = Moved(dest, src, k)
  <2>1. dest + k <= CharCount /\ src + k <= CharCount /\ (dest <= src \/ src + k <= dest)
    BY <1>1
  <2> QED  BY <2>1, MovedIs
<1>3. src + k - 1 \in Pointer /\ (src + k - 1 < dest \/ dest + k <= src + k - 1)
  BY <1>1
<1>4. Moved(dest, src, k)[src + k - 1] = chars[src + k - 1]
  BY <1>3, MovedAt
<1>5. chars[src + k - 1] = EOS <=> k = End(src) - src + 1
  <2>1. k # End(src) - src + 1 => src + k - 1 \in Nat /\ src <= src + k - 1 /\ src + k - 1 < End(src)
    BY <1>1
  <2>2. k = End(src) - src + 1 => src + k - 1 = End(src)
    BY <1>1, SMTT(30)
  <2> QED  BY <1>1, <2>1, <2>2
<1> QED  BY <1>2, <1>4, <1>5

LEMMA CopyIs ==
    ASSUME SInv, NEW dest \in Pointer, NEW src \in Pointer, NEW L, L = End(src) - src,
           dest + (L + 1) < CharCount, dest + (L + 1) <= src \/ src + (L + 1) <= dest
    PROVE  strcpy(chars, dest, src) = Moved(dest, src, L + 1)
<1> DEFINE c == Copied(chars, dest, src)
           P == [k \in Nat |-> c[k][src + k - 1] # EOS]
           done == CHOOSE done : done = [k \in Nat |->
                        IF c[k][src + k - 1] # EOS THEN done[k + 1] ELSE c[k]]
<1>1. L \in Nat
  BY EndFacts
<1>2. \A k \in Nat : 1 <= k /\ k <= L + 1 =>
            /\ c[k] = Moved(dest, src, k)
            /\ c[k][src + k - 1] = EOS <=> k = L + 1
  <2> TAKE k \in Nat
  <2> HAVE 1 <= k /\ k <= L + 1
  <2>1. /\ Copied(chars, dest, src)[k] = Moved(dest, src, k)
        /\ Copied(chars, dest, src)[k][src + k - 1] = chars[src + k - 1]
        /\ chars[src + k - 1] = EOS <=> k = L + 1
    BY SourceKept
  <2> QED  BY <2>1
<1> HIDE DEF c
<1>3. \E f : Scan(Nat, P, c, f)
  <2>1. P \in [Nat -> BOOLEAN] /\ \A k \in Nat : P[k] => k + 1 \in Nat
    OBVIOUS
  <2> HIDE DEF P
  <2> QED  BY <2>1, ScanExists
<1>4. PICK f : Scan(Nat, P, c, f)
  BY <1>3
<1>5. f = [k \in Nat |-> IF c[k][src + k - 1] # EOS THEN f[k + 1] ELSE c[k]]
  BY <1>4 DEF Scan
<1>6. done = [k \in Nat |-> IF c[k][src + k - 1] # EOS THEN done[k + 1] ELSE c[k]]
  BY <1>5
<1> HIDE DEF done
<1>7. Scan(Nat, P, c, done)
  BY <1>6 DEF Scan
<1>8. GoesOn(Nat, P, 1, L + 1)
  <2>0. \A x \in Nat : P[x] = (c[x][src + x - 1] # EOS)
    OBVIOUS
  <2> HIDE DEF P
  <2>1. P[L + 1] = FALSE
    <3>1. L + 1 \in Nat /\ 1 <= L + 1 /\ L + 1 <= L + 1
      BY <1>1
    <3>2. c[L + 1][src + (L + 1) - 1] = EOS
      BY <1>2, <3>1
    <3> QED  BY <2>0, <3>1, <3>2
  <2>2. ASSUME NEW x \in Nat, 1 <= x, x < L + 1  PROVE  P[x] = TRUE
    <3>1. x <= L + 1 /\ x # L + 1
      BY <1>1, <2>2
    <3>2. c[x][src + x - 1] # EOS
      BY <1>2, <2>2, <3>1
    <3> QED  BY <2>0, <3>2
  <2>3. 1 \in Nat /\ L + 1 \in Nat /\ 1 <= L + 1
    BY <1>1
  <2>4. \A x \in Nat : 1 <= x /\ x < L + 1 => x \in Nat /\ P[x] = TRUE
    BY <2>2
  <2> HIDE DEF P
  <2> QED  BY <2>1, <2>3, <2>4 DEF GoesOn
<1>9. done[1] = c[L + 1]
  <2> HIDE DEF P
  <2> QED  BY <1>7, <1>8, ScanValue
<1>10. strcpy(chars, dest, src) = done[1]
  BY DEF strcpy, done, c
<1>11. c[L + 1] = Moved(dest, src, L + 1)
  BY <1>1, <1>2
<1> QED  BY <1>9, <1>10, <1>11

LEMMA CopyAgrees ==
    ASSUME SInv, NEW p \in Pointer, NEW q \in Pointer, CanCopy(chars, p, q)
    PROVE  /\ strcpy(chars, p, q) = Moved(p, q, End(q) - q + 1)
           /\ strcpy(chars, p, q) = With(p, Append(Text(q), EOS))
           /\ p + (End(q) - q + 1) < CharCount
<1> DEFINE L == End(q) - q
           u == Append(Text(q), EOS)
<1>1. /\ p \in Nat /\ q \in Nat /\ L \in Nat /\ CharCount \in Nat
      /\ Cardinality(Pointer) = CharCount /\ Pointer \in SUBSET Nat
  BY PointerIs, EndFacts
<1>2. strlen(chars, q) = L
  BY LengthIs
<1>3. p + (L + 1) < CharCount /\ (p + (L + 1) <= q \/ q + (L + 1) <= p)
  BY <1>1, <1>2 DEF CanCopy, Fits, Apart
<1>4. strcpy(chars, p, q) = Moved(p, q, L + 1)
  BY <1>3, CopyIs
<1>5. /\ DOMAIN u = 1 .. L + 1 /\ u[L + 1] = EOS
      /\ \A k \in 1 .. L : u[k] = chars[q + k - 1]
  BY <1>1, TextIs
<1>6. chars[q + L] = EOS
  <2>1. q + L = End(q)
    BY <1>1, EndFacts
  <2> QED  BY <2>1, EndFacts
<1>7. ASSUME NEW a \in Pointer
      PROVE  (IF p <= a /\ a < p + (L + 1) THEN chars[q + (a - p)] ELSE chars[a])
                = (IF a - p + 1 \in DOMAIN u THEN u[a - p + 1] ELSE chars[a])
  <2> HIDE DEF L, u
  <2>0. a \in Nat
    BY <1>1
  <2>1. p <= a /\ a < p + (L + 1) <=> a - p + 1 \in DOMAIN u
    BY <1>1, <1>5, <2>0
  <2>2. CASE p <= a /\ a < p + L
    <3>1. a - p + 1 \in 1 .. L /\ q + (a - p + 1) - 1 = q + (a - p)
      BY <1>1, <2>0, <2>2
    <3>2. u[a - p + 1] = chars[q + (a - p)]
      BY <1>5, <3>1
    <3> QED  BY <2>1, <3>2
  <2>3. CASE a = p + L
    <3>1. a - p + 1 = L + 1 /\ a - p = L
      BY <1>1, <2>0, <2>3
    <3> QED  BY <1>5, <1>6, <2>1, <3>1
  <2>4. CASE ~ (p <= a /\ a < p + (L + 1))
    BY <2>1, <2>4
  <2> QED  BY <1>1, <2>0, <2>2, <2>3, <2>4
<1>8. Moved(p, q, L + 1) = With(p, u)
  <2> HIDE DEF L, u
  <2> QED  BY <1>7 DEF Moved, With
<1> QED  BY <1>3, <1>4, <1>8

LEMMA CatAgrees ==
    ASSUME SInv, NEW p \in Pointer, NEW q \in Pointer, CanCat(chars, p, q)
    PROVE  /\ strcat(chars, p, q) = Moved(End(p), q, End(q) - q + 1)
           /\ strcat(chars, p, q) = With(p, Text(p) \o Append(Text(q), EOS))
           /\ End(p) + (End(q) - q + 1) < CharCount
<1> DEFINE L == End(q) - q
           l == End(p) - p
           u == Append(Text(q), EOS)
           w == Text(p) \o u
<1>1. /\ p \in Nat /\ q \in Nat /\ L \in Nat /\ l \in Nat /\ CharCount \in Nat
      /\ Cardinality(Pointer) = CharCount /\ Pointer \in SUBSET Nat
      /\ End(p) = p + l /\ End(p) \in Pointer
  BY PointerIs, EndFacts
<1>2. strlen(chars, q) = L /\ strlen(chars, p) = l
  BY LengthIs
<1>3. p + (l + (L + 1)) < CharCount /\ (p + (l + (L + 1)) <= q \/ q + (L + 1) <= p)
  BY <1>1, <1>2 DEF CanCat, Fits, Apart
<1>4. End(p) + (L + 1) < CharCount /\ (End(p) + (L + 1) <= q \/ q + (L + 1) <= End(p))
  BY <1>1, <1>3
<1>5. strcat(chars, p, q) = Moved(End(p), q, L + 1)
  <2>1. strcpy(chars, End(p), q) = Moved(End(p), q, L + 1)
    BY <1>1, <1>4, CopyIs
  <2> QED  BY <1>1, <1>2, <2>1 DEF strcat
<1>6. /\ Text(p) \in Seq(Char) /\ u \in Seq(Char) /\ Len(Text(p)) = l /\ Len(u) = L + 1
      /\ u[L + 1] = EOS
      /\ \A k \in 1 .. L : u[k] = chars[q + k - 1]
      /\ \A k \in 1 .. l : Text(p)[k] = chars[p + k - 1]
  BY <1>1, TextIs, StringsAssumption
<1>7. chars[q + L] = EOS
  <2>1. q + L = End(q)
    BY <1>1, EndFacts
  <2> QED  BY <2>1, EndFacts
<1> HIDE DEF u
<1>8. /\ DOMAIN w = 1 .. l + (L + 1)
      /\ \A k \in 1 .. l : w[k] = chars[p + k - 1]
      /\ \A k \in 1 .. L + 1 : w[l + k] = u[k]
  <2> DEFINE t == Text(p)
  <2> HIDE DEF t, L, l
  <2>1. t \in Seq(Char) /\ u \in Seq(Char) /\ Len(t) = l /\ Len(u) = L + 1 /\ L \in Nat /\ l \in Nat
    BY <1>1, <1>6 DEF t
  <2>2. /\ DOMAIN (t \o u) = 1 .. l + (L + 1)
        /\ \A k \in 1 .. l : (t \o u)[k] = t[k]
        /\ \A k \in 1 .. L + 1 : (t \o u)[l + k] = u[k]
    BY <2>1
  <2> QED  BY <1>6, <2>2 DEF t
<1> HIDE DEF L, l, w
<1>9. ASSUME NEW a \in Pointer
      PROVE  (IF End(p) <= a /\ a < End(p) + (L + 1) THEN chars[q + (a - End(p))] ELSE chars[a])
                = (IF a - p + 1 \in DOMAIN w THEN w[a - p + 1] ELSE chars[a])
  <2>0. a \in Nat
    BY <1>1
  <2>1. CASE a < p
    <3>1. a - p + 1 \notin DOMAIN w
      BY <1>1, <1>8, <2>0, <2>1
    <3> QED  BY <1>1, <2>0, <2>1, <3>1
  <2>2. CASE p <= a /\ a < End(p)
    <3>1. a - p + 1 \in 1 .. l /\ p + (a - p + 1) - 1 = a /\ a - p + 1 \in DOMAIN w
      BY <1>1, <1>8, <2>0, <2>2
    <3>2. w[a - p + 1] = chars[a]
      BY <1>8, <3>1
    <3>3. ~ (End(p) <= a)
      BY <1>1, <2>0, <2>2
    <3> QED  BY <3>1, <3>2, <3>3
  <2>3. CASE End(p) <= a /\ a < End(p) + (L + 1)
    <3> DEFINE k == a - End(p) + 1
    <3>1. k \in 1 .. L + 1 /\ a - p + 1 = l + k /\ a - p + 1 \in DOMAIN w /\ a - End(p) = k - 1
      BY <1>1, <1>8, <2>0, <2>3
    <3> HIDE DEF k
    <3>2. w[a - p + 1] = u[k]
      BY <1>8, <3>1
    <3>3. u[k] = chars[q + (k - 1)]
      <4>1. CASE k = L + 1
        BY <1>1, <1>6, <1>7, <4>1
      <4>2. CASE k # L + 1
        <5>1. k \in 1 .. L /\ q + k - 1 = q + (k - 1)
          BY <1>1, <3>1, <4>2
        <5> QED  BY <1>6, <5>1
      <4> QED  BY <4>1, <4>2
    <3> QED  BY <2>3, <3>1, <3>2, <3>3
  <2>4. CASE End(p) + (L + 1) <= a
    <3>1. a - p + 1 \notin DOMAIN w /\ ~ (a < End(p) + (L + 1))
      BY <1>1, <1>8, <2>0, <2>4
    <3> QED  BY <3>1
  <2> QED  BY <1>1, <2>0, <2>1, <2>2, <2>3, <2>4
<1>10. Moved(End(p), q, L + 1) = With(p, w)
  BY <1>9 DEF Moved, With
<1> QED  BY <1>4, <1>5, <1>10 DEF L, w, u

LEMMA PadAgrees ==
    ASSUME SInv, NEW p \in Pointer, NEW q \in Pointer, NEW n \in Nat, CanPad(chars, p, q, n)
    PROVE  strncpy(chars, p, q, n)
                = With(p, [k \in 1 .. n + 1 |-> IF k <= Len(Text(q)) THEN Text(q)[k] ELSE EOS])
<1> DEFINE L == End(q) - q
           c == Copied(chars, p, q)
           P == [k \in Nat |-> c[k][q + k - 1] # EOS /\ n # k - 1]
           v == [k \in Nat |-> k]
           stop == CHOOSE stop : stop = [k \in Nat |->
                        IF c[k][q + k - 1] # EOS /\ n # k - 1 THEN stop[k + 1] ELSE k]
           u == [k \in 1 .. n + 1 |-> IF k <= Len(Text(q)) THEN Text(q)[k] ELSE EOS]
<1>1. /\ p \in Nat /\ q \in Nat /\ L \in Nat /\ CharCount \in Nat
      /\ Cardinality(Pointer) = CharCount /\ Pointer \in SUBSET Nat /\ DOMAIN chars = Pointer
  BY PointerIs, EndFacts DEF Pointer
<1>2. strlen(chars, q) = L
  BY LengthIs
<1>3. L <= n /\ p + (n + 1) < CharCount /\ (p + (n + 1) <= q \/ q + (L + 1) <= p)
  BY <1>1, <1>2 DEF CanPad, Fits, Apart
<1>4. \A k \in Nat : 1 <= k /\ k <= L + 1 =>
            /\ c[k] = Moved(p, q, k)
            /\ c[k][q + k - 1] = EOS <=> k = L + 1
  <2> TAKE k \in Nat
  <2> HAVE 1 <= k /\ k <= L + 1
  <2>0. p + (L + 1) < CharCount /\ (p + (L + 1) <= q \/ q + (L + 1) <= p)
    BY <1>1, <1>3
  <2>1. /\ Copied(chars, p, q)[k] = Moved(p, q, k)
        /\ Copied(chars, p, q)[k][q + k - 1] = chars[q + k - 1]
        /\ chars[q + k - 1] = EOS <=> k = L + 1
    BY <2>0, SourceKept
  <2> QED  BY <2>1
<1>5. /\ DOMAIN u = 1 .. n + 1
      /\ \A k \in 1 .. n + 1 : u[k] = IF k <= L THEN chars[q + k - 1] ELSE EOS
  <2>1. Len(Text(q)) = L /\ \A k \in 1 .. L : Text(q)[k] = chars[q + k - 1]
    BY <1>1, TextIs
  <2>2. \A k \in 1 .. n + 1 : k <= L => k \in 1 .. L
    BY <1>1
  <2> QED  BY <2>1, <2>2
<1>6. chars[q + L] = EOS
  <2>1. q + L = End(q)
    BY <1>1, EndFacts
  <2> QED  BY <2>1, EndFacts
<1> HIDE DEF c, u, L
<1>7. \E f : Scan(Nat, P, v, f)
  <2>1. P \in [Nat -> BOOLEAN] /\ \A k \in Nat : P[k] => k + 1 \in Nat
    OBVIOUS
  <2> HIDE DEF P, v
  <2> QED  BY <2>1, ScanExists
<1>8. PICK f : Scan(Nat, P, v, f)
  BY <1>7
<1>9. f = [k \in Nat |-> IF c[k][q + k - 1] # EOS /\ n # k - 1 THEN f[k + 1] ELSE k]
  BY <1>8 DEF Scan
<1>10. stop = [k \in Nat |-> IF c[k][q + k - 1] # EOS /\ n # k - 1 THEN stop[k + 1] ELSE k]
  BY <1>9
<1> HIDE DEF stop
<1>11. Scan(Nat, P, v, stop)
  BY <1>10 DEF Scan
<1>12. GoesOn(Nat, P, 1, L + 1)
  <2>0. \A x \in Nat : P[x] = (c[x][q + x - 1] # EOS /\ n # x - 1)
    OBVIOUS
  <2> HIDE DEF P
  <2>1. P[L + 1] = FALSE
    <3>1. L + 1 \in Nat /\ 1 <= L + 1 /\ L + 1 <= L + 1
      BY <1>1
    <3>2. c[L + 1][q + (L + 1) - 1] = EOS
      BY <1>4, <3>1
    <3> QED  BY <2>0, <3>1, <3>2
  <2>2. ASSUME NEW x \in Nat, 1 <= x, x < L + 1  PROVE  P[x] = TRUE
    <3>1. x <= L + 1 /\ x # L + 1 /\ n # x - 1
      BY <1>1, <1>3, <2>2
    <3>2. c[x][q + x - 1] # EOS
      BY <1>4, <2>2, <3>1
    <3> QED  BY <2>0, <3>1, <3>2
  <2>3. 1 \in Nat /\ L + 1 \in Nat /\ 1 <= L + 1
    BY <1>1
  <2>4. \A x \in Nat : 1 <= x /\ x < L + 1 => x \in Nat /\ P[x] = TRUE
    BY <2>2
  <2> QED  BY <2>1, <2>3, <2>4 DEF GoesOn
<1>13. stop[1] = L + 1
  <2>1. stop[1] = v[L + 1]
    <3> HIDE DEF P, v
    <3> QED  BY <1>11, <1>12, ScanValue
  <2> QED  BY <1>1, <2>1
<1> DEFINE st == stop[1]
           left == IF c[st][q + st - 1] = EOS THEN n - (st - 1) ELSE 2 ^ 32 - 1
<1>14. strncpy(chars, p, q, n) =
            [a \in DOMAIN chars |-> IF a \in p + st .. p + st + left - 1 THEN EOS ELSE c[st][a]]
  BY DEF strncpy, stop, c
<1>15. st = L + 1 /\ left = n - L /\ c[st] = Moved(p, q, L + 1)
  <2>1. L + 1 \in Nat /\ 1 <= L + 1 /\ L + 1 <= L + 1 /\ n - (L + 1 - 1) = n - L
    BY <1>1
  <2>2. c[L + 1] = Moved(p, q, L + 1) /\ c[L + 1][q + (L + 1) - 1] = EOS
    BY <1>4, <2>1
  <2>3. st = L + 1
    BY <1>13
  <2> HIDE DEF st
  <2>4. c[st][q + st - 1] = EOS /\ c[st] = Moved(p, q, L + 1)
    BY <2>2, <2>3
  <2>5. left = n - (st - 1)
    BY <2>4, Zenon
  <2>6. left = n - L
    <3> HIDE DEF left
    <3> QED  BY <1>1, <2>1, <2>3, <2>5
  <2> QED  BY <2>3, <2>4, <2>6
<1> HIDE DEF st, left
<1>16. ASSUME NEW a \in Pointer
       PROVE  (IF a \in p + (L + 1) .. p + (L + 1) + (n - L) - 1 THEN EOS ELSE Moved(p, q, L + 1)[a])
                = (IF a - p + 1 \in DOMAIN u THEN u[a - p + 1] ELSE chars[a])
  <2>0. a \in Nat
    BY <1>1
  <2>1. Moved(p, q, L + 1)[a]
            = IF p <= a /\ a < p + (L + 1) THEN chars[q + (a - p)] ELSE chars[a]
    BY DEF Moved
  <2>2. CASE p <= a /\ a < p + L
    <3>1. a - p + 1 \in 1 .. n + 1 /\ q + (a - p + 1) - 1 = q + (a - p) /\ a - p + 1 <= L
      BY <1>1, <1>3, <2>0, <2>2
    <3>2. u[a - p + 1] = chars[q + (a - p)]
      BY <1>5, <3>1
    <3>3. a \notin p + (L + 1) .. p + (L + 1) + (n - L) - 1 /\ a < p + (L + 1)
      BY <1>1, <2>0, <2>2
    <3> QED  BY <1>5, <2>1, <2>2, <3>1, <3>2, <3>3
  <2>3. CASE a = p + L
    <3>1. a - p + 1 \in 1 .. n + 1 /\ a - p = L /\ ~ (a - p + 1 <= L)
      BY <1>1, <1>3, <2>0, <2>3
    <3>2. u[a - p + 1] = EOS
      BY <1>5, <3>1
    <3>3. a \notin p + (L + 1) .. p + (L + 1) + (n - L) - 1 /\ a < p + (L + 1) /\ p <= a
      BY <1>1, <2>0, <2>3
    <3> QED  BY <1>5, <1>6, <2>1, <3>1, <3>2, <3>3
  <2>4. CASE p + (L + 1) <= a /\ a <= p + n
    <3>1. a - p + 1 \in 1 .. n + 1 /\ ~ (a - p + 1 <= L)
      BY <1>1, <1>3, <2>0, <2>4
    <3>2. u[a - p + 1] = EOS
      BY <1>5, <3>1
    <3>3. a \in p + (L + 1) .. p + (L + 1) + (n - L) - 1
      BY <1>1, <2>0, <2>4
    <3> QED  BY <1>5, <3>1, <3>2, <3>3
  <2>5. CASE a < p \/ p + n < a
    <3>1. a - p + 1 \notin 1 .. n + 1
      BY <1>1, <2>0, <2>5
    <3>2. a \notin p + (L + 1) .. p + (L + 1) + (n - L) - 1 /\ ~ (p <= a /\ a < p + (L + 1))
      BY <1>1, <1>3, <2>0, <2>5
    <3> QED  BY <1>5, <2>1, <3>1, <3>2
  <2> QED  BY <1>1, <2>0, <2>2, <2>3, <2>4, <2>5
<1>17. [a \in Pointer |->
            IF a \in p + (L + 1) .. p + (L + 1) + (n - L) - 1 THEN EOS ELSE Moved(p, q, L + 1)[a]]
         = With(p, u)
  BY <1>16 DEF With
<1> QED  BY <1>1, <1>14, <1>15, <1>17 DEF u

(* memcpy, forwards or backwards.                                           *)
LEMMA MoveAgrees ==
    ASSUME SInv, NEW p \in Pointer, NEW q \in Pointer, NEW n \in Nat, Fits(p, n), Fits(q, n)
    PROVE  memcpy(chars, p, q, n) = With(p, [k \in 1 .. n |-> chars[q + k - 1]])
<1> DEFINE d == [k \in Nat |-> p + (IF p <= q THEN k - 1 ELSE n - k)]
           s == [k \in Nat |-> q + (IF p <= q THEN k - 1 ELSE n - k)]
           copied == CHOOSE copied : copied = [k \in 0 .. n |->
               IF k = 0 THEN chars
               ELSE LET o == IF p <= q THEN k - 1 ELSE n - k
                    IN  [copied[k - 1] EXCEPT ![p + o] = copied[k - 1][q + o]]]
           u == [k \in 1 .. n |-> chars[q + k - 1]]
<1>1. /\ p \in Nat /\ q \in Nat /\ CharCount \in Nat /\ Pointer = 0 .. CharCount - 1
      /\ Cardinality(Pointer) = CharCount /\ Pointer \in SUBSET Nat /\ chars \in [Pointer -> Char]
  BY PointerIs DEF SInv
<1>2. p + n < CharCount /\ q + n < CharCount
  BY <1>1 DEF Fits
<1>3. \A k \in 0 .. n : k # 0 =>
            /\ d[k] = p + (IF p <= q THEN k - 1 ELSE n - k)
            /\ s[k] = q + (IF p <= q THEN k - 1 ELSE n - k)
  <2>1. \A k \in 0 .. n : k \in Nat
    OBVIOUS
  <2> QED  BY <2>1
<1> HIDE DEF d, s
<1>4. PICK f : Copies(chars, n, d, s, f)
  BY CopiesExist
<1>5. f = [k \in 0 .. n |->
               IF k = 0 THEN chars
               ELSE LET o == IF p <= q THEN k - 1 ELSE n - k
                    IN  [f[k - 1] EXCEPT ![p + o] = f[k - 1][q + o]]]
  BY <1>3, <1>4 DEF Copies
<1>6. copied = [k \in 0 .. n |->
               IF k = 0 THEN chars
               ELSE LET o == IF p <= q THEN k - 1 ELSE n - k
                    IN  [copied[k - 1] EXCEPT ![p + o] = copied[k - 1][q + o]]]
  BY <1>5
<1>7. memcpy(chars, p, q, n) = copied[n]
  BY DEF memcpy, Forwards, copied
<1> HIDE DEF copied
<1>8. Copies(chars, n, d, s, copied)
  BY <1>3, <1>6 DEF Copies
<1>9. ASSUME NEW k \in 1 .. n
      PROVE  /\ k \in Nat /\ d[k] \in Pointer /\ s[k] \in Pointer
             /\ d[k] = p + (IF p <= q THEN k - 1 ELSE n - k)
             /\ s[k] = q + (IF p <= q THEN k - 1 ELSE n - k)
  <2>1. /\ k \in Nat /\ k \in 0 .. n /\ k # 0
        /\ p + (k - 1) \in Pointer /\ p + (n - k) \in Pointer
        /\ q + (k - 1) \in Pointer /\ q + (n - k) \in Pointer
    BY <1>1, <1>2
  <2> QED  BY <1>3, <2>1
<1>10. ASSUME NEW k \in 1 .. n, NEW x \in 1 .. k - 1
       PROVE  d[x] # s[k] /\ d[x] # d[k]
  <2>1. x \in 1 .. n /\ x < k /\ x \in Nat /\ k \in Nat /\ k <= n /\ 1 <= x
    OBVIOUS
  <2>2. /\ d[x] = p + (IF p <= q THEN x - 1 ELSE n - x)
        /\ d[k] = p + (IF p <= q THEN k - 1 ELSE n - k)
        /\ s[k] = q + (IF p <= q THEN k - 1 ELSE n - k)
    BY <1>9, <2>1
  <2>3. CASE p <= q
    BY <1>1, <2>1, <2>2, <2>3
  <2>4. CASE ~ (p <= q)
    BY <1>1, <2>1, <2>2, <2>4
  <2> QED  BY <2>3, <2>4
<1>11. /\ copied[n] \in [Pointer -> Char]
       /\ \A k \in 1 .. n : copied[n][d[k]] = chars[s[k]]
       /\ \A a \in Pointer : (\A k \in 1 .. n : d[k] # a) => copied[n][a] = chars[a]
  <2>1. InOrder(Pointer, d, s, n)
    BY <1>9, <1>10 DEF InOrder
  <2>2. Contents(Pointer, Char, chars) /\ n \in 0 .. n
    BY <1>1 DEF Contents
  <2>3. /\ Contents(Pointer, Char, copied[n])
        /\ \A k \in 1 .. n : copied[n][d[k]] = chars[s[k]]
        /\ \A a \in Pointer : (\A k \in 1 .. n : d[k] # a) => copied[n][a] = chars[a]
    BY <1>8, <2>1, <2>2, CopiesCopy
  <2> QED  BY <2>3 DEF Contents
<1>12. ASSUME NEW a \in Pointer
       PROVE  copied[n][a] = IF a - p + 1 \in DOMAIN u THEN u[a - p + 1] ELSE chars[a]
  <2>0. a \in Nat /\ DOMAIN u = 1 .. n
    BY <1>1
  <2>1. CASE p <= a /\ a < p + n
    <3> DEFINE k == IF p <= q THEN a - p + 1 ELSE n - (a - p)
    <3>1. /\ k \in 1 .. n /\ a - p + 1 \in 1 .. n
          /\ p + (IF p <= q THEN k - 1 ELSE n - k) = a
          /\ q + (IF p <= q THEN k - 1 ELSE n - k) = q + (a - p)
          /\ q + (a - p + 1) - 1 = q + (a - p)
      <4>1. CASE p <= q
        BY <1>1, <2>0, <2>1, <4>1
      <4>2. CASE ~ (p <= q)
        BY <1>1, <2>0, <2>1, <4>2
      <4> QED  BY <4>1, <4>2
    <3> HIDE DEF k
    <3>2. d[k] = a /\ s[k] = q + (a - p)
      BY <1>9, <3>1
    <3>3. u[a - p + 1] = chars[q + (a - p)]
      BY <3>1
    <3> QED  BY <1>11, <2>0, <3>1, <3>2, <3>3
  <2>2. CASE ~ (p <= a /\ a < p + n)
    <3>1. a - p + 1 \notin 1 .. n
      BY <1>1, <2>0, <2>2
    <3>2. ASSUME NEW k \in 1 .. n  PROVE  d[k] # a
      <4>1. k \in Nat /\ 1 <= k /\ k <= n /\ d[k] = p + (IF p <= q THEN k - 1 ELSE n - k)
        BY <1>9
      <4>2. CASE p <= q
        BY <1>1, <2>0, <2>2, <4>1, <4>2
      <4>3. CASE ~ (p <= q)
        BY <1>1, <2>0, <2>2, <4>1, <4>3
      <4> QED  BY <4>2, <4>3
    <3> QED  BY <1>11, <2>0, <3>1, <3>2
  <2> QED  BY <2>1, <2>2
<1> HIDE DEF u
<1>13. copied[n] = [a \in Pointer |-> copied[n][a]]
  BY <1>11
<1>14. copied[n] = With(p, u)
  BY <1>12, <1>13 DEF With
<1> QED  BY <1>7, <1>14 DEF u

(* memset, one character after the other. *)
LEMMA SetAgrees ==
    ASSUME SInv, NEW p \in Pointer, NEW ch \in Char, NEW n \in Nat, Fits(p, n)
    PROVE  memset(chars, p, ch, n) = With(p, [k \in 1 .. n |-> ch])
<1> DEFINE after == [k \in 0 .. n |-> [a \in Pointer |-> IF p <= a /\ a < p + k THEN ch ELSE chars[a]]]
           set == CHOOSE set : set = [k \in 0 .. n |->
               IF k = 0 THEN chars ELSE [set[k - 1] EXCEPT ![p + k - 1] = ch]]
<1>1. /\ p \in Nat /\ CharCount \in Nat /\ Pointer = 0 .. CharCount - 1
      /\ p + n < CharCount /\ chars = [a \in Pointer |-> chars[a]]
  BY PointerIs DEF SInv, Fits
<1>2. after[0] = chars
  <2>1. \A a \in Pointer : ~ (p <= a /\ a < p + 0)
    BY <1>1
  <2>2. 0 \in 0 .. n
    OBVIOUS
  <2> QED  BY <1>1, <2>1, <2>2
<1>3. ASSUME NEW k \in 1 .. n
      PROVE  after[k] = [after[k - 1] EXCEPT ![p + k - 1] = ch]
  <2>1. k \in 0 .. n /\ k - 1 \in 0 .. n /\ k \in Nat
    OBVIOUS
  <2>2. ASSUME NEW a \in Pointer
        PROVE  (p <= a /\ a < p + k) <=> (a = p + k - 1 \/ (p <= a /\ a < p + (k - 1)))
    <3>1. a \in Nat /\ 1 <= k
      BY <1>1
    <3> QED  BY <1>1, <2>1, <3>1
  <2>3. /\ after[k] = [a \in Pointer |-> IF p <= a /\ a < p + k THEN ch ELSE chars[a]]
        /\ after[k - 1] = [a \in Pointer |-> IF p <= a /\ a < p + (k - 1) THEN ch ELSE chars[a]]
    BY <2>1
  <2> HIDE DEF after
  <2>4. [after[k - 1] EXCEPT ![p + k - 1] = ch]
         = [a \in Pointer |-> IF a = p + k - 1 THEN ch ELSE after[k - 1][a]]
    BY <2>3
  <2>5. \A a \in Pointer :
            (IF a = p + k - 1 THEN ch ELSE after[k - 1][a])
              = IF p <= a /\ a < p + k THEN ch ELSE chars[a]
    BY <2>2, <2>3
  <2> QED  BY <2>3, <2>4, <2>5
<1>4. after = [k \in 0 .. n |-> IF k = 0 THEN chars ELSE [after[k - 1] EXCEPT ![p + k - 1] = ch]]
  <2>1. \A k \in 0 .. n : k # 0 => k \in 1 .. n
    OBVIOUS
  <2>2. \A k \in 0 .. n :
            after[k] = IF k = 0 THEN chars ELSE [after[k - 1] EXCEPT ![p + k - 1] = ch]
    BY <1>2, <1>3, <2>1
  <2>3. after = [k \in 0 .. n |-> after[k]]
    OBVIOUS
  <2> HIDE DEF after
  <2> QED  BY <2>2, <2>3
<1> HIDE DEF after
<1>5. set = [k \in 0 .. n |-> IF k = 0 THEN chars ELSE [set[k - 1] EXCEPT ![p + k - 1] = ch]]
  BY <1>4
<1>6. memset(chars, p, ch, n) = set[n]
  BY DEF memset, set
<1> HIDE DEF set
<1>7. set[n] = after[n]
  <2> DEFINE S == {k \in 0 .. n : set[k] # after[k]}
  <2> SUFFICES ASSUME S # {}  PROVE  FALSE
    OBVIOUS
  <2>0. S \in SUBSET Nat
    OBVIOUS
  <2>1. PICK k \in S : \A x \in S : k <= x
    BY <2>0, LeastNat
  <2>2. k # 0
    BY <1>2, <1>5
  <2>3. k \in 1 .. n /\ k - 1 \in 0 .. n /\ k - 1 \notin S
    BY <2>1, <2>2
  <2>4. set[k] = [set[k - 1] EXCEPT ![p + k - 1] = ch]
    BY <1>5, <2>2
  <2> QED  BY <1>3, <2>3, <2>4
<1>8. after[n] = [a \in Pointer |-> IF p <= a /\ a < p + n THEN ch ELSE chars[a]]
  BY DEF after
<1>9. \A a \in Pointer : /\ p <= a /\ a < p + n <=> a - p + 1 \in 1 .. n
  BY <1>1
<1> QED  BY <1>6, <1>7, <1>8, <1>9 DEF With

(* What is written over memory in front of its last character leaves SInv.  *)
LEMMA WithKeeps ==
    ASSUME SInv, NEW p \in Pointer, NEW s, NEW n \in Nat, DOMAIN s = 1 .. n,
           \A k \in 1 .. n : s[k] \in Char, p + n < CharCount
    PROVE  /\ With(p, s) \in [0 .. CharCount - 1 -> Char]
           /\ With(p, s)[CharCount - 1] = EOS
<1>1. /\ p \in Nat /\ CharCount \in Nat /\ Pointer = 0 .. CharCount - 1
      /\ CharCount - 1 \in Pointer /\ chars[CharCount - 1] = EOS
      /\ \A a \in Pointer : chars[a] \in Char
  BY PointerIs DEF SInv
<1>2. \A a \in Pointer : (IF a - p + 1 \in DOMAIN s THEN s[a - p + 1] ELSE chars[a]) \in Char
  BY <1>1
<1>3. With(p, s) \in [Pointer -> Char]
  BY <1>2 DEF With
<1>4. CharCount - 1 - p + 1 \notin 1 .. n
  BY <1>1
<1>5. With(p, s)[CharCount - 1] = chars[CharCount - 1]
  BY <1>1, <1>4 DEF With
<1> QED  BY <1>1, <1>3, <1>5

(* Every write of the strings' functions ends before memory does.           *)
LEMMA StringsStep ==
    ASSUME SInv, [StringsNext]_chars
    PROVE  SInv'
<1>0. /\ CharCount \in Nat /\ Pointer = 0 .. CharCount - 1 /\ CharCount - 1 \in Pointer
      /\ Cardinality(Pointer) = CharCount /\ DOMAIN chars = Pointer /\ Pointer \in SUBSET Nat
      /\ EOS \in Char /\ chars[CharCount - 1] = EOS
      /\ \A a \in Pointer : chars[a] \in Char
  BY PointerIs, StringsAssumption DEF SInv, Pointer
<1>1. CASE UNCHANGED chars
  BY <1>1 DEF SInv
<1>2. ASSUME NEW dest \in Pointer, NEW src \in Pointer,
             CanCopy(chars, dest, src), chars' = strcpy(chars, dest, src)
      PROVE  SInv'
  <2> DEFINE u == Append(Text(src), EOS)
  <2>1. /\ Text(src) \in Seq(Char) /\ Len(Text(src)) = End(src) - src /\ End(src) - src \in Nat
    BY TextIs
  <2>2. /\ End(src) - src + 1 \in Nat /\ DOMAIN u = 1 .. End(src) - src + 1
        /\ \A k \in 1 .. End(src) - src + 1 : u[k] \in Char
    BY <1>0, <2>1
  <2> HIDE DEF u
  <2>3. chars' = With(dest, u) /\ dest + (End(src) - src + 1) < CharCount
    BY <1>2, CopyAgrees DEF u
  <2>4. /\ With(dest, u) \in [0 .. CharCount - 1 -> Char]
        /\ With(dest, u)[CharCount - 1] = EOS
    BY <2>2, <2>3, WithKeeps
  <2> QED  BY <2>3, <2>4 DEF SInv
<1>3. ASSUME NEW dest \in Pointer, NEW src \in Pointer,
             CanCat(chars, dest, src), chars' = strcat(chars, dest, src)
      PROVE  SInv'
  <2> DEFINE u == Text(dest) \o Append(Text(src), EOS)
             n == End(dest) - dest + (End(src) - src + 1)
  <2>1. /\ Text(src) \in Seq(Char) /\ Len(Text(src)) = End(src) - src /\ End(src) - src \in Nat
        /\ Text(dest) \in Seq(Char) /\ Len(Text(dest)) = End(dest) - dest /\ End(dest) - dest \in Nat
    BY TextIs
  <2>2. u \in Seq(Char) /\ Len(u) = n /\ n \in Nat
    <3>1. Append(Text(src), EOS) \in Seq(Char) /\ Len(Append(Text(src), EOS)) = End(src) - src + 1
      BY <1>0, <2>1
    <3> DEFINE a == Text(dest)
               b == Append(Text(src), EOS)
    <3>2. a \in Seq(Char) /\ b \in Seq(Char) /\ Len(a) + Len(b) = n /\ n \in Nat
      BY <2>1, <3>1
    <3> HIDE DEF a, b, n
    <3>3. a \o b \in Seq(Char) /\ Len(a \o b) = n
      BY <3>2
    <3> QED  BY <3>2, <3>3 DEF a, b
  <2>3. dest + n < CharCount /\ chars' = With(dest, u)
    <3>1. chars' = With(dest, u) /\ End(dest) + (End(src) - src + 1) < CharCount
      BY <1>3, CatAgrees
    <3>2. dest \in Nat /\ End(dest) \in Nat /\ src \in Nat /\ End(src) \in Nat
      BY EndFacts
    <3> QED  BY <1>0, <3>1, <3>2
  <2> HIDE DEF u, n
  <2>4. DOMAIN u = 1 .. n /\ \A k \in 1 .. n : u[k] \in Char
    BY <2>2
  <2>5. /\ With(dest, u) \in [0 .. CharCount - 1 -> Char]
        /\ With(dest, u)[CharCount - 1] = EOS
    BY <2>2, <2>3, <2>4, WithKeeps
  <2> QED  BY <2>3, <2>5 DEF SInv
<1>4. ASSUME NEW dest \in Pointer, NEW src \in Pointer, NEW n \in 0 .. CharCount,
             CanPad(chars, dest, src, n), chars' = strncpy(chars, dest, src, n)
      PROVE  SInv'
  <2> DEFINE u == [k \in 1 .. n + 1 |-> IF k <= Len(Text(src)) THEN Text(src)[k] ELSE EOS]
  <2>1. n \in Nat /\ n + 1 \in Nat
    BY <1>0
  <2>2. Text(src) \in Seq(Char) /\ Len(Text(src)) \in Nat
    BY TextIs
  <2>3. DOMAIN u = 1 .. n + 1 /\ \A k \in 1 .. n + 1 : u[k] \in Char
    <3>1. \A k \in 1 .. n + 1 : k <= Len(Text(src)) => Text(src)[k] \in Char
      BY <2>1, <2>2
    <3> QED  BY <1>0, <3>1
  <2> HIDE DEF u
  <2>4. chars' = With(dest, u) /\ dest + (n + 1) < CharCount
    BY <1>0, <1>4, <2>1, PadAgrees DEF CanPad, Fits, u
  <2>5. /\ With(dest, u) \in [0 .. CharCount - 1 -> Char]
        /\ With(dest, u)[CharCount - 1] = EOS
    BY <2>1, <2>3, <2>4, WithKeeps
  <2> QED  BY <2>4, <2>5 DEF SInv
<1>5. ASSUME NEW dest \in Pointer, NEW src \in Pointer, NEW n \in 0 .. CharCount,
             Fits(dest, n), Fits(src, n), chars' = memcpy(chars, dest, src, n)
      PROVE  SInv'
  <2> DEFINE u == [k \in 1 .. n |-> chars[src + k - 1]]
  <2>1. n \in Nat /\ dest \in Nat /\ src \in Nat
    BY <1>0
  <2>2. dest + n < CharCount /\ src + n < CharCount
    BY <1>0, <1>5 DEF Fits
  <2>3. DOMAIN u = 1 .. n /\ \A k \in 1 .. n : u[k] \in Char
    <3>1. \A k \in 1 .. n : src + k - 1 \in Pointer
      BY <1>0, <2>1, <2>2
    <3> QED  BY <1>0, <3>1
  <2>4. chars' = With(dest, u)
    BY <1>5, <2>1, MoveAgrees
  <2> HIDE DEF u
  <2>5. /\ With(dest, u) \in [0 .. CharCount - 1 -> Char]
        /\ With(dest, u)[CharCount - 1] = EOS
    BY <2>1, <2>2, <2>3, WithKeeps
  <2> QED  BY <2>4, <2>5 DEF SInv
<1>6. ASSUME NEW dest \in Pointer, NEW n \in 0 .. CharCount, NEW ch \in Char,
             Fits(dest, n), chars' = memset(chars, dest, ch, n)
      PROVE  SInv'
  <2>1. n \in Nat /\ dest \in Nat /\ dest + n < CharCount
    BY <1>0, <1>6, SMTT(30) DEF Fits
  <2> DEFINE u == [k \in 1 .. n |-> ch]
  <2>2. DOMAIN u = 1 .. n /\ \A k \in 1 .. n : u[k] \in Char
    OBVIOUS
  <2>3. chars' = With(dest, u)
    BY <1>6, <2>1, SetAgrees
  <2> HIDE DEF u
  <2>4. /\ With(dest, u) \in [0 .. CharCount - 1 -> Char]
        /\ With(dest, u)[CharCount - 1] = EOS
    BY <2>1, <2>2, WithKeeps
  <2> QED  BY <2>3, <2>4 DEF SInv
<1> QED  BY <1>1, <1>2, <1>3, <1>4, <1>5, <1>6, Zenon DEF StringsNext

-----------------------------------------------------------------------------
(* Comparison.  Prefixes are equal when their characters are.               *)
LEMMA PrefixIs ==
    ASSUME NEW S, NEW s \in Seq(S), NEW n \in 0 .. Len(s)
    PROVE  /\ SubSeq(s, 1, n) \in Seq(S) /\ Len(SubSeq(s, 1, n)) = n
           /\ \A x \in 1 .. n : SubSeq(s, 1, n)[x] = s[x]
<1>1. /\ SubSeq(s, 1, n) \in Seq(S)
      /\ Len(SubSeq(s, 1, n)) = IF 1 <= n THEN n - 1 + 1 ELSE 0
      /\ \A x \in 1 .. n - 1 + 1 : SubSeq(s, 1, n)[x] = s[1 + x - 1]
  <2>1. 1 \in 1 .. Len(s) + 1 /\ n \in 1 - 1 .. Len(s) /\ Len(s) \in Nat
    OBVIOUS
  <2> QED  BY <2>1, SubSeqProperties
<1>2. n \in Nat /\ n - 1 + 1 = n /\ (1 <= n \/ n = 0) /\ \A x \in 1 .. n : 1 + x - 1 = x
  OBVIOUS
<1> QED  BY <1>1, <1>2

LEMMA PrefixesEqual ==
    ASSUME NEW S, NEW s \in Seq(S), NEW t \in Seq(S), NEW n \in Nat, n <= Len(s), n <= Len(t)
    PROVE  SubSeq(s, 1, n) = SubSeq(t, 1, n) <=> \A x \in 1 .. n : s[x] = t[x]
<1> DEFINE a == SubSeq(s, 1, n)
           b == SubSeq(t, 1, n)
<1>1. n \in 0 .. Len(s) /\ n \in 0 .. Len(t)
  OBVIOUS
<1>2. /\ a \in Seq(S) /\ Len(a) = n /\ \A x \in 1 .. n : a[x] = s[x]
      /\ b \in Seq(S) /\ Len(b) = n /\ \A x \in 1 .. n : b[x] = t[x]
  BY <1>1, PrefixIs
<1> HIDE DEF a, b
<1>3. a = b <=> \A x \in 1 .. n : a[x] = b[x]
  <2>1. ASSUME \A x \in 1 .. n : a[x] = b[x]  PROVE  a = b
    BY <1>2, <2>1, SeqEqual
  <2> QED  BY <2>1
<1> QED  BY <1>2, <1>3 DEF a, b

LEMMA WholePrefix ==
    ASSUME NEW S, NEW s \in Seq(S), NEW t \in Seq(S), Len(s) <= Len(t)
    PROVE  s = SubSeq(t, 1, Len(s)) <=> \A x \in 1 .. Len(s) : s[x] = t[x]
<1> DEFINE n == Len(s)
           b == SubSeq(t, 1, n)
<1>1. n \in 0 .. Len(t) /\ n \in Nat
  OBVIOUS
<1>2. b \in Seq(S) /\ Len(b) = n /\ \A x \in 1 .. n : b[x] = t[x]
  BY <1>1, PrefixIs
<1> HIDE DEF b
<1>3. s = b <=> \A x \in 1 .. n : s[x] = b[x]
  <2>1. ASSUME \A x \in 1 .. n : s[x] = b[x]  PROVE  s = b
    BY <1>2, <2>1, SeqEqual
  <2> QED  BY <2>1
<1> QED  BY <1>2, <1>3 DEF b

(* strcmp stops at the first difference or at the end of both.              *)
LEMMA CompareStops ==
    ASSUME SInv, NEW p \in Pointer, NEW q \in Pointer
    PROVE  \E j \in Nat :
                /\ j <= End(p) - p /\ j <= End(q) - q
                /\ \A x \in Nat : x < j => chars[p + x] = chars[q + x]
                /\ chars[p + j] # chars[q + j] \/ chars[p + j] = EOS
                /\ strcmp(chars, p, q) = IF chars[p + j] < chars[q + j] THEN -1
                                         ELSE IF chars[p + j] > chars[q + j] THEN 1 ELSE 0
<1> DEFINE P == [k \in Nat |-> chars[p + k] = chars[q + k] /\ chars[p + k] # EOS]
           v == [k \in Nat |-> k]
           at == CHOOSE at : at = [k \in Nat |->
                    IF chars[p + k] = chars[q + k] /\ chars[p + k] # EOS THEN at[k + 1] ELSE k]
           S == {k \in Nat : ~ (chars[p + k] = chars[q + k] /\ chars[p + k] # EOS)}
<1>1. /\ p \in Nat /\ q \in Nat /\ End(p) - p \in Nat /\ End(q) - q \in Nat
      /\ chars[p + (End(p) - p)] = EOS /\ chars[q + (End(q) - q)] = EOS
  <2>1. p \in Nat /\ q \in Nat /\ End(p) \in Nat /\ End(q) \in Nat /\ p <= End(p) /\ q <= End(q)
    BY EndFacts
  <2>2. p + (End(p) - p) = End(p) /\ q + (End(q) - q) = End(q)
    BY <2>1
  <2> QED  BY <2>1, <2>2, EndFacts
<1>2. \E f : Scan(Nat, P, v, f)
  <2>1. P \in [Nat -> BOOLEAN] /\ \A k \in Nat : P[k] => k + 1 \in Nat
    OBVIOUS
  <2> HIDE DEF P, v
  <2> QED  BY <2>1, ScanExists
<1>3. PICK f : Scan(Nat, P, v, f)
  BY <1>2
<1>4. f = [k \in Nat |-> IF chars[p + k] = chars[q + k] /\ chars[p + k] # EOS THEN f[k + 1] ELSE k]
  BY <1>3 DEF Scan
<1>5. at = [k \in Nat |-> IF chars[p + k] = chars[q + k] /\ chars[p + k] # EOS THEN at[k + 1] ELSE k]
  BY <1>4
<1>6. strcmp(chars, p, q) = IF chars[p + at[0]] < chars[q + at[0]] THEN -1
                            ELSE IF chars[p + at[0]] > chars[q + at[0]] THEN 1 ELSE 0
  BY DEF strcmp, at
<1> HIDE DEF at
<1>7. Scan(Nat, P, v, at)
  BY <1>5 DEF Scan
<1>8. End(p) - p \in S /\ S \in SUBSET Nat
  BY <1>1
<1>9. PICK j \in S : \A x \in S : j <= x
  BY <1>8, LeastNat
<1>10. /\ j \in Nat /\ j <= End(p) - p
       /\ chars[p + j] # chars[q + j] \/ chars[p + j] = EOS
       /\ \A x \in Nat : x < j => chars[p + x] = chars[q + x] /\ chars[p + x] # EOS
  <2>1. j \in Nat /\ j <= End(p) - p /\ ~ (chars[p + j] = chars[q + j] /\ chars[p + j] # EOS)
    BY <1>8, <1>9
  <2>2. ASSUME NEW x \in Nat, x < j  PROVE  chars[p + x] = chars[q + x] /\ chars[p + x] # EOS
    <3>1. x \notin S
      BY <1>9, <2>1, <2>2
    <3> QED  BY <3>1
  <2> QED  BY <2>1, <2>2
<1>11. j <= End(q) - q
  <2>1. ASSUME End(q) - q < j  PROVE  FALSE
    <3>1. chars[p + (End(q) - q)] = chars[q + (End(q) - q)] /\ chars[p + (End(q) - q)] # EOS
      BY <1>1, <1>10, <2>1
    <3> QED  BY <1>1, <3>1
  <2> QED  BY <1>1, <1>10, <2>1
<1>12. at[0] = j
  <2>0. \A x \in Nat : P[x] = (chars[p + x] = chars[q + x] /\ chars[p + x] # EOS)
    OBVIOUS
  <2>1. P[j] = FALSE
    BY <1>10, <2>0
  <2>2. \A x \in Nat : 0 <= x /\ x < j => x \in Nat /\ P[x] = TRUE
    BY <1>10, <2>0
  <2>3. 0 \in Nat /\ j \in Nat /\ 0 <= j
    BY <1>10
  <2> HIDE DEF P
  <2>4. GoesOn(Nat, P, 0, j)
    BY <2>1, <2>2, <2>3 DEF GoesOn
  <2>5. at[0] = v[j]
    <3> HIDE DEF v
    <3> QED  BY <1>7, <2>4, ScanValue
  <2> QED  BY <2>3, <2>5
<1> QED  BY <1>6, <1>10, <1>11, <1>12

LEMMA CompareAgrees ==
    ASSUME SInv, NEW p \in Pointer, NEW q \in Pointer
    PROVE  strcmp(chars, p, q) =
                IF Text(p) = Text(q) THEN 0 ELSE IF Before(Text(p), Text(q)) THEN -1 ELSE 1
<1> DEFINE s == Text(p)
           t == Text(q)
           l == End(p) - p
           r == End(q) - q
<1>1. PICK j \in Nat :
                /\ j <= End(p) - p /\ j <= End(q) - q
                /\ \A x \in Nat : x < j => chars[p + x] = chars[q + x]
                /\ chars[p + j] # chars[q + j] \/ chars[p + j] = EOS
                /\ strcmp(chars, p, q) = IF chars[p + j] < chars[q + j] THEN -1
                                         ELSE IF chars[p + j] > chars[q + j] THEN 1 ELSE 0
  BY CompareStops
<1>2. /\ p \in Nat /\ q \in Nat /\ l \in Nat /\ r \in Nat
      /\ s \in Seq(Char) /\ t \in Seq(Char) /\ Len(s) = l /\ Len(t) = r
      /\ DOMAIN s = 1 .. l /\ DOMAIN t = 1 .. r
      /\ \A k \in 1 .. l : s[k] = chars[p + k - 1]
      /\ \A k \in 1 .. r : t[k] = chars[q + k - 1]
      /\ \A k \in Nat : k < l => chars[p + k] # EOS
      /\ \A k \in Nat : k < r => chars[q + k] # EOS
  BY TextIs, PointerIs
<1>3. chars[p + l] = EOS /\ chars[q + r] = EOS
  <2>1. p + l = End(p) /\ q + r = End(q)
    BY EndFacts
  <2> QED  BY <2>1, EndFacts
<1>4. chars[p + j] \in Nat /\ chars[q + j] \in Nat
  <2>1. p + j \in Pointer /\ q + j \in Pointer
    BY <1>1, <1>2, TextIs
  <2> QED  BY <2>1, PointerIs
<1>6. j <= l /\ j <= r
  BY <1>1
<1> HIDE DEF s, t, l, r
<1>5. /\ s \in Seq(Char) /\ t \in Seq(Char)
      /\ \A k \in 1 .. l : s[k] \in Nat
      /\ \A k \in 1 .. r : t[k] \in Nat
  <2>1. \A k \in 1 .. l : s[k] \in Char
    BY <1>2
  <2>2. \A k \in 1 .. r : t[k] \in Char
    BY <1>2
  <2> QED  BY <1>2, <2>1, <2>2, StringsAssumption
<1>7. \A k \in 1 .. j : s[k] = t[k]
  <2> TAKE k \in 1 .. j
  <2>1. k - 1 \in Nat /\ k - 1 < j /\ p + (k - 1) = p + k - 1 /\ q + (k - 1) = q + k - 1
    BY <1>2
  <2>2. k \in 1 .. l /\ k \in 1 .. r
    BY <1>2, <1>6
  <2>3. chars[p + (k - 1)] = chars[q + (k - 1)]
    BY <1>1, <2>1
  <2> QED  BY <1>2, <2>1, <2>2, <2>3
<1>8. j < l => j + 1 \in 1 .. l /\ s[j + 1] = chars[p + j]
  <2>1. j < l => j + 1 \in 1 .. l /\ p + (j + 1) - 1 = p + j
    BY <1>2
  <2> QED  BY <1>2, <2>1
<1>9. j < r => j + 1 \in 1 .. r /\ t[j + 1] = chars[q + j]
  <2>1. j < r => j + 1 \in 1 .. r /\ q + (j + 1) - 1 = q + j
    BY <1>2
  <2> QED  BY <1>2, <2>1
<1>10. strcmp(chars, p, q) = IF chars[p + j] < chars[q + j] THEN -1
                             ELSE IF chars[p + j] > chars[q + j] THEN 1 ELSE 0
  BY <1>1
<1>11. CASE j = l /\ j = r
  <2>1. s = t
    BY <1>2, <1>5, <1>7, <1>11, SeqEqual
  <2>2. chars[p + j] = chars[q + j]
    BY <1>3, <1>11
  <2>3. strcmp(chars, p, q) = 0
    BY <1>4, <1>10, <2>2
  <2> QED  BY <2>1, <2>3 DEF s, t
<1>12. CASE j = l /\ j < r
  <2>1. s # t
    BY <1>2, <1>12
  <2>2. Before(s, t)
    <3>1. s = SubSeq(t, 1, Len(s))
      BY <1>2, <1>5, <1>7, <1>12, WholePrefix
    <3> QED  BY <1>2, <1>12, <3>1 DEF Before
  <2>3. chars[p + j] < chars[q + j]
    BY <1>2, <1>3, <1>4, <1>12 DEF EOS
  <2>4. strcmp(chars, p, q) = -1
    BY <1>10, <2>3
  <2> QED  BY <2>1, <2>2, <2>4 DEF s, t
<1>13. CASE j < l /\ j = r
  <2>1. s # t
    BY <1>2, <1>13
  <2>2. ~ Before(s, t)
    <3>1. ~ (Len(s) < Len(t))
      BY <1>2, <1>13
    <3>2. ASSUME NEW k \in DOMAIN s \cap DOMAIN t, s[k] < t[k]  PROVE  FALSE
      <4>1. k \in 1 .. j /\ s[k] \in Nat
        BY <1>2, <1>5, <1>13
      <4> QED  BY <1>7, <3>2, <4>1
    <3> QED  BY <3>1, <3>2 DEF Before
  <2>3. chars[p + j] > chars[q + j] /\ ~ (chars[p + j] < chars[q + j])
    BY <1>2, <1>3, <1>4, <1>13 DEF EOS
  <2>4. strcmp(chars, p, q) = 1
    BY <1>10, <2>3
  <2> QED  BY <2>1, <2>2, <2>4 DEF s, t
<1>14. CASE j < l /\ j < r
  <2>1. chars[p + j] # chars[q + j]
    BY <1>1, <1>2, <1>14
  <2>2. /\ s[j + 1] # t[j + 1] /\ s[j + 1] = chars[p + j] /\ t[j + 1] = chars[q + j]
        /\ j + 1 \in DOMAIN s \cap DOMAIN t
    BY <1>2, <1>8, <1>9, <1>14, <2>1
  <2>3. s # t
    BY <2>2
  <2>4. CASE chars[p + j] < chars[q + j]
    <3>1. SubSeq(s, 1, (j + 1) - 1) = SubSeq(t, 1, (j + 1) - 1)
      <4>1. (j + 1) - 1 = j
        OBVIOUS
      <4> QED  BY <1>2, <1>5, <1>7, <1>14, <4>1, PrefixesEqual
    <3>2. Before(s, t)
      BY <2>2, <2>4, <3>1 DEF Before
    <3>3. strcmp(chars, p, q) = -1
      BY <1>10, <2>4
    <3> QED  BY <2>3, <3>2, <3>3 DEF s, t
  <2>5. CASE ~ (chars[p + j] < chars[q + j])
    <3>1. chars[p + j] > chars[q + j]
      BY <1>4, <2>1, <2>5
    <3>2. ASSUME Len(s) < Len(t), s = SubSeq(t, 1, Len(s))  PROVE  FALSE
      <4>1. \A x \in 1 .. Len(s) : s[x] = t[x]
        BY <1>2, <1>5, <3>2, WholePrefix
      <4> QED  BY <1>2, <2>2, <4>1
    <3>3. ASSUME NEW k \in DOMAIN s \cap DOMAIN t, s[k] < t[k],
                 SubSeq(s, 1, k - 1) = SubSeq(t, 1, k - 1)
          PROVE  FALSE
      <4>1. k \in Nat /\ 1 <= k /\ k <= l /\ k <= r /\ s[k] \in Nat
        BY <1>2, <1>5
      <4>2. CASE k <= j
        <5>1. k \in 1 .. j
          BY <4>1, <4>2
        <5> QED  BY <1>7, <3>3, <4>1, <5>1
      <4>3. CASE k = j + 1
        BY <1>4, <2>2, <2>5, <3>3, <4>3
      <4>4. CASE j + 1 < k
        <5>1. k - 1 \in Nat /\ k - 1 <= Len(s) /\ k - 1 <= Len(t) /\ j + 1 \in 1 .. k - 1
          BY <1>2, <4>1, <4>4
        <5>2. \A x \in 1 .. k - 1 : s[x] = t[x]
          BY <1>5, <3>3, <5>1, PrefixesEqual
        <5> QED  BY <2>2, <5>1, <5>2
      <4> QED  BY <4>1, <4>2, <4>3, <4>4
    <3>4. ~ Before(s, t)
      BY <3>2, <3>3 DEF Before
    <3>5. strcmp(chars, p, q) = 1
      BY <1>10, <2>5, <3>1
    <3> QED  BY <2>3, <3>4, <3>5 DEF s, t
  <2> QED  BY <2>4, <2>5
<1> QED  BY <1>2, <1>6, <1>11, <1>12, <1>13, <1>14

-----------------------------------------------------------------------------
(* Search.  A loop that goes from s to N[s] while P, each time further down. *)
Run(D, P, N, f) == f = [s \in D |-> IF P[s] THEN f[N[s]] ELSE s]
Descends(D, P, N, rank, R) ==
    \A s \in D : /\ rank[s] \in Nat /\ rank[s] <= R
                 /\ P[s] => N[s] \in D /\ rank[N[s]] < rank[s]

LEMMA RunExists ==
    ASSUME NEW D, NEW P \in [D -> BOOLEAN], NEW N, NEW rank, NEW R \in Nat,
           Descends(D, P, N, rank, R)
    PROVE  \E f : Run(D, P, N, f)
<1> DEFINE E(r) == {s \in D : rank[s] < r}
           S == {r \in Nat : ~ \E f : Run(E(r), P, N, f)}
<1>0. \A s \in D : /\ rank[s] \in Nat /\ rank[s] <= R
                   /\ P[s] => N[s] \in D /\ rank[N[s]] < rank[s]
  BY DEF Descends
<1>1. S = {}
  <2> SUFFICES ASSUME S # {}  PROVE  FALSE
    OBVIOUS
  <2>1. PICK r \in S : \A x \in S : r <= x
    BY LeastNat
  <2>2. CASE r = 0
    <3>1. E(r) = {}
      BY <1>0, <2>2
    <3> DEFINE f == [s \in E(r) |-> s]
    <3>2. f = [s \in E(r) |-> IF P[s] THEN f[N[s]] ELSE s]
      BY <3>1
    <3> QED  BY <2>1, <3>2 DEF Run
  <2>3. CASE r # 0
    <3>1. r \in Nat /\ r - 1 \in Nat /\ r - 1 \notin S
      BY <2>1, <2>3
    <3>2. PICK f : Run(E(r - 1), P, N, f)
      BY <3>1
    <3>3. \A s \in E(r - 1) : f[s] = IF P[s] THEN f[N[s]] ELSE s
      BY <3>2 DEF Run
    <3> DEFINE g == [s \in E(r) |-> IF s \in E(r - 1) THEN f[s]
                                    ELSE IF P[s] THEN f[N[s]] ELSE s]
    <3>4. ASSUME NEW s \in E(r)  PROVE  g[s] = IF P[s] THEN g[N[s]] ELSE s
      <4>1. s \in D /\ rank[s] \in Nat /\ rank[s] < r
        BY <1>0
      <4>2. g[s] = IF P[s] THEN f[N[s]] ELSE s
        <5> HIDE DEF E
        <5> QED  BY <3>3
      <4>3. P[s] => N[s] \in E(r - 1) /\ N[s] \in E(r)
        BY <1>0, <3>1, <4>1
      <4>4. P[s] => g[N[s]] = f[N[s]]
        <5> HIDE DEF E
        <5> QED  BY <4>3
      <4> HIDE DEF E, g
      <4> QED  BY <4>2, <4>4
    <3>5. g = [s \in E(r) |-> IF P[s] THEN g[N[s]] ELSE s]
      <4>1. g = [s \in E(r) |-> g[s]]
        OBVIOUS
      <4> HIDE DEF g, E
      <4> QED  BY <3>4, <4>1
    <3>6. Run(E(r), P, N, g)
      BY <3>5 DEF Run
    <3> QED  BY <2>1, <3>6
  <2> QED  BY <2>2, <2>3
<1>2. E(R + 1) = D
  <2>1. \A s \in D : rank[s] < R + 1
    BY <1>0
  <2> QED  BY <2>1
<1>3. \E f : Run(E(R + 1), P, N, f)
  <2>1. R + 1 \in Nat
    OBVIOUS
  <2> HIDE DEF E
  <2> QED  BY <1>1, <2>1
<1> HIDE DEF E
<1> QED  BY <1>2, <1>3

(* The first b characters of P are those of T in front of j.                *)
Match(P, T, j, b) == b \in Nat /\ b <= j /\ \A x \in Nat : x < b => P[x] = T[(j - b) + x]
Longest(P, T, j, b) == Match(P, T, j, b) /\ \A c \in Nat : Match(P, T, j, c) => c <= b
Rest(P) == [x \in Nat |-> P[x + 1]]

LEMMA NoneMatch ==
    ASSUME NEW P, NEW T, NEW j \in Nat
    PROVE  Match(P, T, j, 0)
BY DEF Match

LEMMA LongestExists ==
    ASSUME NEW P, NEW T, NEW j \in Nat
    PROVE  \E b \in Nat : b <= j /\ Longest(P, T, j, b)
<1> DEFINE S == {d \in Nat : d <= j /\ Match(P, T, j, j - d)}
<1>1. S \in SUBSET Nat /\ j \in S
  BY NoneMatch
<1>2. PICK d \in S : \A x \in S : d <= x
  BY <1>1, LeastNat
<1>3. d \in Nat /\ d <= j /\ j - d \in Nat /\ j - d <= j /\ Match(P, T, j, j - d)
  BY <1>2
<1>4. ASSUME NEW c \in Nat, Match(P, T, j, c)  PROVE  c <= j - d
  <2>1. c <= j
    BY <1>4 DEF Match
  <2>2. j - c \in Nat /\ j - c <= j /\ j - (j - c) = c
    BY <2>1
  <2>3. j - c \in S
    BY <1>4, <2>2
  <2>4. d <= j - c
    BY <1>2, <2>3
  <2> QED  BY <1>3, <2>4
<1> QED  BY <1>3, <1>4 DEF Longest

LEMMA LongestUnique ==
    ASSUME NEW P, NEW T, NEW j, NEW b, NEW c, Longest(P, T, j, b), Longest(P, T, j, c)
    PROVE  b = c
<1>1. b \in Nat /\ c \in Nat
  BY DEF Longest, Match
<1>2. b <= c /\ c <= b
  BY <1>1 DEF Longest
<1> QED  BY <1>1, <1>2

(* What matches inside a match is a border of it.                           *)
LEMMA InnerMatch ==
    ASSUME NEW P, NEW T, NEW j \in Nat, NEW ll \in Nat, Match(P, T, j, ll),
           NEW c \in Nat, c < ll
    PROVE  Match(P, T, j, c) <=> Match(P, Rest(P), ll - 1, c)
<1>1. ll <= j /\ \A x \in Nat : x < ll => P[x] = T[(j - ll) + x]
  BY DEF Match
<1>2. c <= j /\ c <= ll - 1
  BY <1>1
<1>3. ASSUME NEW x \in Nat, x < c
      PROVE  T[(j - c) + x] = Rest(P)[((ll - 1) - c) + x]
  <2>1. (ll - c) + x \in Nat /\ (ll - c) + x < ll /\ (j - ll) + ((ll - c) + x) = (j - c) + x
    BY <1>1, <1>3
  <2>2. P[(ll - c) + x] = T[(j - c) + x]
    BY <1>1, <2>1
  <2>3. ((ll - 1) - c) + x \in Nat /\ (((ll - 1) - c) + x) + 1 = (ll - c) + x
    BY <1>3
  <2>4. Rest(P)[((ll - 1) - c) + x] = P[(ll - c) + x]
    BY <2>3 DEF Rest
  <2> QED  BY <2>2, <2>4
<1> QED  BY <1>2, <1>3 DEF Match

(* The table is right for the first n prefixes.                             *)
Borders(P, pmt, n) == \A l \in 0 .. n - 1 : Longest(P, Rest(P), l, pmt[l])

Falling(P, t, pmt, n, f) ==
    f = [ll \in 0 .. n |-> IF ll # 0 /\ t # P[ll] THEN f[pmt[ll - 1]] ELSE ll]

LEMMA BorderLess ==
    ASSUME NEW P, NEW pmt, NEW n \in Nat, Borders(P, pmt, n), NEW ll \in 1 .. n
    PROVE  pmt[ll - 1] \in 0 .. ll - 1 /\ Longest(P, Rest(P), ll - 1, pmt[ll - 1])
<1>1. ll - 1 \in 0 .. n - 1
  OBVIOUS
<1>2. Longest(P, Rest(P), ll - 1, pmt[ll - 1])
  BY <1>1 DEF Borders
<1>3. pmt[ll - 1] \in Nat /\ pmt[ll - 1] <= ll - 1
  BY <1>2 DEF Longest, Match
<1> QED  BY <1>2, <1>3

LEMMA FallingExists ==
    ASSUME NEW P, NEW t, NEW pmt, NEW n \in Nat, Borders(P, pmt, n)
    PROVE  \E f : Falling(P, t, pmt, n, f)
<1> DEFINE D == 0 .. n
           G == [ll \in D |-> ll # 0 /\ t # P[ll]]
           N == [ll \in D |-> pmt[ll - 1]]
           rank == [ll \in D |-> ll]
<1>1. ASSUME NEW s \in D
      PROVE  /\ rank[s] \in Nat /\ rank[s] <= n
             /\ G[s] => N[s] \in D /\ rank[N[s]] < rank[s]
  <2>1. s \in Nat /\ s <= n
    OBVIOUS
  <2>2. CASE s # 0
    <3>1. s \in 1 .. n
      BY <2>1, <2>2
    <3>2. pmt[s - 1] \in 0 .. s - 1
      BY <3>1, BorderLess
    <3>3. pmt[s - 1] \in D /\ pmt[s - 1] < s
      BY <2>1, <3>2
    <3> QED  BY <2>1, <3>3
  <2>3. CASE s = 0
    BY <2>1, <2>3
  <2> QED  BY <2>2, <2>3
<1>2. G \in [D -> BOOLEAN]
  OBVIOUS
<1>3. \E f : Run(D, G, N, f)
  <2> HIDE DEF D, G, N, rank
  <2>1. Descends(D, G, N, rank, n)
    BY <1>1 DEF Descends
  <2> QED  BY <1>2, <2>1, RunExists
<1>4. PICK f : Run(D, G, N, f)
  BY <1>3
<1>5. f = [ll \in 0 .. n |-> IF ll # 0 /\ t # P[ll] THEN f[pmt[ll - 1]] ELSE ll]
  BY <1>4 DEF Run
<1> QED  BY <1>5 DEF Falling

(* Falling never goes up, ...                                               *)
LEMMA FallingBound ==
    ASSUME NEW P, NEW t, NEW pmt, NEW n \in Nat, Borders(P, pmt, n),
           NEW f, Falling(P, t, pmt, n, f), NEW ll \in 0 .. n
    PROVE  f[ll] \in 0 .. ll
<1> DEFINE S == {l \in 0 .. n : f[l] \notin 0 .. l}
<1>1. \A l \in 0 .. n : f[l] = IF l # 0 /\ t # P[l] THEN f[pmt[l - 1]] ELSE l
  BY DEF Falling
<1>2. S = {}
  <2> SUFFICES ASSUME S # {}  PROVE  FALSE
    OBVIOUS
  <2>1. S \in SUBSET Nat
    OBVIOUS
  <2>2. PICK l \in S : \A x \in S : l <= x
    BY <2>1, LeastNat
  <2>3. l \in 0 .. n /\ l \in Nat /\ f[l] \notin 0 .. l
    BY <2>2
  <2>4. CASE l # 0 /\ t # P[l]
    <3>1. l \in 1 .. n
      BY <2>3, <2>4
    <3>2. pmt[l - 1] \in 0 .. l - 1
      BY <3>1, BorderLess
    <3> DEFINE b == pmt[l - 1]
    <3>3. b \in Nat /\ b < l /\ b \in 0 .. n /\ f[l] = f[b]
      BY <1>1, <2>3, <2>4, <3>2
    <3> HIDE DEF b
    <3>4. b \notin S
      BY <2>2, <2>3, <3>3
    <3>5. f[b] \in 0 .. b
      BY <3>3, <3>4
    <3> QED  BY <2>3, <3>3, <3>5
  <2>5. CASE ~ (l # 0 /\ t # P[l])
    BY <1>1, <2>3, <2>5
  <2> QED  BY <2>4, <2>5
<1> QED  BY <1>2

(* ... and from a match it goes to the longest one that goes on.            *)
FallsTo(P, T, j, ll, r) ==
    /\ Match(P, T, j, r)
    /\ r = 0 \/ P[r] = T[j]
    /\ \A c \in Nat : c <= ll /\ Match(P, T, j, c) /\ P[c] = T[j] => c <= r

LEMMA FallingRight ==
    ASSUME NEW P, NEW T, NEW j \in Nat, NEW pmt, NEW n \in Nat, Borders(P, pmt, n),
           NEW f, Falling(P, T[j], pmt, n, f), NEW ll \in 0 .. n, Match(P, T, j, ll)
    PROVE  FallsTo(P, T, j, ll, f[ll])
<1> DEFINE S == {l \in 0 .. n : Match(P, T, j, l) /\ ~FallsTo(P, T, j, l, f[l])}
<1>1. \A l \in 0 .. n : f[l] = IF l # 0 /\ T[j] # P[l] THEN f[pmt[l - 1]] ELSE l
  BY DEF Falling
<1>2. S = {}
  <2> SUFFICES ASSUME S # {}  PROVE  FALSE
    OBVIOUS
  <2>1. S \in SUBSET Nat
    OBVIOUS
  <2>2. PICK l \in S : \A x \in S : l <= x
    BY <2>1, LeastNat
  <2>3. l \in 0 .. n /\ l \in Nat /\ Match(P, T, j, l) /\ ~FallsTo(P, T, j, l, f[l])
    BY <2>2
  <2>4. CASE l # 0 /\ T[j] # P[l]
    <3>1. l \in 1 .. n
      BY <2>3, <2>4
    <3> DEFINE b == pmt[l - 1]
    <3>2. b \in 0 .. l - 1 /\ Longest(P, Rest(P), l - 1, b)
      BY <3>1, BorderLess
    <3>3. b \in Nat /\ b < l /\ b \in 0 .. n /\ f[l] = f[b]
      BY <1>1, <2>3, <2>4, <3>2
    <3> HIDE DEF b
    <3>4. Match(P, T, j, b)
      <4>1. Match(P, Rest(P), l - 1, b)
        BY <3>2 DEF Longest
      <4> QED  BY <2>3, <3>3, <4>1, InnerMatch
    <3>5. b \notin S
      BY <2>2, <2>3, <3>3
    <3>6. FallsTo(P, T, j, b, f[b])
      BY <3>3, <3>4, <3>5
    <3>7. ASSUME NEW c \in Nat, c <= l, Match(P, T, j, c), P[c] = T[j]  PROVE  c <= f[b]
      <4>1. c < l
        BY <2>3, <2>4, <3>7
      <4>2. Match(P, Rest(P), l - 1, c)
        BY <2>3, <3>7, <4>1, InnerMatch
      <4>3. c <= b
        BY <3>2, <4>2 DEF Longest
      <4> QED  BY <3>6, <3>7, <4>3 DEF FallsTo
    <3>8. FallsTo(P, T, j, l, f[b])
      BY <3>6, <3>7 DEF FallsTo
    <3> QED  BY <2>3, <3>3, <3>8
  <2>5. CASE ~ (l # 0 /\ T[j] # P[l])
    <3>1. f[l] = l /\ (l = 0 \/ P[l] = T[j])
      BY <1>1, <2>3, <2>5
    <3>2. FallsTo(P, T, j, l, l)
      BY <2>3, <3>1 DEF FallsTo
    <3> QED  BY <2>3, <3>1, <3>2
  <2> QED  BY <2>4, <2>5
<1> QED  BY <1>2

(* One more character.                                                      *)
LEMMA MatchOneMore ==
    ASSUME NEW P, NEW T, NEW j \in Nat, NEW c \in Nat
    PROVE  Match(P, T, j + 1, c + 1) <=> Match(P, T, j, c) /\ P[c] = T[j]
<1>1. (j + 1) - (c + 1) = j - c /\ (c + 1 <= j + 1 <=> c <= j) /\ c + 1 \in Nat
  OBVIOUS
<1>2. ASSUME Match(P, T, j + 1, c + 1)  PROVE  Match(P, T, j, c) /\ P[c] = T[j]
  <2>1. c <= j /\ \A x \in Nat : x < c + 1 => P[x] = T[(j - c) + x]
    BY <1>1, <1>2 DEF Match
  <2>2. \A x \in Nat : x < c => x < c + 1
    OBVIOUS
  <2>3. c < c + 1 /\ (j - c) + c = j
    OBVIOUS
  <2>4. P[c] = T[(j - c) + c]
    BY <2>1, <2>3
  <2> QED  BY <2>1, <2>2, <2>3, <2>4 DEF Match
<1>3. ASSUME Match(P, T, j, c), P[c] = T[j]  PROVE  Match(P, T, j + 1, c + 1)
  <2>1. c <= j /\ \A x \in Nat : x < c => P[x] = T[(j - c) + x]
    BY <1>3 DEF Match
  <2>2. \A x \in Nat : x < c + 1 => x < c \/ x = c
    OBVIOUS
  <2>3. (j - c) + c = j
    OBVIOUS
  <2>4. \A x \in Nat : x < c + 1 => P[x] = T[(j - c) + x]
    BY <1>3, <2>1, <2>2, <2>3
  <2> QED  BY <1>1, <2>1, <2>4 DEF Match
<1> QED  BY <1>2, <1>3

Advance(P, t, r) == IF t = P[r] THEN r + 1 ELSE r

LEMMA AdvanceLongest ==
    ASSUME NEW P, NEW T, NEW j \in Nat, NEW ix \in Nat, Longest(P, T, j, ix),
           NEW r \in Nat, FallsTo(P, T, j, ix, r)
    PROVE  Longest(P, T, j + 1, Advance(P, T[j], r))
<1>1. ASSUME NEW c \in Nat, Match(P, T, j + 1, c + 1)  PROVE  c <= r /\ P[c] = T[j]
  <2>1. Match(P, T, j, c) /\ P[c] = T[j]
    BY <1>1, MatchOneMore
  <2>2. c <= ix
    BY <2>1 DEF Longest
  <2> QED  BY <2>1, <2>2 DEF FallsTo
<1>2. CASE T[j] = P[r]
  <2>1. Match(P, T, j + 1, r + 1)
    BY <1>2, MatchOneMore DEF FallsTo
  <2>2. ASSUME NEW c \in Nat, Match(P, T, j + 1, c)  PROVE  c <= r + 1
    <3>1. CASE c = 0
      BY <3>1
    <3>2. CASE c # 0
      <4>1. c - 1 \in Nat /\ (c - 1) + 1 = c
        BY <3>2
      <4>2. c - 1 <= r
        BY <1>1, <2>2, <4>1
      <4> QED  BY <4>1, <4>2
    <3> QED  BY <3>1, <3>2
  <2> QED  BY <1>2, <2>1, <2>2 DEF Longest, Advance
<1>3. CASE T[j] # P[r]
  <2>1. r = 0
    BY <1>3 DEF FallsTo
  <2>2. Match(P, T, j + 1, 0)
    BY NoneMatch
  <2>3. ASSUME NEW c \in Nat, Match(P, T, j + 1, c)  PROVE  c <= 0
    <3>1. CASE c = 0
      BY <3>1
    <3>2. CASE c # 0
      <4>1. c - 1 \in Nat /\ (c - 1) + 1 = c
        BY <3>2
      <4>2. c - 1 <= r /\ P[c - 1] = T[j]
        BY <1>1, <2>3, <4>1
      <4>3. c - 1 = 0
        BY <2>1, <4>1, <4>2
      <4> QED  BY <1>3, <2>1, <4>2, <4>3
    <3> QED  BY <3>1, <3>2
  <2> QED  BY <1>3, <2>1, <2>2, <2>3 DEF Longest, Advance
<1> QED  BY <1>2, <1>3

(* The same for the code's operators.                                       *)
From(m, a) == [x \in Nat |-> m[a + x]]

LEMMA FallIs ==
    ASSUME NEW m, NEW str \in Nat, NEW pmt, NEW n \in Nat, NEW p,
           Borders(From(m, str), pmt, n)
    PROVE  Falling(From(m, str), m[p], pmt, n, Fall(m, str, pmt, n, p))
<1> DEFINE P == From(m, str)
           fall == CHOOSE fall : fall = [ll \in 0 .. n |->
                        IF ll # 0 /\ m[p] # m[str + ll] THEN fall[pmt[ll - 1]] ELSE ll]
<1>1. \A ll \in 0 .. n : P[ll] = m[str + ll]
  BY DEF From
<1> HIDE DEF P
<1>2. PICK f : Falling(P, m[p], pmt, n, f)
  BY FallingExists DEF P
<1>3. f = [ll \in 0 .. n |-> IF ll # 0 /\ m[p] # m[str + ll] THEN f[pmt[ll - 1]] ELSE ll]
  BY <1>1, <1>2 DEF Falling
<1>4. fall = [ll \in 0 .. n |-> IF ll # 0 /\ m[p] # m[str + ll] THEN fall[pmt[ll - 1]] ELSE ll]
  BY <1>3
<1>5. Fall(m, str, pmt, n, p) = fall
  BY DEF Fall, fall
<1> HIDE DEF fall
<1>6. Falling(P, m[p], pmt, n, fall)
  BY <1>1, <1>4 DEF Falling
<1> QED  BY <1>5, <1>6 DEF P

LEMMA MatchedIs ==
    ASSUME NEW m, NEW str \in Nat, NEW pmt, NEW n \in Nat, NEW p,
           Borders(From(m, str), pmt, n), NEW ix \in 0 .. n
    PROVE  /\ Matched(m, str, pmt, n, p, ix) \in 0 .. ix + 1
           /\ \A T : \A j \in Nat : T[j] = m[p] /\ Longest(From(m, str), T, j, ix) =>
                Longest(From(m, str), T, j + 1, Matched(m, str, pmt, n, p, ix))
<1> DEFINE f == Fall(m, str, pmt, n, p)
           P == From(m, str)
<1>1. Falling(P, m[p], pmt, n, f)
  BY FallIs
<1>2. f[ix] \in 0 .. ix /\ f[ix] \in Nat /\ ix \in Nat
  <2> HIDE DEF f, P
  <2>1. Borders(P, pmt, n)
    BY DEF P
  <2>2. f[ix] \in 0 .. ix
    BY <1>1, <2>1, FallingBound
  <2> QED  BY <2>2
<1>3. Matched(m, str, pmt, n, p, ix) = Advance(P, m[p], f[ix])
  <2>1. \A r \in Nat : P[r] = m[str + r]
    BY DEF From
  <2>2. Matched(m, str, pmt, n, p, ix) = IF m[p] = m[str + f[ix]] THEN f[ix] + 1 ELSE f[ix]
    BY DEF Matched
  <2> HIDE DEF f, P
  <2> QED  BY <1>2, <2>1, <2>2 DEF Advance
<1>4. Borders(P, pmt, n)
  OBVIOUS
<1> HIDE DEF f, P
<1>5. Advance(P, m[p], f[ix]) \in 0 .. ix + 1
  BY <1>2 DEF Advance
<1>6. ASSUME NEW T, NEW j \in Nat, T[j] = m[p], Longest(P, T, j, ix)
      PROVE  Longest(P, T, j + 1, Advance(P, m[p], f[ix]))
  <2>1. Falling(P, T[j], pmt, n, f) /\ Match(P, T, j, ix)
    BY <1>1, <1>6 DEF Longest
  <2>2. FallsTo(P, T, j, ix, f[ix])
    BY <1>4, <2>1, FallingRight
  <2>3. Longest(P, T, j + 1, Advance(P, T[j], f[ix]))
    BY <1>2, <1>6, <2>2, AdvanceLongest
  <2> QED  BY <1>6, <2>3
<1> QED  BY <1>3, <1>5, <1>6 DEF P

(* make_pmt: for each prefix its longest border.                            *)
LEMMA TableStep ==
    ASSUME NEW m, NEW str \in Nat, NEW pmt, NEW ix \in Nat, ix # 0,
           Borders(From(m, str), pmt, ix)
    PROVE  Longest(From(m, str), Rest(From(m, str)), ix,
                   Matched(m, str, pmt, ix - 1, str + ix, pmt[ix - 1]))
<1> DEFINE P == From(m, str)
           b == pmt[ix - 1]
<1>1. ix - 1 \in Nat /\ ix \in 1 .. ix /\ (ix - 1) + 1 = ix
  OBVIOUS
<1>2. b \in 0 .. ix - 1 /\ Longest(P, Rest(P), ix - 1, b)
  <2> HIDE DEF P
  <2>1. Borders(P, pmt, ix)
    BY DEF P
  <2> QED  BY <1>1, <2>1, BorderLess
<1>3. Borders(P, pmt, ix - 1)
  <2>1. \A l \in 0 .. (ix - 1) - 1 : l \in 0 .. ix - 1
    BY <1>1
  <2> HIDE DEF P
  <2>2. Borders(P, pmt, ix)
    BY DEF P
  <2> QED  BY <2>1, <2>2 DEF Borders
<1>4. Rest(P)[ix - 1] = m[str + ix]
  BY <1>1 DEF Rest, From
<1>5. \A T : \A j \in Nat : T[j] = m[str + ix] /\ Longest(P, T, j, b) =>
            Longest(P, T, j + 1, Matched(m, str, pmt, ix - 1, str + ix, b))
  <2> HIDE DEF b
  <2> QED  BY <1>1, <1>2, <1>3, MatchedIs
<1> HIDE DEF P, b
<1>6. Longest(P, Rest(P), (ix - 1) + 1, Matched(m, str, pmt, ix - 1, str + ix, b))
  BY <1>1, <1>2, <1>4, <1>5
<1> QED  BY <1>1, <1>6 DEF P, b

LEMMA LongestAtStart ==
    ASSUME NEW P, NEW T, NEW b, Longest(P, T, 0, b)
    PROVE  b = 0
BY DEF Longest, Match

LEMMA TableRight ==
    ASSUME SInv, NEW q \in Pointer, NEW F, F = End(q) - q
    PROVE  Borders(From(chars, q), make_pmt(chars, q), F)
<1> DEFINE P == From(chars, q)
           e == strlen(chars, q) - 1
           long(ix) == CHOOSE b : Longest(P, Rest(P), ix, b)
           g == [ix \in 0 .. e |-> long(ix)]
           ret == CHOOSE ret : ret = [ix \in 0 .. e |->
                    IF ix = 0 THEN 0 ELSE Matched(chars, q, ret, ix - 1, q + ix, ret[ix - 1])]
<1>1. e = F - 1 /\ F \in Nat /\ q \in Nat
  BY LengthIs, EndFacts
<1>2. make_pmt(chars, q) = ret
  BY DEF make_pmt, ret, e
<1> HIDE DEF P, e
<1>3. \A ix \in Nat : Longest(P, Rest(P), ix, long(ix))
  BY LongestExists
<1> HIDE DEF long
<1>4. ASSUME NEW h, NEW ix \in 0 .. e, \A l \in 0 .. e : l < ix => h[l] = long(l)
      PROVE  (IF ix = 0 THEN 0 ELSE Matched(chars, q, h, ix - 1, q + ix, h[ix - 1])) = long(ix)
  <2>1. ix \in Nat /\ ix <= e
    BY <1>1
  <2>2. Longest(P, Rest(P), ix, long(ix))
    BY <1>3, <2>1
  <2>3. CASE ix = 0
    <3>1. long(0) = 0
      BY <2>2, <2>3, LongestAtStart
    <3> QED  BY <2>3, <3>1
  <2>4. CASE ix # 0
    <3>1. Borders(P, h, ix)
      <4>1. ASSUME NEW l \in 0 .. ix - 1  PROVE  Longest(P, Rest(P), l, h[l])
        <5>1. l \in Nat /\ l \in 0 .. e /\ l < ix
          BY <1>1, <2>1
        <5> QED  BY <1>3, <1>4, <5>1
      <4> QED  BY <4>1 DEF Borders
    <3>2. Longest(P, Rest(P), ix, Matched(chars, q, h, ix - 1, q + ix, h[ix - 1]))
      BY <1>1, <2>1, <2>4, <3>1, TableStep DEF P
    <3>3. Matched(chars, q, h, ix - 1, q + ix, h[ix - 1]) = long(ix)
      BY <2>2, <3>2, LongestUnique
    <3> QED  BY <2>4, <3>3
  <2> QED  BY <2>3, <2>4
<1>5. g = [ix \in 0 .. e |-> IF ix = 0 THEN 0 ELSE Matched(chars, q, g, ix - 1, q + ix, g[ix - 1])]
  <2>1. \A l \in 0 .. e : g[l] = long(l)
    OBVIOUS
  <2>2. g = [ix \in 0 .. e |-> g[ix]]
    OBVIOUS
  <2> HIDE DEF g
  <2>3. \A ix \in 0 .. e :
            (IF ix = 0 THEN 0 ELSE Matched(chars, q, g, ix - 1, q + ix, g[ix - 1])) = long(ix)
    BY <1>4, <2>1
  <2>4. \A ix \in 0 .. e :
            g[ix] = IF ix = 0 THEN 0 ELSE Matched(chars, q, g, ix - 1, q + ix, g[ix - 1])
    BY <2>1, <2>3
  <2> QED  BY <2>2, <2>4
<1> HIDE DEF g
<1>6. ret = [ix \in 0 .. e |->
                IF ix = 0 THEN 0 ELSE Matched(chars, q, ret, ix - 1, q + ix, ret[ix - 1])]
  BY <1>5
<1> HIDE DEF ret
<1>7. \A ix \in 0 .. e :
            ret[ix] = IF ix = 0 THEN 0 ELSE Matched(chars, q, ret, ix - 1, q + ix, ret[ix - 1])
  BY <1>6
<1> DEFINE B == {ix \in 0 .. e : ret[ix] # long(ix)}
<1>8. B = {}
  <2> SUFFICES ASSUME B # {}  PROVE  FALSE
    OBVIOUS
  <2>1. B \in SUBSET Nat
    OBVIOUS
  <2>2. PICK ix \in B : \A x \in B : ix <= x
    BY <2>1, LeastNat
  <2>3. ix \in 0 .. e /\ ix \in Nat /\ ret[ix] # long(ix)
    BY <2>2
  <2>4. ASSUME NEW l \in 0 .. e, l < ix  PROVE  ret[l] = long(l)
    <3>1. ~ (ix <= l)
      BY <2>3, <2>4
    <3>2. l \notin B
      BY <2>2, <3>1
    <3> QED  BY <3>2
  <2>5. (IF ix = 0 THEN 0 ELSE Matched(chars, q, ret, ix - 1, q + ix, ret[ix - 1])) = long(ix)
    BY <1>4, <2>3, <2>4
  <2> QED  BY <1>7, <2>3, <2>5
<1>9. ASSUME NEW l \in 0 .. F - 1  PROVE  Longest(P, Rest(P), l, ret[l])
  <2>1. l \in 0 .. e /\ l \in Nat
    BY <1>1
  <2>2. ret[l] = long(l)
    BY <1>8, <2>1
  <2> QED  BY <1>3, <2>1, <2>2
<1>10. Borders(P, ret, F)
  BY <1>9 DEF Borders
<1> QED  BY <1>2, <1>10 DEF P

(* Where the loop of strfind ends.                                          *)
Ended(P, T, F, S, s) ==
    /\ s \in (0 .. F) \X (0 .. S)
    /\ Longest(P, T, s[2], s[1])
    /\ \A j \in Nat : j < s[2] => ~Match(P, T, j, F)

LEMMA SearchEnds ==
    ASSUME SInv, NEW p \in Pointer, NEW q \in Pointer, NEW F, F = End(q) - q, F # 0,
           NEW S, S = End(p) - p
    PROVE  \E s : /\ Ended(From(chars, q), From(chars, p), F, S, s)
                  /\ s[1] = F \/ s[2] = S
                  /\ strfind(chars, p, q) =
                        IF F > S THEN -1 ELSE IF s[1] = F THEN s[2] - F ELSE -1
<1> DEFINE P == From(chars, q)
           T == From(chars, p)
           sLen == strlen(chars, p)
           fLen == strlen(chars, q)
           pmt == make_pmt(chars, q)
           D == (0 .. fLen) \X (0 .. sLen)
           M(s) == Matched(chars, q, pmt, fLen - 1, p + s[2], s[1])
           loop == CHOOSE loop : loop = [s \in D |->
                        IF s[1] = fLen \/ s[2] = sLen THEN s ELSE loop[<<M(s), s[2] + 1>>]]
<1>1. /\ F \in Nat /\ S \in Nat /\ p \in Nat /\ q \in Nat /\ fLen = F /\ sLen = S
      /\ fLen - 1 \in Nat /\ 1 <= F
  BY LengthIs, EndFacts
<1>2. Borders(P, pmt, fLen - 1)
  <2>1. Borders(P, pmt, F)
    BY TableRight
  <2>2. \A l \in 0 .. (fLen - 1) - 1 : l \in 0 .. F - 1
    BY <1>1
  <2> HIDE DEF P, pmt, fLen
  <2> QED  BY <2>1, <2>2 DEF Borders
<1>3. strfind(chars, p, q) =
        IF fLen <= 0 \/ fLen > sLen THEN -1
        ELSE IF loop[<<0, 0>>][1] = fLen THEN loop[<<0, 0>>][2] - fLen ELSE -1
  BY DEF strfind, loop, D, M, pmt, fLen, sLen
<1> HIDE DEF sLen, fLen, pmt, P, T
<1>4. ASSUME NEW s \in D, ~ (s[1] = fLen \/ s[2] = sLen)
      PROVE  /\ s[1] \in Nat /\ s[2] \in Nat /\ s[1] < F /\ s[2] < S
             /\ <<M(s), s[2] + 1>> \in D
             /\ Longest(P, T, s[2], s[1]) => Longest(P, T, s[2] + 1, M(s))
  <2>1. s[1] \in 0 .. fLen - 1 /\ s[2] \in 0 .. sLen /\ s[1] \in Nat /\ s[2] \in Nat
        /\ s[1] < F /\ s[2] < S
    BY <1>1, <1>4
  <2>2. /\ M(s) \in 0 .. s[1] + 1
        /\ \A Q : \A j \in Nat : Q[j] = chars[p + s[2]] /\ Longest(P, Q, j, s[1]) =>
                Longest(P, Q, j + 1, M(s))
    <3> DEFINE ix == s[1]
               a == p + s[2]
    <3>1. ix \in 0 .. fLen - 1 /\ Borders(From(chars, q), pmt, fLen - 1)
      BY <1>2, <2>1 DEF P
    <3> HIDE DEF ix, a
    <3>2. /\ Matched(chars, q, pmt, fLen - 1, a, ix) \in 0 .. ix + 1
          /\ \A Q : \A j \in Nat : Q[j] = chars[a] /\ Longest(From(chars, q), Q, j, ix) =>
                Longest(From(chars, q), Q, j + 1, Matched(chars, q, pmt, fLen - 1, a, ix))
      BY <1>1, <3>1, MatchedIs
    <3> QED  BY <3>2, Zenon DEF ix, a, P
  <2>3. T[s[2]] = chars[p + s[2]]
    BY <2>1 DEF T, From
  <2> DEFINE n == M(s)
  <2>4. n \in 0 .. fLen /\ s[2] + 1 \in 0 .. sLen
    <3> HIDE DEF M
    <3> QED  BY <1>1, <2>1, <2>2
  <2>5. <<n, s[2] + 1>> \in D
    <3> HIDE DEF n
    <3> QED  BY <2>4
  <2> HIDE DEF M
  <2> QED  BY <2>1, <2>2, <2>3, <2>5
<1> DEFINE G == [s \in D |-> ~ (s[1] = fLen \/ s[2] = sLen)]
           N == [s \in D |-> <<M(s), s[2] + 1>>]
           rank == [s \in D |-> S - s[2]]
<1>5. Descends(D, G, N, rank, S)
  <2>1. ASSUME NEW s \in D
        PROVE  /\ rank[s] \in Nat /\ rank[s] <= S
               /\ G[s] => N[s] \in D /\ rank[N[s]] < rank[s]
    <3>1. s[2] \in Nat /\ s[2] <= S
      BY <1>1
    <3>2. rank[s] = S - s[2] /\ G[s] = (~ (s[1] = fLen \/ s[2] = sLen)) /\ N[s] = <<M(s), s[2] + 1>>
      OBVIOUS
    <3>3. CASE G[s]
      <4> DEFINE u == <<M(s), s[2] + 1>>
      <4>1. u \in D
        BY <1>4, <3>2, <3>3
      <4>2. u[2] = s[2] + 1
        <5> HIDE DEF M
        <5> QED  OBVIOUS
      <4>3. rank[u] = S - u[2]
        <5> HIDE DEF u
        <5> QED  BY <4>1
      <4> HIDE DEF u, rank, N, G, M
      <4>4. N[s] = u
        BY <3>2 DEF u
      <4> QED  BY <1>1, <3>1, <3>2, <4>1, <4>2, <4>3, <4>4
    <3>4. CASE ~G[s]
      <4> HIDE DEF rank, N, G, M, D
      <4> QED  BY <1>1, <3>1, <3>2, <3>4
    <3> QED  BY <3>3, <3>4
  <2> HIDE DEF rank, N, G, M, D
  <2> QED  BY <2>1 DEF Descends
<1>6. \E f : Run(D, G, N, f)
  <2>1. G \in [D -> BOOLEAN]
    OBVIOUS
  <2> HIDE DEF D, G, N, rank
  <2> QED  BY <1>1, <1>5, <2>1, RunExists
<1>7. PICK f : Run(D, G, N, f)
  BY <1>6
<1>8. f = [s \in D |-> IF s[1] = fLen \/ s[2] = sLen THEN s ELSE f[<<M(s), s[2] + 1>>]]
  <2>1. f = [s \in D |-> IF G[s] THEN f[N[s]] ELSE s]
    BY <1>7 DEF Run
  <2>2. \A s \in D : G[s] = (~ (s[1] = fLen \/ s[2] = sLen)) /\ N[s] = <<M(s), s[2] + 1>>
    OBVIOUS
  <2> HIDE DEF D, G, N, M
  <2> QED  BY <2>1, <2>2
<1>9. loop = [s \in D |-> IF s[1] = fLen \/ s[2] = sLen THEN s ELSE loop[<<M(s), s[2] + 1>>]]
  <2> HIDE DEF D, M
  <2> QED  BY <1>8
<1> HIDE DEF loop
<1>10. \A s \in D : loop[s] = IF s[1] = fLen \/ s[2] = sLen THEN s ELSE loop[<<M(s), s[2] + 1>>]
  <2> HIDE DEF D, M
  <2> QED  BY <1>9
<1> DEFINE Good(e) == Ended(P, T, F, S, e) /\ (e[1] = F \/ e[2] = S)
           B == {d \in Nat : \E s \in D : S - s[2] = d /\ Ended(P, T, F, S, s) /\ ~Good(loop[s])}
<1>11. B = {}
  <2> SUFFICES ASSUME B # {}  PROVE  FALSE
    OBVIOUS
  <2> HIDE DEF M, D, Good
  <2>1. PICK d \in B : \A x \in B : d <= x
    BY LeastNat
  <2>2. PICK s \in D : S - s[2] = d /\ Ended(P, T, F, S, s) /\ ~Good(loop[s])
    BY <2>1
  <2>3. CASE s[1] = fLen \/ s[2] = sLen
    <3>1. loop[s] = s
      BY <1>10, <2>3
    <3> QED  BY <1>1, <2>2, <2>3, <3>1 DEF Good
  <2>4. CASE ~ (s[1] = fLen \/ s[2] = sLen)
    <3> DEFINE u == <<M(s), s[2] + 1>>
    <3>1. /\ s[1] \in Nat /\ s[2] \in Nat /\ s[1] < F /\ s[2] < S
          /\ u \in D
          /\ Longest(P, T, s[2], s[1]) => Longest(P, T, s[2] + 1, M(s))
      BY <1>4, <2>4
    <3>2. u[1] = M(s) /\ u[2] = s[2] + 1
      OBVIOUS
    <3>3. loop[s] = loop[u]
      BY <1>10, <2>4
    <3> HIDE DEF u
    <3>4. /\ Longest(P, T, s[2], s[1])
          /\ \A j \in Nat : j < s[2] => ~Match(P, T, j, F)
      BY <2>2 DEF Ended
    <3>5. ASSUME NEW j \in Nat, j < s[2] + 1  PROVE  ~Match(P, T, j, F)
      <4>1. CASE j < s[2]
        BY <3>4, <4>1
      <4>2. CASE j = s[2]
        <5>1. ~ (F <= s[1])
          BY <1>1, <3>1
        <5> QED  BY <1>1, <3>4, <4>2, <5>1 DEF Longest
      <4> QED  BY <3>1, <3>5, <4>1, <4>2
    <3>6. Ended(P, T, F, S, u)
      BY <1>1, <3>1, <3>2, <3>4, <3>5 DEF Ended, D
    <3>7. S - u[2] \in Nat /\ S - u[2] < d
      BY <1>1, <2>2, <3>1, <3>2
    <3>8. S - u[2] \notin B
      BY <2>1, <3>7
    <3>9. Good(loop[u])
      BY <3>1, <3>6, <3>7, <3>8
    <3> QED  BY <2>2, <3>3, <3>9
  <2> QED  BY <2>3, <2>4
<1> DEFINE z == <<0, 0>>
<1>12. z \in D /\ z[1] = 0 /\ z[2] = 0
  BY <1>1
<1>13. Ended(P, T, F, S, z)
  <2>1. Longest(P, T, 0, 0)
    <3>1. \A c \in Nat : Match(P, T, 0, c) => c <= 0
      BY DEF Match
    <3> QED  BY <3>1, NoneMatch DEF Longest
  <2> HIDE DEF z
  <2> QED  BY <1>1, <1>12, <2>1 DEF Ended
<1>14. Good(loop[z])
  <2>1. S - z[2] \in Nat /\ S - z[2] \notin B
    BY <1>1, <1>11, <1>12
  <2> HIDE DEF z, D, M, Good
  <2> QED  BY <1>12, <1>13, <2>1
<1>15. strfind(chars, p, q) = IF F > S THEN -1 ELSE IF loop[z][1] = F THEN loop[z][2] - F ELSE -1
  <2>1. ~ (fLen <= 0)
    BY <1>1
  <2> HIDE DEF D, M
  <2> QED  BY <1>1, <1>3, <2>1
<1> QED  BY <1>14, <1>15 DEF P, T

LEMMA PartIs ==
    ASSUME NEW V, NEW s \in Seq(V), NEW o \in Nat, NEW n \in Nat, o + n <= Len(s)
    PROVE  /\ SubSeq(s, o + 1, o + n) \in Seq(V) /\ Len(SubSeq(s, o + 1, o + n)) = n
           /\ \A k \in 1 .. n : SubSeq(s, o + 1, o + n)[k] = s[o + k]
<1>1. \A ix \in o + 1 .. o + n : s[ix] \in V
  <2>1. \A ix \in o + 1 .. o + n : ix \in 1 .. Len(s)
    OBVIOUS
  <2> QED  BY <2>1
<1>2. /\ SubSeq(s, o + 1, o + n) \in Seq(V)
      /\ Len(SubSeq(s, o + 1, o + n))
            = IF o + 1 <= o + n THEN (o + n) - (o + 1) + 1 ELSE 0
      /\ \A k \in 1 .. (o + n) - (o + 1) + 1 : SubSeq(s, o + 1, o + n)[k] = s[(o + 1) + k - 1]
  <2>1. o + 1 \in Int /\ o + n \in Int
    OBVIOUS
  <2> QED  BY <1>1, <2>1, SubSeqProperties
<1>3. /\ (o + n) - (o + 1) + 1 = n /\ (o + 1 <= o + n \/ n = 0)
      /\ \A k \in 1 .. n : (o + 1) + k - 1 = o + k
  OBVIOUS
<1> QED  BY <1>2, <1>3

LEMMA PartEqual ==
    ASSUME NEW V, NEW s \in Seq(V), NEW t \in Seq(V), NEW o \in Nat, o + Len(t) <= Len(s)
    PROVE  SubSeq(s, o + 1, o + Len(t)) = t <=> \A k \in 1 .. Len(t) : s[o + k] = t[k]
<1> DEFINE n == Len(t)
           a == SubSeq(s, o + 1, o + n)
<1>1. n \in Nat
  OBVIOUS
<1>2. a \in Seq(V) /\ Len(a) = n /\ \A k \in 1 .. n : a[k] = s[o + k]
  BY <1>1, PartIs
<1> HIDE DEF a
<1>3. a = t <=> \A k \in 1 .. n : a[k] = t[k]
  <2>1. ASSUME \A k \in 1 .. n : a[k] = t[k]  PROVE  a = t
    BY <1>2, <2>1, SeqEqual
  <2> QED  BY <2>1
<1> QED  BY <1>2, <1>3 DEF a

LEMMA OccurrenceIs ==
    ASSUME SInv, NEW p \in Pointer, NEW q \in Pointer, NEW o \in Nat,
           o + (End(q) - q) <= End(p) - p
    PROVE  SubSeq(Text(p), o + 1, o + Len(Text(q))) = Text(q)
                <=> Match(From(chars, q), From(chars, p), o + (End(q) - q), End(q) - q)
<1> DEFINE s == Text(p)
           t == Text(q)
           F == End(q) - q
           S == End(p) - p
<1>1. /\ s \in Seq(Char) /\ t \in Seq(Char) /\ Len(s) = S /\ Len(t) = F /\ F \in Nat /\ S \in Nat
      /\ p \in Nat /\ q \in Nat
      /\ \A k \in 1 .. S : s[k] = chars[p + k - 1]
      /\ \A k \in 1 .. F : t[k] = chars[q + k - 1]
  BY TextIs, PointerIs
<1>2. o + F <= S
  OBVIOUS
<1>3. Match(From(chars, q), From(chars, p), o + F, F)
            <=> \A x \in Nat : x < F => From(chars, q)[x] = From(chars, p)[o + x]
  <2>1. F <= o + F /\ (o + F) - F = o
    BY <1>1
  <2> HIDE DEF F
  <2> QED  BY <1>1, <2>1 DEF Match
<1> HIDE DEF s, t, F, S
<1>4. SubSeq(s, o + 1, o + Len(t)) = t <=> \A k \in 1 .. F : s[o + k] = t[k]
  <2>1. o + Len(t) <= Len(s)
    BY <1>1, <1>2
  <2>2. SubSeq(s, o + 1, o + Len(t)) = t <=> \A k \in 1 .. Len(t) : s[o + k] = t[k]
    <3>1. s \in Seq(Char) /\ t \in Seq(Char) /\ o \in Nat
      BY <1>1
    <3> QED  BY <2>1, <3>1, PartEqual, ZenonT(40)
  <2> QED  BY <1>1, <2>2
<1>5. \A k \in 1 .. F : k - 1 \in Nat /\ k - 1 < F /\ o + k \in 1 .. S
                        /\ s[o + k] = From(chars, p)[o + (k - 1)] /\ t[k] = From(chars, q)[k - 1]
  <2> TAKE k \in 1 .. F
  <2>1. /\ k - 1 \in Nat /\ k - 1 < F /\ o + k \in 1 .. S /\ o + (k - 1) \in Nat
        /\ p + (o + k) - 1 = p + (o + (k - 1)) /\ q + k - 1 = q + (k - 1)
    BY <1>1, <1>2
  <2>2. s[o + k] = chars[p + (o + (k - 1))] /\ t[k] = chars[q + (k - 1)]
    BY <1>1, <2>1
  <2> QED  BY <2>1, <2>2 DEF From
<1>6. \A x \in Nat : x < F => x + 1 \in 1 .. F /\ (x + 1) - 1 = x
  BY <1>1
<1>7. (\A k \in 1 .. F : s[o + k] = t[k])
            <=> \A x \in Nat : x < F => From(chars, q)[x] = From(chars, p)[o + x]
  <2>1. ASSUME \A k \in 1 .. F : s[o + k] = t[k], NEW x \in Nat, x < F
        PROVE  From(chars, q)[x] = From(chars, p)[o + x]
    <3>1. s[o + (x + 1)] = t[x + 1]
      BY <1>6, <2>1
    <3>2. s[o + (x + 1)] = From(chars, p)[o + x] /\ t[x + 1] = From(chars, q)[x]
      BY <1>5, <1>6, <2>1
    <3> QED  BY <3>1, <3>2
  <2>2. ASSUME \A x \in Nat : x < F => From(chars, q)[x] = From(chars, p)[o + x],
               NEW k \in 1 .. F
        PROVE  s[o + k] = t[k]
    BY <1>5, <2>2
  <2> QED  BY <2>1, <2>2
<1> QED  BY <1>3, <1>4, <1>7 DEF s, t, F

LEMMA FindAgrees ==
    ASSUME SInv, NEW p \in Pointer, NEW q \in Pointer
    PROVE  strfind(chars, p, q) =
                IF Text(q) = <<>> THEN -1 ELSE Least(Occurrences(Text(p), Text(q)))
<1> DEFINE F == End(q) - q
           S == End(p) - p
           P == From(chars, q)
           T == From(chars, p)
           O == Occurrences(Text(p), Text(q))
<1>1. /\ Text(p) \in Seq(Char) /\ Len(Text(p)) = S /\ S \in Nat
      /\ Text(q) \in Seq(Char) /\ Len(Text(q)) = F /\ F \in Nat
  BY TextIs
<1>2. Text(q) = <<>> <=> F = 0
  BY <1>1, EmptySeq
<1>3. CASE F = 0
  <2>1. strlen(chars, q) <= 0
    BY <1>3, LengthIs
  <2>2. strfind(chars, p, q) = -1
    BY <2>1 DEF strfind
  <2> QED  BY <1>2, <1>3, <2>2
<1>4. CASE F # 0
  <2>1. PICK s : /\ Ended(P, T, F, S, s)
                 /\ s[1] = F \/ s[2] = S
                 /\ strfind(chars, p, q) =
                        IF F > S THEN -1 ELSE IF s[1] = F THEN s[2] - F ELSE -1
    BY <1>4, SearchEnds
  <2>2. O = {o \in 0 .. S - F : SubSeq(Text(p), o + 1, o + Len(Text(q))) = Text(q)}
    BY <1>1 DEF Occurrences
  <2>3. \A o \in 0 .. S - F :
            SubSeq(Text(p), o + 1, o + Len(Text(q))) = Text(q) <=> Match(P, T, o + F, F)
    <3> TAKE o \in 0 .. S - F
    <3>1. o \in Nat /\ o + F <= S
      BY <1>1
    <3> QED  BY <3>1, OccurrenceIs
  <2> HIDE DEF F, S, P, T, O
  <2>4. O = {o \in 0 .. S - F : Match(P, T, o + F, F)}
    BY <2>2, <2>3
  <2>5. O \in SUBSET Nat
    BY <2>4
  <2>6. /\ s[1] \in Nat /\ s[2] \in Nat /\ s[1] <= F /\ s[2] <= S
        /\ Match(P, T, s[2], s[1]) /\ s[1] <= s[2]
        /\ \A c \in Nat : Match(P, T, s[2], c) => c <= s[1]
        /\ \A j \in Nat : j < s[2] => ~Match(P, T, j, F)
    BY <1>1, <2>1 DEF Ended, Longest, Match
  <2>7. CASE F > S
    <3>1. O = {}
      BY <1>1, <2>4, <2>7
    <3> QED  BY <1>2, <1>4, <2>1, <2>7, <3>1 DEF O, Least
  <2>8. CASE ~ (F > S) /\ s[1] = F
    <3>1. s[2] - F \in 0 .. S - F /\ (s[2] - F) + F = s[2]
      BY <1>1, <2>6, <2>8
    <3>2. s[2] - F \in O
      BY <2>4, <2>6, <2>8, <3>1
    <3>3. \A o \in O : s[2] - F <= o
      <4> TAKE o \in O
      <4>1. o \in Nat /\ Match(P, T, o + F, F) /\ o + F \in Nat
        BY <1>1, <2>4
      <4>2. ~ (o + F < s[2])
        BY <2>6, <4>1
      <4> QED  BY <1>1, <2>6, <4>1, <4>2
    <3>4. Least(O) = s[2] - F
      BY <2>5, <3>2, <3>3, LeastIs
    <3> QED  BY <1>2, <1>4, <2>1, <2>8, <3>4 DEF O
  <2>9. CASE ~ (F > S) /\ s[1] # F
    <3>1. s[2] = S
      BY <2>1, <2>9
    <3>2. ASSUME NEW o \in O  PROVE  FALSE
      <4>1. o \in Nat /\ Match(P, T, o + F, F) /\ o + F \in Nat /\ o + F <= S
        BY <1>1, <2>4
      <4>2. o + F = S
        BY <2>6, <3>1, <4>1, <1>1
      <4>3. F <= s[1]
        BY <1>1, <2>6, <3>1, <4>1, <4>2
      <4> QED  BY <1>1, <2>6, <2>9, <4>3
    <3>3. O = {}
      BY <3>2
    <3> QED  BY <1>2, <1>4, <2>1, <2>9, <3>3 DEF O, Least
  <2> QED  BY <2>7, <2>8, <2>9
<1> QED  BY <1>3, <1>4

LEMMA SubstringAgrees ==
    ASSUME SInv, NEW p \in Pointer, NEW q \in Pointer, strstr(chars, p, q) # -1
    PROVE  SubSeq(Text(strstr(chars, p, q)), 1, Len(Text(q))) = Text(q)
<1> DEFINE ix == strfind(chars, p, q)
           t == Text(q)
           O == Occurrences(Text(p), t)
<1>1. ix # -1 /\ strstr(chars, p, q) = p + ix
  BY DEF strstr
<1>2. ix = IF t = <<>> THEN -1 ELSE Least(O)
  BY FindAgrees
<1>3. O # {} /\ ix = Least(O)
  <2> HIDE DEF ix, t, O
  <2> QED  BY <1>1, <1>2 DEF Least
<1>4. /\ Text(p) \in Seq(Char) /\ Len(Text(p)) = End(p) - p /\ End(p) - p \in Nat
      /\ t \in Seq(Char) /\ Len(t) = End(q) - q /\ End(q) - q \in Nat
      /\ \A k \in 1 .. End(p) - p : Text(p)[k] = chars[p + k - 1]
      /\ \A k \in 0 .. End(p) - p : p + k \in Pointer
  BY TextIs
<1>5. ix \in O
  <2>1. O \in SUBSET Nat
    BY <1>4 DEF Occurrences
  <2>2. PICK o \in O : \A x \in O : o <= x
    BY <1>3, <2>1, LeastNat
  <2> HIDE DEF O, ix
  <2>3. Least(O) = o
    BY <2>1, <2>2, LeastIs
  <2> QED  BY <1>3, <2>2, <2>3
<1> DEFINE F == End(q) - q
           S == End(p) - p
<1>6. ix \in Nat /\ ix + F <= S /\ SubSeq(Text(p), ix + 1, ix + Len(t)) = t
  <2> HIDE DEF ix, t
  <2> QED  BY <1>4, <1>5 DEF Occurrences
<1> HIDE DEF ix, t, O
<1>7. p \in Nat /\ End(p) \in Nat /\ q \in Nat /\ End(q) \in Nat /\ p <= End(p) /\ q <= End(q)
  BY EndFacts
<1>8. p + ix \in Pointer /\ End(p + ix) = End(p)
  <2>1. ix \in 0 .. End(p) - p /\ p + ix <= End(p)
    <3>1. ix <= S /\ S \in Nat /\ S = End(p) - p
      <4>1. F \in Nat /\ S \in Nat
        BY <1>4
      <4> HIDE DEF F, S
      <4>2. ix <= S
        BY <1>6, <4>1
      <4> QED  BY <4>1, <4>2 DEF S
    <3> HIDE DEF F, S
    <3> QED  BY <1>6, <1>7, <3>1
  <2>2. p + ix \in Pointer
    BY <1>4, <2>1
  <2>3. IsEnd(p + ix, End(p))
    <3>1. IsEnd(p, End(p))
      BY EndIs
    <3>2. \A a \in p + ix .. End(p) - 1 : a \in p .. End(p) - 1
      BY <1>6, <1>7
    <3> QED  BY <2>1, <3>1, <3>2 DEF IsEnd
  <2> QED  BY <2>2, <2>3, EndIs
<1> DEFINE u == Text(p + ix)
<1>9. /\ u \in Seq(Char) /\ Len(u) = S - ix /\ S - ix \in Nat
      /\ \A k \in 1 .. S - ix : u[k] = chars[(p + ix) + k - 1]
  <2>1. End(p) - (p + ix) = S - ix /\ S - ix \in Nat
    BY <1>6, <1>7
  <2> QED  BY <1>8, <2>1, TextIs
<1> HIDE DEF u
<1>10. \A k \in 1 .. F : t[k] = u[k]
  <2>1. \A k \in 1 .. Len(t) : Text(p)[ix + k] = t[k]
    <3>1. ix + Len(t) <= Len(Text(p))
      BY <1>4, <1>6
    <3>2. SubSeq(Text(p), ix + 1, ix + Len(t)) = t
                <=> \A k \in 1 .. Len(t) : Text(p)[ix + k] = t[k]
      <4>1. Text(p) \in Seq(Char) /\ t \in Seq(Char) /\ ix \in Nat
        BY <1>4, <1>6
      <4> QED  BY <3>1, <4>1, PartEqual, ZenonT(40)
    <3> QED  BY <1>6, <3>2
  <2>2. ASSUME NEW k \in 1 .. F  PROVE  u[k] = Text(p)[ix + k]
    <3>1. k \in 1 .. S - ix /\ ix + k \in 1 .. S /\ (p + ix) + k - 1 = p + (ix + k) - 1
      BY <1>6, <1>7
    <3> QED  BY <1>4, <1>9, <3>1
  <2> QED  BY <1>4, <2>1, <2>2
<1>11. t = SubSeq(u, 1, Len(t))
  <2>1. Len(t) <= Len(u)
    BY <1>4, <1>6, <1>9
  <2> QED  BY <1>4, <1>9, <1>10, <2>1, WholePrefix
<1> QED  BY <1>1, <1>11 DEF t, u

-----------------------------------------------------------------------------
(* In every memory whose last character ends a string each function returns *)
(* what the reference says.                                                 *)
LEMMA FunctionsAgree ==
    ASSUME SInv
    PROVE  StringsAgree
<1>1. ASSUME NEW p \in Pointer, NEW q \in Pointer
      PROVE  /\ strlen(chars, p) = Len(Text(p))
             /\ strcmp(chars, p, q) =
                    IF Text(p) = Text(q) THEN 0 ELSE IF Before(Text(p), Text(q)) THEN -1 ELSE 1
             /\ strfind(chars, p, q) =
                    IF Text(q) = <<>> THEN -1 ELSE Least(Occurrences(Text(p), Text(q)))
             /\ strstr(chars, p, q) # -1 =>
                    SubSeq(Text(strstr(chars, p, q)), 1, Len(Text(q))) = Text(q)
             /\ CanCopy(chars, p, q) => strcpy(chars, p, q) = With(p, Append(Text(q), EOS))
             /\ CanCat(chars, p, q) =>
                    strcat(chars, p, q) = With(p, Text(p) \o Append(Text(q), EOS))
  <2>1. strlen(chars, p) = Len(Text(p))
    BY LengthIs, TextIs
  <2> QED  BY <2>1, CompareAgrees, FindAgrees, SubstringAgrees, CopyAgrees, CatAgrees
<1>2. ASSUME NEW p \in Pointer, NEW ch \in Char
      PROVE  /\ strchr(chars, p, ch) = Least({a \in p .. End(p) : chars[a] = ch})
             /\ strrchr(chars, p, ch) = Greatest({a \in p .. End(p) : chars[a] = ch})
  BY FirstFound, LastFound
<1>3. ASSUME NEW p \in Pointer, NEW q \in Pointer, NEW n \in Pointer
      PROVE  /\ CanPad(chars, p, q, n) =>
                    strncpy(chars, p, q, n) =
                        With(p, [k \in 1 .. n + 1 |->
                                    IF k <= Len(Text(q)) THEN Text(q)[k] ELSE EOS])
             /\ Fits(p, n) /\ Fits(q, n) =>
                    memcpy(chars, p, q, n) = With(p, [k \in 1 .. n |-> chars[q + k - 1]])
             /\ \A ch \in Char :
                    Fits(p, n) => memset(chars, p, ch, n) = With(p, [k \in 1 .. n |-> ch])
  <2>1. n \in Nat
    BY PointerIs
  <2> QED  BY <2>1, PadAgrees, MoveAgrees, SetAgrees
<1> QED  BY <1>1, <1>2, <1>3, ZenonT(40) DEF StringsAgree

(* Whatever the callers copy, join, pad, move and set, as long as it fits   *)
(* and is of ASCII, the modelled functions of string.c agree with the       *)
(* references: the search by the table of borders finds the first           *)
(* occurrence, comparison, copies and searches are right for every string   *)
(* and every size of memory, and strncpy, of strings within n, pads to      *)
(* n + 1 characters.                                                        *)
THEOREM StringsAreStrings == StringsSpec => []StringsAgree
<1>1. StringsInit => SInv
  BY DEF StringsInit, SInv
<1>2. SInv /\ [StringsNext]_chars => SInv'
  BY StringsStep
<1>3. SInv => StringsAgree
  BY FunctionsAgree
<1> QED  BY <1>1, <1>2, <1>3, PTL DEF StringsSpec
=============================================================================
