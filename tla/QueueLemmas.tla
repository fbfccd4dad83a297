----------------------------- MODULE QueueLemmas -----------------------------
(* What the queue operations keep: the type, the elements, and that no      *)
(* element occurs twice.                                                    *)
EXTENDS Queues, TLAPS, FiniteSetTheorems, SequenceTheorems, WellFoundedInduction

(* The elements of a concatenation are those of its parts. *)
LEMMA ConcatSet ==
    ASSUME NEW T, NEW s \in Seq(T), NEW t \in Seq(T)
    PROVE  /\ s \o t \in Seq(T)
           /\ ToSet(s \o t) = ToSet(s) \cup ToSet(t)
<1>1. s \o t \in Seq(T) /\ Len(s \o t) = Len(s) + Len(t)
  OBVIOUS
<1>2. ToSet(s \o t) \subseteq ToSet(s) \cup ToSet(t)
  BY <1>1 DEF ToSet
<1>3. ToSet(s) \subseteq ToSet(s \o t)
  BY <1>1 DEF ToSet
<1>4. ToSet(t) \subseteq ToSet(s \o t)
  <2>1. ASSUME NEW k \in 1 .. Len(t)
        PROVE  t[k] \in ToSet(s \o t)
    <3>1. (s \o t)[Len(s) + k] = t[k] /\ Len(s) + k \in 1 .. Len(s \o t)
      BY <1>1
    <3> QED  BY <3>1, <1>1 DEF ToSet
  <2> QED  BY <2>1 DEF ToSet
<1> QED  BY <1>1, <1>2, <1>3, <1>4

(* A concatenation has no duplicates if its parts have none and share none. *)
LEMMA ConcatInjective ==
    ASSUME NEW T, NEW s \in Seq(T), NEW t \in Seq(T)
    PROVE  IsInjective(s \o t) <=>
             IsInjective(s) /\ IsInjective(t) /\ ToSet(s) \cap ToSet(t) = {}
<1> DEFINE c == s \o t
<1>1. c \in Seq(T) /\ Len(c) = Len(s) + Len(t)
  OBVIOUS
<1>2. \A k \in 1 .. Len(s) : c[k] = s[k]
  OBVIOUS
<1>3. \A k \in 1 .. Len(t) : c[Len(s) + k] = t[k]
  OBVIOUS
<1>4. DOMAIN s = 1 .. Len(s) /\ DOMAIN t = 1 .. Len(t) /\ DOMAIN c = 1 .. Len(s) + Len(t)
  BY <1>1
<1> HIDE DEF c
<1>5. ASSUME IsInjective(c)
      PROVE  IsInjective(s) /\ IsInjective(t) /\ ToSet(s) \cap ToSet(t) = {}
  <2>1. IsInjective(s)
    BY <1>2, <1>4, <1>5 DEF IsInjective
  <2>2. IsInjective(t)
    <3>1. SUFFICES ASSUME NEW a \in 1 .. Len(t), NEW b \in 1 .. Len(t), t[a] = t[b]
                   PROVE  a = b
      BY <1>4 DEF IsInjective
    <3>2. c[Len(s) + a] = c[Len(s) + b]
      BY <1>3, <3>1
    <3>3. Len(s) + a \in DOMAIN c /\ Len(s) + b \in DOMAIN c
      BY <1>4
    <3>4. Len(s) + a = Len(s) + b
      BY <3>2, <3>3, <1>5 DEF IsInjective
    <3> QED  BY <3>4
  <2>3. ToSet(s) \cap ToSet(t) = {}
    <3>1. SUFFICES ASSUME NEW a \in 1 .. Len(s), NEW b \in 1 .. Len(t), s[a] = t[b]
                   PROVE  FALSE
      BY <1>4 DEF ToSet
    <3>2. c[a] = c[Len(s) + b]
      BY <1>2, <1>3, <3>1
    <3>3. a \in DOMAIN c /\ Len(s) + b \in DOMAIN c /\ a # Len(s) + b
      BY <1>4
    <3> QED  BY <3>2, <3>3, <1>5 DEF IsInjective
  <2> QED  BY <2>1, <2>2, <2>3
<1>6. ASSUME IsInjective(s), IsInjective(t), ToSet(s) \cap ToSet(t) = {}
      PROVE  IsInjective(c)
  <2>1. SUFFICES ASSUME NEW a \in 1 .. Len(s) + Len(t), NEW b \in 1 .. Len(s) + Len(t),
                        c[a] = c[b], a < b
                 PROVE  FALSE
    BY <1>4 DEF IsInjective
  <2>2. CASE b <= Len(s)
    BY <2>1, <2>2, <1>2, <1>4, <1>6 DEF IsInjective
  <2>3. CASE a > Len(s)
    <3>1. a - Len(s) \in 1 .. Len(t) /\ b - Len(s) \in 1 .. Len(t)
      BY <2>1, <2>3
    <3>2. c[Len(s) + (a - Len(s))] = t[a - Len(s)] /\ c[Len(s) + (b - Len(s))] = t[b - Len(s)]
      BY <3>1, <1>3
    <3>3. Len(s) + (a - Len(s)) = a /\ Len(s) + (b - Len(s)) = b
      OBVIOUS
    <3>4. t[a - Len(s)] = t[b - Len(s)]
      BY <3>2, <3>3, <2>1
    <3>5. a - Len(s) = b - Len(s)
      BY <3>1, <3>4, <1>4, <1>6 DEF IsInjective
    <3> QED  BY <3>5, <2>1
  <2>4. CASE a <= Len(s) /\ b > Len(s)
    <3>1. b - Len(s) \in 1 .. Len(t) /\ a \in 1 .. Len(s) /\ Len(s) + (b - Len(s)) = b
      BY <2>1, <2>4
    <3>2. c[a] = s[a] /\ c[b] = t[b - Len(s)]
      BY <3>1, <1>2, <1>3
    <3>3. s[a] \in ToSet(s) /\ t[b - Len(s)] \in ToSet(t)
      BY <3>1, <1>4 DEF ToSet
    <3> QED  BY <3>2, <3>3, <2>1, <1>6
  <2> QED  BY <2>2, <2>3, <2>4, <2>1
<1> QED  BY <1>5, <1>6 DEF c

(* A queue of one element. *)
LEMMA Singleton ==
    ASSUME NEW T, NEW x \in T
    PROVE  <<x>> \in Seq(T) /\ ToSet(<<x>>) = {x} /\ IsInjective(<<x>>)
<1>1. <<x>> \in Seq(T) /\ Len(<<x>>) = 1 /\ <<x>>[1] = x /\ DOMAIN <<x>> = {1}
  OBVIOUS
<1>2. IsInjective(<<x>>)
  BY <1>1 DEF IsInjective
<1>3. ToSet(<<x>>) = {x}
  BY <1>1 DEF ToSet
<1> QED  BY <1>1, <1>2, <1>3

(* Queue_Add: one more element, at the tail. *)
LEMMA AppendSet ==
    ASSUME NEW T, NEW s \in Seq(T), NEW x \in T
    PROVE  /\ Append(s, x) \in Seq(T)
           /\ ToSet(Append(s, x)) = ToSet(s) \cup {x}
           /\ IsInjective(Append(s, x)) <=> IsInjective(s) /\ x \notin ToSet(s)
<1> DEFINE e == <<x>>
<1>1. e \in Seq(T) /\ ToSet(e) = {x} /\ IsInjective(e)
  BY Singleton
<1>2. Append(s, x) = s \o e
  BY AppendIsConcat
<1> HIDE DEF e
<1>3. s \o e \in Seq(T) /\ ToSet(s \o e) = ToSet(s) \cup ToSet(e)
  BY <1>1, ConcatSet
<1>4. IsInjective(s \o e) <=>
        IsInjective(s) /\ IsInjective(e) /\ ToSet(s) \cap ToSet(e) = {}
  BY <1>1, ConcatInjective
<1>5. ToSet(s) \cap {x} = {} <=> x \notin ToSet(s)
  OBVIOUS
<1> QED  BY <1>1, <1>2, <1>3, <1>4, <1>5, Zenon

(* List_Add: one more element, at the head. *)
LEMMA ConsSet ==
    ASSUME NEW T, NEW s \in Seq(T), NEW x \in T
    PROVE  /\ <<x>> \o s \in Seq(T)
           /\ ToSet(<<x>> \o s) = {x} \cup ToSet(s)
           /\ IsInjective(<<x>> \o s) <=> IsInjective(s) /\ x \notin ToSet(s)
<1> DEFINE e == <<x>>
<1>1. e \in Seq(T) /\ ToSet(e) = {x} /\ IsInjective(e)
  BY Singleton
<1> HIDE DEF e
<1>2. e \o s \in Seq(T) /\ ToSet(e \o s) = ToSet(e) \cup ToSet(s)
  BY <1>1, ConcatSet
<1>3. IsInjective(e \o s) <=>
        IsInjective(e) /\ IsInjective(s) /\ ToSet(e) \cap ToSet(s) = {}
  BY <1>1, ConcatInjective
<1>4. {x} \cap ToSet(s) = {} <=> x \notin ToSet(s)
  OBVIOUS
<1> QED  BY <1>1, <1>2, <1>3, <1>4, Zenon DEF e

(* Queue_Remove: a queue is its front and the rest. *)
LEMMA FrontAndRest ==
    ASSUME NEW T, NEW s \in Seq(T), s # <<>>
    PROVE  /\ Head(s) \in T /\ Tail(s) \in Seq(T)
           /\ Len(Tail(s)) = Len(s) - 1
           /\ Head(s) \in ToSet(s)
           /\ ToSet(s) = {Head(s)} \cup ToSet(Tail(s))
           /\ IsInjective(s) <=> Head(s) \notin ToSet(Tail(s)) /\ IsInjective(Tail(s))
<1>1. Head(s) \in T /\ Tail(s) \in Seq(T) /\ Len(Tail(s)) = Len(s) - 1
  OBVIOUS
<1> DEFINE e == <<Head(s)>>
           r == Tail(s)
<1>2. e \in Seq(T) /\ ToSet(e) = {Head(s)} /\ IsInjective(e)
  BY <1>1, Singleton
<1>3. s = e \o r
  OBVIOUS
<1>4. r \in Seq(T)
  BY <1>1
<1> HIDE DEF e, r
<1>5. ToSet(e \o r) = ToSet(e) \cup ToSet(r)
  BY <1>2, <1>4, ConcatSet
<1>6. IsInjective(e \o r) <=>
        IsInjective(e) /\ IsInjective(r) /\ ToSet(e) \cap ToSet(r) = {}
  BY <1>2, <1>4, ConcatInjective
<1>7. ToSet(s) = {Head(s)} \cup ToSet(r)
  BY <1>2, <1>3, <1>5, Zenon
<1>8. IsInjective(s) <=> IsInjective(r) /\ {Head(s)} \cap ToSet(r) = {}
  BY <1>2, <1>3, <1>6, Zenon
<1>9. {Head(s)} \cap ToSet(r) = {} <=> Head(s) \notin ToSet(r)
  OBVIOUS
<1>10. Head(s) \in ToSet(s)
  BY <1>7, Zenon
<1> QED  BY <1>1, <1>7, <1>8, <1>9, <1>10, Zenon DEF r

(* Queue_Rotate keeps the elements. *)
LEMMA RotateSet ==
    ASSUME NEW T, NEW s \in Seq(T)
    PROVE  /\ Rotate(s) \in Seq(T)
           /\ Len(Rotate(s)) = Len(s)
           /\ ToSet(Rotate(s)) = ToSet(s)
           /\ IsInjective(s) => IsInjective(Rotate(s))
<1>1. CASE s = <<>>
  BY <1>1 DEF Rotate
<1>2. CASE s # <<>>
  <2>1. Rotate(s) = Append(Tail(s), Head(s))
    BY <1>2 DEF Rotate
  <2>2. Head(s) \in T /\ Tail(s) \in Seq(T) /\ Len(Tail(s)) = Len(s) - 1
    BY <1>2, FrontAndRest
  <2>3. Len(Rotate(s)) = Len(s)
    BY <2>1, <2>2
  <2>4. ToSet(s) = {Head(s)} \cup ToSet(Tail(s))
    BY <1>2, FrontAndRest
  <2>5. IsInjective(s) => Head(s) \notin ToSet(Tail(s)) /\ IsInjective(Tail(s))
    BY <1>2, FrontAndRest
  <2> DEFINE h == Head(s)
             r == Tail(s)
  <2> HIDE DEF h, r
  <2>6. h \in T /\ r \in Seq(T)
    BY <2>2 DEF h, r
  <2>7. /\ Append(r, h) \in Seq(T)
        /\ ToSet(Append(r, h)) = ToSet(r) \cup {h}
        /\ IsInjective(Append(r, h)) <=> IsInjective(r) /\ h \notin ToSet(r)
    BY <2>6, AppendSet
  <2>8. ToSet(Rotate(s)) = ToSet(s)
    BY <2>1, <2>4, <2>7 DEF h, r
  <2> QED  BY <2>1, <2>3, <2>5, <2>7, <2>8, Zenon DEF h, r
<1> QED  BY <1>1, <1>2

(* A queue cut in two is the concatenation of the pieces. *)
LEMMA CutSet ==
    ASSUME NEW T, NEW s \in Seq(T), NEW k \in 0 .. Len(s)
    PROVE  /\ SubSeq(s, 1, k) \in Seq(T) /\ SubSeq(s, k + 1, Len(s)) \in Seq(T)
           /\ Len(SubSeq(s, 1, k)) = k
           /\ ToSet(s) = ToSet(SubSeq(s, 1, k)) \cup ToSet(SubSeq(s, k + 1, Len(s)))
           /\ IsInjective(s) =>
                /\ IsInjective(SubSeq(s, 1, k)) /\ IsInjective(SubSeq(s, k + 1, Len(s)))
                /\ ToSet(SubSeq(s, 1, k)) \cap ToSet(SubSeq(s, k + 1, Len(s))) = {}
<1> DEFINE a == SubSeq(s, 1, k)
           b == SubSeq(s, k + 1, Len(s))
<1>1. a \in Seq(T) /\ b \in Seq(T) /\ Len(a) = k /\ Len(b) = Len(s) - k
  OBVIOUS
<1>2. s = a \o b
  <2>1. /\ \A n \in 1 .. k : a[n] = s[n]
        /\ \A n \in 1 .. Len(s) - k : b[n] = s[k + n]
    <3>1. \A n \in 1 .. k : a[n] = s[n]
      OBVIOUS
    <3>2. \A n \in 1 .. Len(s) - k : b[n] = s[k + 1 + n - 1]
      OBVIOUS
    <3>3. \A n \in 1 .. Len(s) - k : k + 1 + n - 1 = k + n
      OBVIOUS
    <3> QED  BY <3>1, <3>2, <3>3
  <2> HIDE DEF a, b
  <2>2. a \o b \in Seq(T) /\ Len(a \o b) = Len(s)
    BY <1>1
  <2>3. ASSUME NEW n \in 1 .. Len(s)  PROVE  s[n] = (a \o b)[n]
    <3>1. CASE n <= k
      BY <1>1, <2>1, <3>1
    <3>2. CASE n > k
      <4>1. n - k \in 1 .. Len(s) - k /\ k + (n - k) = n
        BY <3>2
      <4>2. (a \o b)[n] = b[n - k]
        BY <1>1, <3>2
      <4>3. b[n - k] = s[n]
        BY <4>1, <2>1
      <4> QED  BY <4>2, <4>3
    <3>3. n <= k \/ n > k
      OBVIOUS
    <3> QED  BY <3>1, <3>2, <3>3, Zenon
  <2> QED  BY <2>2, <2>3, SeqEqual
<1> HIDE DEF a, b
<1>3. ToSet(a \o b) = ToSet(a) \cup ToSet(b)
  BY <1>1, ConcatSet
<1>4. IsInjective(a \o b) =>
        IsInjective(a) /\ IsInjective(b) /\ ToSet(a) \cap ToSet(b) = {}
  BY <1>1, ConcatInjective
<1> QED  BY <1>1, <1>2, <1>3, <1>4, Zenon DEF a, b

(* The empty queue. *)
LEMMA EmptySet ==
    /\ \A T : <<>> \in Seq(T)
    /\ ToSet(<<>>) = {}
    /\ IsInjective(<<>>)
BY DEF ToSet, IsInjective

(* Only the empty queue has no elements. *)
LEMMA NonEmptySet ==
    ASSUME NEW T, NEW s \in Seq(T), ToSet(s) = {}
    PROVE  s = <<>>
BY FrontAndRest

-----------------------------------------------------------------------------
(* A set of naturals that is not empty has a least element. *)
LEMMA LeastNat ==
    ASSUME NEW S \in SUBSET Nat, S # {}
    PROVE  \E m \in S : \A x \in S : m <= x
<1> DEFINE R == OpToRel(<, Nat)
<1>1. IsWellFoundedOn(R, Nat)
  BY NatLessThanWellFounded
<1>2. \A x, y \in Nat : x < y => <<x, y>> \in R
  BY DEF OpToRel
<1> HIDE DEF R
<1>3. \E m \in S : \A x \in S : ~ (<<x, m>> \in R)
  BY <1>1, WFMin
<1>4. PICK m \in S : \A x \in S : ~ (<<x, m>> \in R)
  BY <1>3
<1>5. ASSUME NEW x \in S  PROVE  m <= x
  <2>1. x \in Nat /\ m \in Nat /\ ~ (x < m)
    BY <1>2, <1>4
  <2> QED  BY <2>1
<1> QED  BY <1>5

(* The members of I up to i, whose number is the rank of i. *)
UpTo(I, i) == {j \in I : j <= i}

(* A rank lies between 1 and the number of members. *)
LEMMA UpToFinite ==
    ASSUME NEW n \in Nat, NEW I \in SUBSET (1 .. n), NEW i \in I
    PROVE  /\ IsFiniteSet(I) /\ Cardinality(I) \in Nat
           /\ IsFiniteSet(UpTo(I, i))
           /\ Cardinality(UpTo(I, i)) \in 1 .. Cardinality(I)
<1>1. IsFiniteSet(1 .. n)
  BY FS_Interval
<1>2. IsFiniteSet(I) /\ Cardinality(I) \in Nat
  BY <1>1, FS_Subset, FS_CardinalityType
<1>3. UpTo(I, i) \in SUBSET I /\ i \in UpTo(I, i)
  BY DEF UpTo
<1>4. IsFiniteSet(UpTo(I, i)) /\ Cardinality(UpTo(I, i)) <= Cardinality(I)
  BY <1>2, <1>3, FS_Subset
<1>5. Cardinality(UpTo(I, i)) \in Nat /\ Cardinality(UpTo(I, i)) # 0
  BY <1>3, <1>4, FS_CardinalityType, FS_EmptySet
<1> QED  BY <1>2, <1>4, <1>5

(* Different members have different ranks. *)
LEMMA RankInjective ==
    ASSUME NEW n \in Nat, NEW I \in SUBSET (1 .. n), NEW i \in I, NEW k \in I,
           Cardinality(UpTo(I, i)) = Cardinality(UpTo(I, k))
    PROVE  i = k
<1>1. ASSUME NEW a \in I, NEW b \in I, a < b,
             Cardinality(UpTo(I, a)) = Cardinality(UpTo(I, b))
      PROVE  FALSE
  <2>1. UpTo(I, a) \in SUBSET UpTo(I, b)
    <3>1. ASSUME NEW j \in I, j <= a  PROVE  j <= b
      <4>1. j \in Int /\ a \in Int /\ b \in Int
        OBVIOUS
      <4> QED  BY <1>1, <3>1, <4>1
    <3> QED  BY <3>1 DEF UpTo
  <2>2. b \in UpTo(I, b) /\ b \notin UpTo(I, a)
    BY <1>1 DEF UpTo
  <2>3. IsFiniteSet(UpTo(I, b))
    BY UpToFinite
  <2> QED  BY <1>1, <2>1, <2>2, <2>3, FS_Subset
<1> QED  BY <1>1

(* Every rank up to the number of members is the rank of one. *)
LEMMA RankExists ==
    ASSUME NEW n \in Nat, NEW I \in SUBSET (1 .. n), NEW k \in 1 .. Cardinality(I)
    PROVE  \E i \in I : Cardinality(UpTo(I, i)) = k
<1> DEFINE Bad == {r \in 1 .. Cardinality(I) : ~ \E i \in I : Cardinality(UpTo(I, i)) = r}
<1>0. IsFiniteSet(1 .. n)
  BY FS_Interval
<1>1. IsFiniteSet(I) /\ Cardinality(I) \in Nat
  BY <1>0, FS_Subset, FS_CardinalityType
<1>2. SUFFICES ASSUME Bad # {}  PROVE  FALSE
  OBVIOUS
<1>2a. Bad \in SUBSET Nat
  BY <1>1
<1> HIDE DEF Bad
<1>3. PICK r \in Bad : \A x \in Bad : r <= x
  BY <1>2, <1>2a, LeastNat
<1>4. r \in 1 .. Cardinality(I) /\ ~ \E i \in I : Cardinality(UpTo(I, i)) = r
  BY <1>3 DEF Bad
<1>5. \E J \in SUBSET I : Cardinality(J) = r - 1 /\ \A j \in J, x \in I \ J : j < x
  <2>1. CASE r = 1
    <3>1. {} \in SUBSET I /\ Cardinality({}) = r - 1
      BY <2>1, FS_EmptySet
    <3> QED  BY <3>1
  <2>2. CASE r # 1
    <3>1. r - 1 \in 1 .. Cardinality(I) /\ r - 1 \notin Bad
      <4>1. r - 1 < r /\ r - 1 \in 1 .. Cardinality(I) /\ r \in Nat
        BY <1>1, <1>4, <2>2
      <4> QED  BY <1>3, <4>1
    <3>2. PICK i \in I : Cardinality(UpTo(I, i)) = r - 1
      BY <3>1 DEF Bad
    <3>3. UpTo(I, i) \in SUBSET I
      BY DEF UpTo
    <3>4. ASSUME NEW j \in UpTo(I, i), NEW x \in I \ UpTo(I, i)  PROVE  j < x
      <4>1. j \in Nat /\ x \in Nat /\ i \in Nat /\ j <= i /\ ~ (x <= i)
        BY DEF UpTo
      <4> QED  BY <4>1
    <3> QED  BY <3>2, <3>3, <3>4
  <2> QED  BY <2>1, <2>2
<1>6. PICK J \in SUBSET I : Cardinality(J) = r - 1 /\ \A j \in J, x \in I \ J : j < x
  BY <1>5
<1>7. I \ J # {} /\ I \ J \in SUBSET Nat
  <2>1. J # I
    BY <1>1, <1>4, <1>6
  <2>2. I \ J # {}
    BY <2>1, Zenon
  <2>3. I \ J \in SUBSET Nat
    OBVIOUS
  <2> QED  BY <2>2, <2>3
<1>8. PICK m \in I \ J : \A x \in I \ J : m <= x
  BY <1>7, LeastNat
<1>9. UpTo(I, m) = J \cup {m}
  <2>1. \A j \in J : j < m
    BY <1>6, <1>8
  <2>2. ASSUME NEW x \in I  PROVE  x <= m <=> x \in J \cup {m}
    <3>1. x \in Nat /\ m \in Nat
      OBVIOUS
    <3>2. CASE x \in J
      BY <2>1, <3>1, <3>2
    <3>3. CASE x \notin J
      BY <1>8, <3>1, <3>3
    <3> QED  BY <3>2, <3>3
  <2> QED  BY <1>8, <2>2 DEF UpTo
<1>10. IsFiniteSet(J)
  BY <1>1, FS_Subset
<1>11. Cardinality(J \cup {m}) = r
  BY <1>4, <1>6, <1>8, <1>10, FS_AddElement
<1> QED  BY <1>4, <1>8, <1>9, <1>11

(* SelectIn keeps the chosen elements, and no others. *)
LEMMA SelectInSet ==
    ASSUME NEW T, NEW s \in Seq(T), NEW S
    PROVE  /\ SelectIn(s, S) \in Seq(T)
           /\ ToSet(SelectIn(s, S)) = ToSet(s) \cap S
           /\ IsInjective(s) => IsInjective(SelectIn(s, S))
<1> DEFINE I == {i \in DOMAIN s : s[i] \in S}
           n == Cardinality(I)
           at(k) == CHOOSE i \in I : Cardinality(UpTo(I, i)) = k
<1>1. Len(s) \in Nat /\ I \in SUBSET (1 .. Len(s))
  OBVIOUS
<1>2. \A i \in I : i \in DOMAIN s /\ s[i] \in S /\ s[i] \in T
  OBVIOUS
<1>2a. \A i \in DOMAIN s : s[i] \in S => i \in I
  OBVIOUS
<1>3. SelectIn(s, S) = [k \in 1 .. n |-> s[at(k)]]
  BY DEF SelectIn, UpTo
<1> HIDE DEF I
<1>4. n \in Nat
  <2>1. IsFiniteSet(1 .. Len(s))
    BY FS_Interval
  <2> QED  BY <1>1, <2>1, FS_Subset, FS_CardinalityType
<1>5. ASSUME NEW k \in 1 .. n
      PROVE  at(k) \in I /\ Cardinality(UpTo(I, at(k))) = k
  BY <1>1, RankExists
<1>6. ASSUME NEW i \in I  PROVE  \E k \in 1 .. n : at(k) = i
  <2>1. Cardinality(UpTo(I, i)) \in 1 .. n
    BY <1>1, UpToFinite
  <2>2. at(Cardinality(UpTo(I, i))) = i
    BY <2>1, <1>1, <1>5, RankInjective
  <2> QED  BY <2>1, <2>2
<1> HIDE DEF n, at
<1>7. SelectIn(s, S) \in Seq(T)
  <2>1. \A k \in 1 .. n : s[at(k)] \in T
    BY <1>2, <1>5
  <2> QED  BY <1>3, <1>4, <2>1
<1>8. DOMAIN SelectIn(s, S) = 1 .. n /\ \A k \in 1 .. n : SelectIn(s, S)[k] = s[at(k)]
  BY <1>3
<1>9. ToSet(SelectIn(s, S)) \subseteq ToSet(s) \cap S
  BY <1>2, <1>5, <1>8 DEF ToSet
<1>10. ToSet(s) \cap S \subseteq ToSet(SelectIn(s, S))
  BY <1>2a, <1>6, <1>8 DEF ToSet
<1>11. ASSUME IsInjective(s)  PROVE  IsInjective(SelectIn(s, S))
  <2>1. SUFFICES ASSUME NEW a \in 1 .. n, NEW b \in 1 .. n, s[at(a)] = s[at(b)]
                 PROVE  a = b
    BY <1>8 DEF IsInjective
  <2>2. at(a) \in DOMAIN s /\ at(b) \in DOMAIN s
    BY <1>2, <1>5
  <2>3. at(a) = at(b)
    BY <1>11, <2>1, <2>2 DEF IsInjective
  <2> QED  BY <1>5, <2>3
<1> QED  BY <1>7, <1>9, <1>10, <1>11
=============================================================================
