-------------------------- MODULE SmallHeap_proofs --------------------------
(***************************************************************************)
(* The small-object heap: what of memory every operation of lib/heap       *)
(* keeps, and what each does to the pointers in use.                       *)
(***************************************************************************)
EXTENDS SmallHeap, Induction

(* What the operators on sets and sequences return that the model uses.    *)
LEMMA MinNat ==
  ASSUME NEW S \in SUBSET Nat, S # {}
  PROVE  Min(S) \in S /\ \A y \in S : Min(S) <= y
  BY LeastNat DEF Min

(* The largest element of a set of bounded numbers.                        *)
LEMMA MaxNat ==
  ASSUME NEW n \in Nat, NEW S \in SUBSET (0 .. n), S # {}
  PROVE  Max(S) \in S /\ \A y \in S : Max(S) >= y
<1>1. PICK k \in S : \A m \in S : m <= k
  BY GreatestNat
<1>2. k \in S /\ \A m \in S : k >= m
  BY <1>1
<1> QED
  BY <1>2 DEF Max

(* An element of a sequence is one that it holds.                          *)
LEMMA SetHolds ==
  ASSUME NEW s
  PROVE  \A x : x \in ToSet(s) <=> Holds(s, x)
  BY DEF ToSet, Holds

(* A sequence and the set of its elements.                                 *)
LEMMA SeqSet ==
  ASSUME NEW A, NEW s \in Seq(A)
  PROVE  /\ ToSet(s) \subseteq A /\ Len(s) \in Nat /\ DOMAIN s = 1 .. Len(s)
         /\ s = <<>> <=> Len(s) = 0
         /\ s = <<>> <=> ToSet(s) = {}
<1>1. Len(s) \in Nat /\ DOMAIN s = 1 .. Len(s) /\ s \in [1 .. Len(s) -> A]
  BY LenProperties
<1>2. ToSet(s) \subseteq A
  BY <1>1 DEF ToSet
<1>3. s = <<>> <=> Len(s) = 0
  BY <1>1, EmptySeq
<1>4. ASSUME Len(s) # 0 PROVE ToSet(s) # {}
  <2>1. 1 \in DOMAIN s
    BY <1>1, <1>4
  <2> QED
    BY <2>1 DEF ToSet
<1>5. Len(s) = 0 => ToSet(s) = {}
  BY <1>1 DEF ToSet
<1> QED
  BY <1>1, <1>2, <1>3, <1>4, <1>5

(* The empty list.                                                         *)
LEMMA EmptyList ==
  /\ ToSet(<<>>) = {} /\ Once(<<>>) /\ \A A : <<>> \in Seq(A)
<1>1. \A A : <<>> \in Seq(A)
  BY EmptySeq
<1>2. DOMAIN <<>> = {}
  OBVIOUS
<1> QED
  BY <1>1, <1>2 DEF ToSet, Once

(* Two lists joined.                                                       *)
LEMMA ConcatSet ==
  ASSUME NEW A, NEW s \in Seq(A), NEW t \in Seq(A)
  PROVE  /\ s \o t \in Seq(A) /\ ToSet(s \o t) = ToSet(s) \cup ToSet(t)
         /\ Once(s) /\ Once(t) /\ ToSet(s) \cap ToSet(t) = {} => Once(s \o t)
<1>1. s \o t \in Seq(A) /\ \A x : Holds(s \o t, x) <=> Holds(s, x) \/ Holds(t, x)
  BY ConcatHolds
<1>2. ToSet(s \o t) = ToSet(s) \cup ToSet(t)
  BY <1>1, SetHolds
<1>3. ASSUME Once(s), Once(t), ToSet(s) \cap ToSet(t) = {} PROVE Once(s \o t)
  <2>1. \A x : ~ (Holds(s, x) /\ Holds(t, x))
    BY <1>3, SetHolds
  <2> QED
    BY <1>3, <2>1, ConcatHolds
<1> QED
  BY <1>1, <1>2, <1>3

(* A list of one element.                                                  *)
LEMMA SingleSeq ==
  ASSUME NEW A, NEW x \in A
  PROVE  /\ <<x>> \in Seq(A) /\ ToSet(<<x>>) = {x} /\ Once(<<x>>) /\ Len(<<x>>) = 1
         /\ <<x>> # <<>> /\ Head(<<x>>) = x
<1>1. <<x>> \in Seq(A) /\ Len(<<x>>) = 1 /\ DOMAIN <<x>> = 1 .. 1 /\ <<x>>[1] = x
  OBVIOUS
<1> QED
  BY <1>1 DEF ToSet, Once

(* An element put in front of a list.                                      *)
LEMMA ConsSet ==
  ASSUME NEW A, NEW s \in Seq(A), NEW x \in A
  PROVE  /\ <<x>> \o s \in Seq(A) /\ ToSet(<<x>> \o s) = {x} \cup ToSet(s)
         /\ Len(<<x>> \o s) = Len(s) + 1
         /\ Once(s) /\ x \notin ToSet(s) => Once(<<x>> \o s)
<1>1. <<x>> \in Seq(A) /\ ToSet(<<x>>) = {x} /\ Once(<<x>>) /\ Len(<<x>>) = 1
  BY SingleSeq
<1>2. Len(<<x>> \o s) = 1 + Len(s) /\ Len(s) \in Nat
  BY <1>1, ConcatProperties, LenProperties
<1>3. x \notin ToSet(s) => ToSet(<<x>>) \cap ToSet(s) = {}
  BY <1>1
<1>4. <<x>> \o s \in Seq(A) /\ ToSet(<<x>> \o s) = {x} \cup ToSet(s)
  <2> DEFINE t == <<x>>
  <2>1. t \in Seq(A) /\ ToSet(t) = {x}
    BY <1>1
  <2> HIDE DEF t
  <2>2. t \o s \in Seq(A) /\ ToSet(t \o s) = {x} \cup ToSet(s)
    BY <2>1, ConcatSet
  <2> QED
    BY <2>2 DEF t
<1>5. Once(s) /\ x \notin ToSet(s) => Once(<<x>> \o s)
  BY <1>1, <1>3, ConcatSet
<1>6. Len(<<x>> \o s) = Len(s) + 1
  BY <1>2
<1> QED
  BY <1>4, <1>5, <1>6

(* The first element taken from a list.                                    *)
LEMMA TailSet ==
  ASSUME NEW A, NEW s \in Seq(A), s # <<>>
  PROVE  /\ Head(s) \in ToSet(s) /\ Head(s) \in A /\ Tail(s) \in Seq(A)
         /\ Len(Tail(s)) = Len(s) - 1 /\ Len(s) \in Nat \ {0}
         /\ Once(s) => Once(Tail(s)) /\ ToSet(Tail(s)) = ToSet(s) \ {Head(s)}
<1> DEFINE n == Len(s)
           t == Tail(s)
<1>1. /\ n \in Nat \ {0} /\ DOMAIN s = 1 .. n /\ t \in Seq(A) /\ Len(t) = n - 1
      /\ \A i \in 1 .. n - 1 : t[i] = s[i + 1]
  BY EmptySeq, LenProperties, HeadTailProperties
<1>2. Head(s) = s[1] /\ 1 \in DOMAIN s /\ s[1] \in A
  BY <1>1, HeadTailProperties
<1>3. DOMAIN t = 1 .. n - 1
  BY <1>1, LenProperties
<1> HIDE DEF t, n
<1>4. Head(s) \in ToSet(s)
  BY <1>2 DEF ToSet
<1>5. ASSUME Once(s) PROVE Once(t) /\ ToSet(t) = ToSet(s) \ {Head(s)}
  <2>1. Once(t)
    <3> SUFFICES ASSUME NEW i \in 1 .. n - 1, NEW j \in 1 .. n - 1, t[i] = t[j] PROVE i = j
      BY <1>3 DEF Once
    <3>1. s[i + 1] = s[j + 1] /\ i + 1 \in DOMAIN s /\ j + 1 \in DOMAIN s
      BY <1>1
    <3>2. i + 1 = j + 1
      BY <1>5, <3>1 DEF Once
    <3> QED
      BY <3>2
  <2>2. ASSUME NEW i \in 1 .. n - 1 PROVE t[i] \in ToSet(s) /\ t[i] # Head(s)
    <3>1. t[i] = s[i + 1] /\ i + 1 \in DOMAIN s /\ i + 1 # 1
      BY <1>1
    <3>2. s[i + 1] # s[1]
      BY <1>2, <1>5, <3>1 DEF Once
    <3> QED
      BY <1>2, <3>1, <3>2 DEF ToSet
  <2>3. ASSUME NEW i \in DOMAIN s, s[i] # Head(s) PROVE s[i] \in ToSet(t)
    <3>1. i \in 2 .. n /\ i - 1 \in 1 .. n - 1 /\ i - 1 + 1 = i
      BY <1>1, <1>2, <2>3
    <3>2. t[i - 1] = s[i] /\ i - 1 \in DOMAIN t
      BY <1>1, <1>3, <3>1
    <3> QED
      BY <3>2 DEF ToSet
  <2>4. ToSet(t) \subseteq ToSet(s) \ {Head(s)}
    BY <1>3, <2>2 DEF ToSet
  <2>5. ToSet(s) \ {Head(s)} \subseteq ToSet(t)
    BY <2>3 DEF ToSet
  <2> QED
    BY <2>1, <2>4, <2>5
<1> QED
  BY <1>1, <1>2, <1>4, <1>5 DEF t, n

(* The elements of a list that are in a set, in their order.               *)
LEMMA OnlySet ==
  ASSUME NEW A, NEW s \in Seq(A), NEW S
  PROVE  /\ Only(s, S) \in Seq(A) /\ ToSet(Only(s, S)) = ToSet(s) \cap S
         /\ Once(s) => Once(Only(s, S))
<1> DEFINE n == Len(s)
           f == [i \in DOMAIN s |-> IF s[i] \in S THEN <<s[i]>> ELSE <<>>]
<1>1. n \in Nat /\ DOMAIN s = 1 .. n /\ \A i \in 1 .. n : s[i] \in A
  BY LenProperties
<1>2. Only(s, S) = FlattenSeq(f)
  BY DEF Only
<1>3. CASE n = 0
  <2>1. s = <<>> /\ f = <<>>
    BY <1>1, <1>3, SeqSet
  <2>2. FlattenSeq(f) = <<>>
    BY <2>1 DEF FlattenSeq
  <2> QED
    BY <1>2, <2>1, <2>2, EmptyList
<1>4. CASE n # 0
  <2>1. f \in [1 .. n -> Seq(A)]
    <3>1. ASSUME NEW i \in 1 .. n PROVE (IF s[i] \in S THEN <<s[i]>> ELSE <<>>) \in Seq(A)
      BY <1>1, EmptyList, SingleSeq
    <3> QED
      BY <1>1, <3>1
  <2>2. ASSUME NEW i \in 1 .. n, NEW x PROVE Holds(f[i], x) <=> s[i] = x /\ x \in S
    <3>1. f[i] = IF s[i] \in S THEN <<s[i]>> ELSE <<>>
      BY <1>1
    <3>2. CASE s[i] \in S
      <4>1. ToSet(f[i]) = {s[i]}
        BY <1>1, <3>1, <3>2, SingleSeq
      <4> QED
        BY <3>2, <4>1, SetHolds
    <3>3. CASE s[i] \notin S
      <4>1. ToSet(f[i]) = {}
        BY <3>1, <3>3, EmptyList
      <4> QED
        BY <3>3, <4>1, SetHolds
    <3> QED
      BY <3>2, <3>3
  <2>3. ASSUME NEW i \in 1 .. n PROVE Once(f[i])
    <3>1. CASE s[i] \in S
      BY <1>1, <3>1, SingleSeq
    <3>2. CASE s[i] \notin S
      <4>1. f[i] = <<>>
        BY <1>1, <3>2
      <4> QED
        BY <4>1, EmptyList
    <3> QED
      BY <3>1, <3>2
  <2> HIDE DEF f
  <2>4. n \in Nat \ {0}
    BY <1>1, <1>4
  <2>5. /\ FlattenSeq(f) \in Seq(A)
        /\ \A x : Holds(FlattenSeq(f), x) <=> \E i \in 1 .. n : Holds(f[i], x)
        /\ Disjoint(f, n) => Once(FlattenSeq(f))
    BY <2>1, <2>4, Flattened
  <2>6. ToSet(FlattenSeq(f)) = ToSet(s) \cap S
    <3>1. \A x : x \in ToSet(FlattenSeq(f)) <=> \E i \in 1 .. n : s[i] = x /\ x \in S
      BY <2>2, <2>5, SetHolds
    <3>2. \A x : x \in ToSet(s) <=> \E i \in 1 .. n : s[i] = x
      BY <1>1 DEF ToSet
    <3> QED
      BY <3>1, <3>2
  <2>7. ASSUME Once(s) PROVE Disjoint(f, n)
    <3>1. ASSUME NEW i \in 1 .. n, NEW j \in 1 .. n, NEW x, Holds(f[i], x), Holds(f[j], x)
          PROVE  i = j
      <4>1. s[i] = s[j] /\ i \in DOMAIN s /\ j \in DOMAIN s
        BY <1>1, <2>2, <3>1
      <4> QED
        BY <2>7, <4>1 DEF Once
    <3> QED
      BY <2>3, <3>1 DEF Disjoint
  <2> QED
    BY <1>2, <2>5, <2>6, <2>7
<1> QED
  BY <1>3, <1>4

(* An element unlinked from a list that has it once.                       *)
LEMMA UnlinkSet ==
  ASSUME NEW A, NEW s \in Seq(A), NEW x \in ToSet(s), Once(s)
  PROVE  /\ RemoveFirst(s, x) \in Seq(A) /\ Once(RemoveFirst(s, x))
         /\ ToSet(RemoveFirst(s, x)) = ToSet(s) \ {x}
<1> DEFINE n == Len(s)
           I == {i \in 1 .. n : s[i] = x}
<1>1. n \in Nat /\ DOMAIN s = 1 .. n /\ s \in [1 .. n -> A]
  BY LenProperties
<1>2. PICK k \in 1 .. n : s[k] = x
  BY <1>1 DEF ToSet
<1>3. I = {k}
  <2>1. \A i \in I : i = k
    BY <1>1, <1>2 DEF Once
  <2> QED
    BY <1>2, <2>1
<1>4. SelectInSeq(s, LAMBDA v : v = x) = k
  <2>1. Min(I) = k
    BY <1>3 DEF Min
  <2>2. SelectInSeq(s, LAMBDA v : v = x) = IF I # {} THEN Min(I) ELSE 0
    BY DEF SelectInSeq
  <2> QED
    BY <1>3, <2>1, <2>2
<1> DEFINE u == SubSeq(s, 1, k - 1)
           v == SubSeq(s, k + 1, n)
<1>5. RemoveFirst(s, x) = u \o v
  BY <1>2, <1>4 DEF RemoveFirst, RemoveAt
<1>6. /\ u \in Seq(A) /\ Len(u) = k - 1 /\ \A i \in 1 .. k - 1 : u[i] = s[i]
  <2>1. /\ 1 \in Int /\ k - 1 \in Int /\ \A i \in 1 .. k - 1 : s[i] \in A
    BY <1>1
  <2>2. /\ u \in Seq(A) /\ Len(u) = (IF 1 <= k - 1 THEN k - 1 - 1 + 1 ELSE 0)
        /\ \A i \in 1 .. k - 1 - 1 + 1 : u[i] = s[1 + i - 1]
    BY <2>1, SubSeqProperties
  <2> HIDE DEF u
  <2> QED
    BY <1>1, <2>2
<1>7. /\ v \in Seq(A) /\ Len(v) = n - k /\ \A i \in 1 .. n - k : v[i] = s[k + i]
  <2>1. /\ k + 1 \in Int /\ n \in Int /\ \A i \in k + 1 .. n : s[i] \in A
    BY <1>1
  <2>2. /\ v \in Seq(A) /\ Len(v) = (IF k + 1 <= n THEN n - (k + 1) + 1 ELSE 0)
        /\ \A i \in 1 .. n - (k + 1) + 1 : v[i] = s[k + 1 + i - 1]
    BY <2>1, SubSeqProperties
  <2> HIDE DEF v, n
  <2>3. Len(v) = n - k
    BY <1>1, <2>2
  <2>4. ASSUME NEW i \in 1 .. n - k PROVE v[i] = s[k + i]
    <3>1. i \in 1 .. n - (k + 1) + 1 /\ k + 1 + i - 1 = k + i
      BY <1>1
    <3> QED
      BY <2>2, <3>1
  <2> QED
    BY <2>2, <2>3, <2>4
<1> HIDE DEF u, v
<1>8. DOMAIN u = 1 .. k - 1 /\ DOMAIN v = 1 .. n - k
  BY <1>1, <1>6, <1>7, LenProperties
<1>9. /\ \A i \in DOMAIN u : u[i] = s[i] /\ i \in DOMAIN s /\ i < k
      /\ \A i \in DOMAIN v : v[i] = s[k + i] /\ k + i \in DOMAIN s /\ k + i > k
  BY <1>1, <1>6, <1>7, <1>8
<1>10. Once(u)
  BY <1>9 DEF Once
<1>11. Once(v)
  <2>1. ASSUME NEW i \in DOMAIN v, NEW j \in DOMAIN v, v[i] = v[j] PROVE i = j
    <3>1. k + i = k + j
      BY <1>9, <2>1 DEF Once
    <3> QED
      BY <1>1, <1>8, <3>1
  <2> QED
    BY <2>1 DEF Once
<1>12. ToSet(u) \cap ToSet(v) = {}
  <2>1. ASSUME NEW i \in DOMAIN u, NEW j \in DOMAIN v PROVE u[i] # v[j]
    <3>1. i # k + j
      BY <1>1, <1>8, <1>9
    <3> QED
      BY <1>9, <3>1 DEF Once
  <2> QED
    BY <2>1 DEF ToSet
<1>13. ToSet(u) \cup ToSet(v) = ToSet(s) \ {x}
  <2>1. \A y \in ToSet(u) \cup ToSet(v) : y \in ToSet(s) /\ y # x
    <3>1. ASSUME NEW i \in DOMAIN u PROVE u[i] \in ToSet(s) /\ u[i] # x
      BY <1>1, <1>2, <1>8, <1>9 DEF ToSet, Once
    <3>2. ASSUME NEW i \in DOMAIN v PROVE v[i] \in ToSet(s) /\ v[i] # x
      <4>1. k + i # k
        BY <1>1, <1>8
      <4> QED
        BY <1>1, <1>2, <1>9, <4>1 DEF ToSet, Once
    <3> QED
      BY <3>1, <3>2 DEF ToSet
  <2>2. ASSUME NEW i \in 1 .. n, s[i] # x PROVE s[i] \in ToSet(u) \cup ToSet(v)
    <3>1. CASE i < k
      <4>1. i \in DOMAIN u /\ u[i] = s[i]
        BY <1>1, <1>8, <1>9, <3>1
      <4> QED
        BY <4>1 DEF ToSet
    <3>2. CASE i > k
      <4>1. i - k \in DOMAIN v /\ k + (i - k) = i
        BY <1>1, <1>8, <3>2
      <4>2. v[i - k] = s[i]
        BY <1>9, <4>1
      <4> QED
        BY <4>1, <4>2 DEF ToSet
    <3> QED
      BY <1>1, <1>2, <2>2, <3>1, <3>2
  <2>3. ToSet(s) = {s[i] : i \in 1 .. n}
    BY <1>1 DEF ToSet
  <2> QED
    BY <2>1, <2>2, <2>3
<1> QED
  BY <1>5, <1>6, <1>7, <1>10, <1>11, <1>12, <1>13, ConcatSet

(* A finite set as a list.                                                 *)
LEMMA SetSeq ==
  ASSUME NEW S, IsFiniteSet(S)
  PROVE  SetToSeq(S) \in Seq(S) /\ ToSet(SetToSeq(S)) \subseteq S
<1> DEFINE n == Cardinality(S)
<1>1. n \in Nat
  BY FS_CardinalityType
<1>2. \E f \in [1 .. n -> S] : IsInjective(f)
  <2>1. PICK f : f \in Bijection(1 .. n, S)
    BY FS_CardinalityType DEF ExistsBijection
  <2>2. f \in [1 .. n -> S] /\ IsInjective(f)
    BY <2>1 DEF Bijection, Injection
  <2> QED
    BY <2>2
<1>3. SetToSeq(S) \in [1 .. n -> S]
  BY <1>2 DEF SetToSeq
<1> HIDE DEF n
<1>4. SetToSeq(S) \in Seq(S)
  BY <1>1, <1>3
<1> QED
  BY <1>4, SeqSet

(* A list without repetition is as long as its set is large.               *)
LEMMA OnceLen ==
  ASSUME NEW A, NEW s \in Seq(A), Once(s)
  PROVE  IsFiniteSet(ToSet(s)) /\ Cardinality(ToSet(s)) = Len(s)
<1> DEFINE n == Len(s)
<1>1. n \in Nat /\ DOMAIN s = 1 .. n /\ s \in [1 .. n -> A]
  BY LenProperties
<1>2. IsFiniteSet(1 .. n) /\ Cardinality(1 .. n) = n
  <2>1. 1 \in Int /\ n \in Int
    BY <1>1
  <2>2. IsFiniteSet(1 .. n) /\ Cardinality(1 .. n) = IF 1 > n THEN 0 ELSE n - 1 + 1
    BY <2>1, FS_Interval
  <2> HIDE DEF n
  <2> QED
    BY <1>1, <2>2
<1>3. s \in Bijection(1 .. n, ToSet(s))
  BY <1>1 DEF Bijection, Injection, Surjection, IsInjective, ToSet, Once
<1>4. ExistsBijection(1 .. n, ToSet(s))
  BY <1>3 DEF ExistsBijection
<1> HIDE DEF n
<1>5. IsFiniteSet(ToSet(s)) /\ Cardinality(ToSet(s)) = Cardinality(1 .. n)
  BY <1>2, <1>4, FS_Bijection, FS_SameCardinalityBij
<1> QED
  BY <1>2, <1>5 DEF n

(* A list over a smaller set is one over a larger.                         *)
LEMMA SeqMono ==
  ASSUME NEW A, NEW B, B \subseteq A, NEW s \in Seq(B)
  PROVE  s \in Seq(A)
<1>1. Len(s) \in Nat /\ s \in [1 .. Len(s) -> B]
  BY LenProperties
<1>2. s \in [1 .. Len(s) -> A]
  BY <1>1
<1> QED
  BY <1>1, <1>2
-----------------------------------------------------------------------------
(* The types of what memory holds.                                         *)
HeapRec == [lo : Nat, hi : Nat, validate : BOOLEAN, scb : Nat, arenas : Seq(Nat),
            free : Seq([at : Nat, len : Nat]), partial : [Classes -> Seq(Nat)],
            full : [Classes -> Seq(Nat)], slabs : Nat, cells : Nat]
BlockRec == [size : Nat, heap : Nat]
ArenaRec == [base : Nat, slabs : Nat, use : Nat, map : SUBSET Nat]
SlabRec == [heap : Nat, cls : Classes, total : Nat, free : Nat, list : Seq(Nat), arena : Nat]

Memory(m) ==
  /\ m \in [heap : {m.heap}, block : {m.block}, arena : {m.arena}, slab : {m.slab}]
  /\ m.heap \in [DOMAIN m.heap -> HeapRec] /\ m.block \in [DOMAIN m.block -> BlockRec]
  /\ m.arena \in [DOMAIN m.arena -> ArenaRec] /\ m.slab \in [DOMAIN m.slab -> SlabRec]
  /\ DOMAIN m.heap \subseteq Nat /\ DOMAIN m.arena \subseteq Nat /\ DOMAIN m.slab \subseteq Nat
  /\ DOMAIN m.block \subseteq Nat /\ IsFiniteSet(DOMAIN m.block) /\ IsFiniteSet(DOMAIN m.slab)

End(m, b) == b + m.block[b].size

(* The blocks of a heap lie side by side between its header and its end.   *)
BlocksOK(m) ==
  /\ \A b \in DOMAIN m.block :
       /\ m.block[b].heap \in DOMAIN m.heap /\ m.block[b].size >= 2
       /\ First(m, m.block[b].heap) <= b /\ End(m, b) <= Limit(m, m.block[b].heap)
  /\ \A b, c \in DOMAIN m.block : m.block[b].heap = m.block[c].heap /\ b < c => End(m, b) <= c

(* A private heap fills a block of the machine heap; what a heap takes for *)
(* free is free; its control block is a block of its own.                  *)
HeapsOK(m) ==
  \A h \in DOMAIN m.heap :
    /\ m.heap[h].lo = h /\ First(m, h) < Limit(m, h)
    /\ h # Machine => /\ h - 1 \in DOMAIN m.block /\ m.block[h - 1].heap = Machine
                      /\ m.heap[h].hi <= End(m, h - 1)
    /\ ToSet(m.heap[h].free) \subseteq Gaps(m, h)
    /\ LET b == m.heap[h].scb - 1
       IN  m.heap[h].scb # Null =>
             /\ b \in DOMAIN m.block /\ m.block[b].heap = h /\ m.block[b].size > ScbSize
             /\ b + 1 \notin DOMAIN m.heap

(* An arena is a block, of no other use, with its tiles inside.            *)
ArenasOK(m) ==
  /\ \A a \in DOMAIN m.arena :
       /\ a - 1 \in DOMAIN m.block /\ a \notin DOMAIN m.heap
       /\ \A h \in DOMAIN m.heap : m.heap[h].scb # a
       /\ m.arena[a].base % SlabSize = 0 /\ a < m.arena[a].base
       /\ m.arena[a].base + m.arena[a].slabs * SlabSize <= End(m, a - 1)
       /\ m.arena[a].map \subseteq 0 .. m.arena[a].slabs - 1
       /\ m.arena[a].use = Cardinality(m.arena[a].map)
  /\ \A h \in DOMAIN m.heap :
       /\ Once(m.heap[h].arenas)
       /\ ToSet(m.heap[h].arenas) = {a \in DOMAIN m.arena : m.block[a - 1].heap = h}

(* A slab is a tile of its arena's map, and its free list names cells of   *)
(* it, each once.                                                          *)
SlabsOK(m) ==
  /\ \A t \in DOMAIN m.slab :
       LET s == m.slab[t]
       IN  /\ s.arena \in DOMAIN m.arena /\ t \in Tiles(m, s.arena)
           /\ s.heap = m.block[s.arena - 1].heap
           /\ s.total = (SlabSize - SlabHdr) \div CellSz[s.cls]
           /\ s.free = Len(s.list) /\ Once(s.list) /\ ToSet(s.list) \subseteq 0 .. s.total - 1
  /\ \A a \in DOMAIN m.arena : \A t \in Tiles(m, a) : t \in DOMAIN m.slab /\ m.slab[t].arena = a

(* The slabs of a class that have a free cell, and those that have none.   *)
SlabsOf(m, h) == {t \in DOMAIN m.slab : m.slab[t].heap = h}
Roomy(m, h, c) == {t \in SlabsOf(m, h) : m.slab[t].cls = c /\ m.slab[t].free # 0}
Full(m, h, c) == {t \in SlabsOf(m, h) : m.slab[t].cls = c /\ m.slab[t].free = 0}

(* What is in use: the cells that are on no free list, and the blocks that *)
(* are neither a heap nor an arena nor a control block.                    *)
Use(p, n, h) == [p |-> p, n |-> n, heap |-> h]
LiveIn(m, t) == (0 .. m.slab[t].total - 1) \ ToSet(m.slab[t].list)
CellUse(m, t, i) == Use(CellAt(m, t, i), CellSz[m.slab[t].cls], m.slab[t].heap)
CellUses(m) == UNION {{CellUse(m, t, i) : i \in LiveIn(m, t)} : t \in DOMAIN m.slab}
OwnBlock(m, b) ==
  /\ b \in DOMAIN m.block /\ b + 1 \notin DOMAIN m.heap /\ b + 1 \notin DOMAIN m.arena
  /\ \A h \in DOMAIN m.heap : m.heap[h].scb # b + 1
BlockUse(m, b) == Use(b + 1, m.block[b].size - 1, m.block[b].heap)
BlockUses(m) == {BlockUse(m, b) : b \in {d \in DOMAIN m.block : OwnBlock(m, d)}}
Uses(m) == CellUses(m) \cup BlockUses(m)

(* The class lists, but for the tiles in X, and the counts of the control  *)
(* block.                                                                  *)
ListsOK(m, X) ==
  \A h \in DOMAIN m.heap :
    /\ \A c \in Classes :
         /\ Once(m.heap[h].partial[c]) /\ ToSet(m.heap[h].partial[c]) = Roomy(m, h, c) \ X
         /\ Once(m.heap[h].full[c]) /\ ToSet(m.heap[h].full[c]) = Full(m, h, c) \ X
    /\ m.heap[h].slabs = Cardinality(SlabsOf(m, h))
    /\ m.heap[h].cells = Cardinality({u \in CellUses(m) : u.heap = h})

Placed(m) == Memory(m) /\ BlocksOK(m) /\ HeapsOK(m) /\ ArenasOK(m) /\ SlabsOK(m)
Good(m) == Placed(m) /\ ListsOK(m, {})

(* Nothing is kept for nobody.                                             *)
NoEmpty(m, X) ==
  /\ \A t \in DOMAIN m.slab \ X : m.slab[t].free < m.slab[t].total
  /\ \A a \in DOMAIN m.arena : m.arena[a].map # {}

(* The constants, and the arithmetic of tiles and cells.                   *)
LEMMA Consts ==
  /\ SlabSize \in Nat \ {0} /\ SoaMax \in Nat \ {0} /\ SoaMax < SlabSize /\ ArenaSlabs \in Nat \ {0}
  /\ ScbSize \in Nat \ {0} /\ Machine \in Nat \ {0}
  /\ Classes = 1 .. Len(CellSz) /\ Len(CellSz) \in Nat \ {0} /\ SoaMax = CellSz[Len(CellSz)]
  /\ \A c \in Classes : CellSz[c] \in Nat \ {0} /\ CellSz[c] <= SoaMax
<1>1. CellSz \in Seq(Nat \ {0}) /\ CellSz # <<>>
  BY SmallHeapAssumption
<1>2. /\ Classes = 1 .. Len(CellSz) /\ Len(CellSz) \in Nat \ {0}
      /\ \A c \in Classes : CellSz[c] \in Nat \ {0}
  BY <1>1, LenProperties, EmptySeq DEF Classes
<1> QED
  BY <1>2, SmallHeapAssumption DEF Classes

(* An address is rounded down to its tile.                                 *)
LEMMA TileOf ==
  ASSUME NEW t \in Nat, t % SlabSize = 0, NEW r \in 0 .. SlabSize - 1
  PROVE  Tile(t + r) = t
<1>1. t = SlabSize * (t \div SlabSize) /\ t \div SlabSize \in Int
  <2>1. PICK q \in Int : t = SlabSize * q + (t % SlabSize)
    BY Consts, ModFact
  <2>2. t \div SlabSize \in Nat /\ t = (t \div SlabSize) * SlabSize + (t % SlabSize)
    BY Consts, Divided
  <2> QED
    BY <2>2, Consts
<1> DEFINE q == t \div SlabSize
           a == t + r
<1>2. a = SlabSize * q + r /\ q \in Int /\ a \in Int
  BY <1>1, Consts
<1> HIDE DEF q, a
<1>3. a % SlabSize = r
  BY <1>2, Consts, ModUnique
<1> QED
  BY <1>3, Consts DEF Tile, a

(* A tile is a multiple of the tile size.                                  *)
LEMMA WholeTiles ==
  ASSUME NEW t \in Nat, t % SlabSize = 0
  PROVE  t \div SlabSize \in Nat /\ t = (t \div SlabSize) * SlabSize
<1> DEFINE q == t \div SlabSize
           S == SlabSize
<1>1. q \in Nat /\ t = q * S + (t % S) /\ S \in Nat
  BY Consts, Divided
<1>2. t % S = 0
  OBVIOUS
<1> HIDE DEF q, S
<1>3. q * S + 0 = q * S
  BY <1>1
<1>4. t = q * S
  BY <1>1, <1>2, <1>3
<1> QED
  BY <1>1, <1>4 DEF q, S

(* Whole tiles behind a tile is a tile.                                    *)
LEMMA TileMultiple ==
  ASSUME NEW b \in Nat, b % SlabSize = 0, NEW i \in Nat
  PROVE  b + i * SlabSize \in Nat /\ (b + i * SlabSize) % SlabSize = 0
<1>1. b \div SlabSize \in Nat /\ b = (b \div SlabSize) * SlabSize
  BY Consts, WholeTiles
<1> DEFINE q == b \div SlabSize
           S == SlabSize
<1> HIDE DEF q, S
<1>2. q \in Nat /\ b = q * S /\ S \in Nat \ {0}
  BY <1>1, Consts DEF q, S
<1>3. b + i * S = S * (q + i) + 0
  BY <1>2, SMTT(30)
<1>4. i * S \in Nat
  BY <1>2, TimesMono
<1> DEFINE x == b + i * S
<1> HIDE DEF x
<1>5. x \in Nat /\ x = S * (q + i) + 0 /\ q + i \in Int
  BY <1>2, <1>3, <1>4 DEF x
<1>6. x % S = 0
  BY <1>2, <1>5, ModUnique
<1> QED
  BY <1>5, <1>6 DEF x, S

(* Two tiles are at least a tile apart.                                    *)
LEMMA TilesApart ==
  ASSUME NEW t \in Nat, t % SlabSize = 0, NEW u \in Nat, u % SlabSize = 0, t < u
  PROVE  t + SlabSize <= u
<1> DEFINE q == t \div SlabSize
           r == u \div SlabSize
           S == SlabSize
<1>1. q \in Nat /\ r \in Nat /\ t = q * S /\ u = r * S /\ S \in Nat \ {0}
  BY Consts, WholeTiles
<1> HIDE DEF q, r, S
<1>2. q < r
  BY <1>1, TimesMono
<1>3. q * S + S <= r * S
  BY <1>1, <1>2, TimesMono
<1> QED
  BY <1>1, <1>3 DEF S

(* The next tile boundary is less than a tile away.                        *)
LEMMA RoundUpFits ==
  ASSUME NEW x \in Nat
  PROVE  /\ RoundUp(x) \in Nat /\ RoundUp(x) % SlabSize = 0
         /\ x <= RoundUp(x) /\ RoundUp(x) <= x + SlabSize - 1
<1> DEFINE S == SlabSize
           r == x % S
           q == x \div S
           d == (S - r) % S
<1>1. S \in Nat \ {0} /\ r \in 0 .. S - 1 /\ q \in Nat /\ x = q * S + r
  BY Consts, Divided
<1>2. RoundUp(x) = x + d
  BY DEF RoundUp
<1> HIDE DEF S, q, r
<1>3. CASE r = 0
  <2>1. S - r = S * 1 + 0 /\ S - r \in Int
    BY <1>1, <1>3
  <2>2. d = 0
    BY <1>1, <2>1, ModUnique
  <2>3. x = S * q + 0 /\ x \in Int
    BY <1>1, <1>3
  <2>4. x % S = 0
    BY <1>1, <1>3 DEF r
  <2> QED
    BY <1>1, <1>2, <2>2, <2>4 DEF S
<1>4. CASE r # 0
  <2>1. S - r = S * 0 + (S - r) /\ S - r \in 0 .. S - 1
    BY <1>1, <1>4
  <2>2. d = S - r
    BY <1>1, <2>1, ModUnique
  <2>3. x + d = S * (q + 1) + 0
    BY <1>1, <2>2
  <2>4. (x + d) % S = 0
    <3> DEFINE y == x + d
    <3>1. y = S * (q + 1) + 0 /\ y \in Int /\ q + 1 \in Int
      BY <1>1, <2>2, <2>3
    <3> HIDE DEF y
    <3>2. y % S = 0
      BY <1>1, <3>1, ModUnique
    <3> QED
      BY <3>2 DEF y
  <2> QED
    BY <1>1, <1>2, <2>2, <2>4 DEF S
<1> QED
  BY <1>3, <1>4

Total(c) == (SlabSize - SlabHdr) \div CellSz[c]

(* The cells of a class fit in a tile and do not overlap.                  *)
LEMMA CellFits ==
  ASSUME NEW c \in Classes
  PROVE  /\ Total(c) \in Nat \ {0}
         /\ \A i \in 0 .. Total(c) - 1 :
              /\ i * CellSz[c] \in Nat /\ SlabHdr + i * CellSz[c] + CellSz[c] <= SlabSize
              /\ (i * CellSz[c]) \div CellSz[c] = i /\ (i * CellSz[c]) % CellSz[c] = 0
         /\ \A i, j \in 0 .. Total(c) - 1 :
              i < j => i * CellSz[c] + CellSz[c] <= j * CellSz[c]
<1> DEFINE z == CellSz[c]
           d == SlabSize - SlabHdr
           n == d \div z
<1>1. z \in Nat \ {0} /\ d \in Nat /\ z <= d
  BY Consts DEF SlabHdr
<1>2. Total(c) = n /\ d = SlabSize - 1 /\ SlabHdr = 1 /\ SlabSize \in Nat
  BY Consts DEF Total, SlabHdr
<1> HIDE DEF d, z
<1>3. n \in Nat /\ d % z \in 0 .. z - 1 /\ d = n * z + (d % z)
  BY <1>1, Divided
<1> HIDE DEF n
<1>4. n # 0
  <2>1. ASSUME n = 0 PROVE FALSE
    <3>1. n * z = 0
      BY <1>1, <2>1
    <3> QED
      BY <1>1, <1>3, <3>1
  <2> QED
    BY <2>1
<1>5. ASSUME NEW i \in 0 .. n - 1
      PROVE  /\ i * z \in Nat /\ 1 + i * z + z <= d + 1
             /\ (i * z) \div z = i /\ (i * z) % z = 0
  <2>1. i \in Nat /\ i < n
    BY <1>3
  <2>2. i * z \in Nat /\ i * z + z <= n * z /\ n * z \in Nat
    BY <1>1, <1>3, <2>1, TimesMono
  <2>3. i * z + 0 \in Nat /\ (i * z + 0) \div z = i /\ (i * z + 0) % z = 0
    BY <1>1, <2>1, Quotient
  <2>4. i * z + 0 = i * z
    BY <2>2
  <2> QED
    BY <1>1, <1>3, <2>2, <2>3, <2>4
<1>6. ASSUME NEW i \in 0 .. n - 1, NEW j \in 0 .. n - 1, i < j PROVE i * z + z <= j * z
  BY <1>1, <1>3, <1>6, TimesMono
<1>7. d + 1 = SlabSize
  BY <1>1, <1>2 
<1> QED
  BY <1>2, <1>3, <1>4, <1>5, <1>6, <1>7 DEF z

(* The fields of what memory holds, one by one.                            *)
LEMMA Types ==
  ASSUME NEW m, Memory(m)
  PROVE  /\ \A h \in DOMAIN m.heap :
              /\ h \in Nat /\ m.heap[h] \in HeapRec
              /\ m.heap[h].lo \in Nat /\ m.heap[h].hi \in Nat /\ m.heap[h].scb \in Nat
              /\ m.heap[h].arenas \in Seq(Nat) /\ m.heap[h].free \in Seq([at : Nat, len : Nat])
              /\ \A c \in Classes : /\ m.heap[h].partial[c] \in Seq(Nat)
                                    /\ m.heap[h].full[c] \in Seq(Nat)
              /\ m.heap[h].slabs \in Nat /\ m.heap[h].cells \in Nat
              /\ First(m, h) \in Nat /\ Limit(m, h) \in Int
         /\ \A b \in DOMAIN m.block : /\ b \in Nat /\ m.block[b] \in BlockRec
                                      /\ m.block[b].size \in Nat /\ m.block[b].heap \in Nat
                                      /\ End(m, b) \in Nat
         /\ \A a \in DOMAIN m.arena :
              /\ a \in Nat /\ m.arena[a] \in ArenaRec /\ m.arena[a].base \in Nat
              /\ m.arena[a].slabs \in Nat /\ m.arena[a].use \in Nat /\ m.arena[a].map \subseteq Nat
         /\ \A t \in DOMAIN m.slab :
              /\ t \in Nat /\ m.slab[t] \in SlabRec /\ m.slab[t].heap \in Nat
              /\ m.slab[t].cls \in Classes /\ m.slab[t].total \in Nat /\ m.slab[t].free \in Nat
              /\ m.slab[t].list \in Seq(Nat) /\ m.slab[t].arena \in Nat
<1>1. ASSUME NEW h \in DOMAIN m.heap
      PROVE  /\ h \in Nat /\ m.heap[h] \in HeapRec
             /\ m.heap[h].lo \in Nat /\ m.heap[h].hi \in Nat /\ m.heap[h].scb \in Nat
             /\ m.heap[h].arenas \in Seq(Nat) /\ m.heap[h].free \in Seq([at : Nat, len : Nat])
             /\ m.heap[h].slabs \in Nat /\ m.heap[h].cells \in Nat
             /\ m.heap[h].partial \in [Classes -> Seq(Nat)]
             /\ m.heap[h].full \in [Classes -> Seq(Nat)]
  BY DEF Memory, HeapRec
<1>2. ASSUME NEW h \in DOMAIN m.heap
      PROVE  /\ \A c \in Classes : /\ m.heap[h].partial[c] \in Seq(Nat)
                                   /\ m.heap[h].full[c] \in Seq(Nat)
             /\ First(m, h) \in Nat /\ Limit(m, h) \in Int
  BY <1>1 DEF First, Limit, Header
<1>3. ASSUME NEW b \in DOMAIN m.block
      PROVE  /\ b \in Nat /\ m.block[b] \in BlockRec
             /\ m.block[b].size \in Nat /\ m.block[b].heap \in Nat /\ End(m, b) \in Nat
  BY DEF Memory, BlockRec, End
<1>4. ASSUME NEW a \in DOMAIN m.arena
      PROVE  /\ a \in Nat /\ m.arena[a] \in ArenaRec /\ m.arena[a].base \in Nat
             /\ m.arena[a].slabs \in Nat /\ m.arena[a].use \in Nat /\ m.arena[a].map \subseteq Nat
  BY DEF Memory, ArenaRec
<1>5. ASSUME NEW t \in DOMAIN m.slab
      PROVE  /\ t \in Nat /\ m.slab[t] \in SlabRec /\ m.slab[t].heap \in Nat
             /\ m.slab[t].cls \in Classes /\ m.slab[t].total \in Nat /\ m.slab[t].free \in Nat
             /\ m.slab[t].list \in Seq(Nat) /\ m.slab[t].arena \in Nat
  BY DEF Memory, SlabRec
<1> QED
  BY <1>1, <1>2, <1>3, <1>4, <1>5

(* A private heap inside its block of the machine heap.                    *)
LEMMA PrivateHeap ==
  ASSUME NEW m, Placed(m), NEW h \in DOMAIN m.heap, h # Machine
  PROVE  /\ h - 1 \in DOMAIN m.block /\ m.block[h - 1].heap = Machine /\ h - 1 >= 0
         /\ h + 2 = First(m, h) /\ Limit(m, h) < End(m, h - 1) /\ Machine \in DOMAIN m.heap
<1>1. /\ h - 1 \in DOMAIN m.block /\ m.block[h - 1].heap = Machine
      /\ m.heap[h].lo = h /\ m.heap[h].hi <= End(m, h - 1)
  BY DEF Placed, HeapsOK
<1>2. h - 1 \in Nat /\ h \in Nat /\ m.heap[h].hi \in Nat /\ End(m, h - 1) \in Nat
  BY <1>1, Types DEF Placed
<1>3. Machine \in DOMAIN m.heap
  BY <1>1 DEF Placed, BlocksOK
<1> QED
  BY <1>1, <1>2, <1>3 DEF First, Limit, Header

(* Two blocks do not overlap, but for a heap's block and the heap's blocks. *)
Inside(m, b, c) ==
  /\ b + 1 = m.block[c].heap /\ m.block[c].heap # Machine /\ m.block[b].heap = Machine
  /\ b + 3 <= c /\ End(m, c) < End(m, b)

(* Of two blocks one is behind the other, or in a heap in the other.       *)
LEMMA BlocksNest ==
  ASSUME NEW m, Placed(m), NEW b \in DOMAIN m.block, NEW c \in DOMAIN m.block, b # c
  PROVE  End(m, b) <= c \/ End(m, c) <= b \/ Inside(m, b, c) \/ Inside(m, c, b)
<1>1. \A d \in DOMAIN m.block :
        /\ d \in Nat /\ End(m, d) \in Nat /\ m.block[d].size \in Nat /\ End(m, d) = d + m.block[d].size
        /\ m.block[d].heap \in DOMAIN m.heap
        /\ First(m, m.block[d].heap) <= d /\ End(m, d) <= Limit(m, m.block[d].heap)
        /\ First(m, m.block[d].heap) \in Nat /\ Limit(m, m.block[d].heap) \in Int
  BY Types DEF Placed, BlocksOK, End
<1>2. \A d, e \in DOMAIN m.block : m.block[d].heap = m.block[e].heap /\ d < e => End(m, d) <= e
  BY DEF Placed, BlocksOK
<1>3. \A d, e \in DOMAIN m.block :
        m.block[d].heap = m.block[e].heap /\ d # e => End(m, d) <= e \/ End(m, e) <= d
  BY <1>1, <1>2
<1>4. ASSUME NEW d \in DOMAIN m.block, m.block[d].heap # Machine
      PROVE  LET k == m.block[d].heap
             IN  /\ k - 1 \in DOMAIN m.block /\ m.block[k - 1].heap = Machine
                 /\ k - 1 + 3 <= d /\ End(m, d) < End(m, k - 1) /\ k - 1 + 1 = k
  <2> DEFINE k == m.block[d].heap
  <2>1. /\ k - 1 \in DOMAIN m.block /\ m.block[k - 1].heap = Machine /\ k - 1 >= 0
        /\ k + 2 = First(m, k) /\ Limit(m, k) < End(m, k - 1)
    BY <1>1, <1>4, PrivateHeap
  <2>2. k \in Nat
    BY Types DEF Placed
  <2> HIDE DEF k
  <2>3. k \in DOMAIN m.heap /\ First(m, k) <= d /\ End(m, d) <= Limit(m, k)
    BY <1>1 DEF k
  <2>4. First(m, k) \in Nat /\ Limit(m, k) \in Int /\ d \in Nat /\ End(m, d) \in Nat /\ End(m, k - 1) \in Nat
    BY <1>1, <2>1, <2>3, Types DEF Placed
  <2>5. k - 1 + 3 <= d /\ End(m, d) < End(m, k - 1) /\ k - 1 + 1 = k
    BY <2>1, <2>2, <2>3, <2>4
  <2> QED
    BY <2>1, <2>5 DEF k
<1> DEFINE j == m.block[b].heap
           k == m.block[c].heap
<1>5. CASE j = k
  BY <1>3, <1>5
<1>6. ASSUME NEW d \in DOMAIN m.block, NEW e \in DOMAIN m.block,
             m.block[d].heap = Machine, m.block[e].heap # Machine
      PROVE  End(m, d) <= e \/ End(m, e) <= d \/ Inside(m, d, e)
  <2> DEFINE f == m.block[e].heap - 1
  <2>1. /\ f \in DOMAIN m.block /\ m.block[f].heap = Machine
        /\ f + 3 <= e /\ End(m, e) < End(m, f) /\ f + 1 = m.block[e].heap
    BY <1>4, <1>6
  <2> HIDE DEF f
  <2>2. CASE d = f
    BY <1>6, <2>1, <2>2 DEF Inside
  <2>3. CASE d # f
    <3>1. End(m, d) <= f \/ End(m, f) <= d
      BY <1>3, <1>6, <2>1, <2>3
    <3> QED
      BY <1>1, <2>1, <3>1
  <2> QED
    BY <2>2, <2>3
<1>7. CASE j = Machine /\ k # Machine
  BY <1>6, <1>7
<1>8. CASE j # Machine /\ k = Machine
  BY <1>6, <1>8
<1>9. CASE j # k /\ j # Machine /\ k # Machine
  <2> DEFINE f == j - 1
             g == k - 1
  <2>1. /\ f \in DOMAIN m.block /\ m.block[f].heap = Machine
        /\ f + 3 <= b /\ End(m, b) < End(m, f) /\ f + 1 = j
    BY <1>4, <1>9
  <2>2. /\ g \in DOMAIN m.block /\ m.block[g].heap = Machine
        /\ g + 3 <= c /\ End(m, c) < End(m, g) /\ g + 1 = k
    BY <1>4, <1>9
  <2> HIDE DEF f, g
  <2>3. f # g
    BY <1>9, <2>1, <2>2
  <2>4. End(m, f) <= g \/ End(m, g) <= f
    BY <1>3, <2>1, <2>2, <2>3
  <2> QED
    BY <1>1, <2>1, <2>2, <2>4
<1> QED
  BY <1>5, <1>7, <1>8, <1>9

(* Where a tile is.                                                        *)
LEMMA TilePlace ==
  ASSUME NEW m, Placed(m), NEW a \in DOMAIN m.arena, NEW i \in 0 .. m.arena[a].slabs - 1
  PROVE  LET t == TileAt(m, a, i)
         IN  /\ t \in Nat /\ t % SlabSize = 0 /\ a < t /\ m.arena[a].base <= t
             /\ t + SlabSize <= m.arena[a].base + m.arena[a].slabs * SlabSize
             /\ t + SlabSize <= End(m, a - 1)
             /\ (t - m.arena[a].base) \div SlabSize = i
<1> DEFINE r == m.arena[a]
           S == SlabSize
           k == i * S
<1>1. /\ r.base % SlabSize = 0 /\ a < r.base /\ a - 1 \in DOMAIN m.block
      /\ r.base + r.slabs * S <= End(m, a - 1)
  BY DEF Placed, ArenasOK
<1>2. /\ a \in Nat /\ r.base \in Nat /\ r.slabs \in Nat /\ End(m, a - 1) \in Nat
      /\ S \in Nat \ {0} /\ i \in Nat /\ i < r.slabs
  BY <1>1, Types, Consts DEF Placed
<1>3. TileAt(m, a, i) = r.base + k
  BY DEF TileAt
<1>4. k \in Nat /\ k + S <= r.slabs * S /\ r.slabs * S \in Nat /\ k \div S = i
  <2> HIDE DEF r, S
  <2>1. i * S \in Nat /\ r.slabs * S \in Nat /\ i * S + S <= r.slabs * S
    BY <1>2, TimesMono
  <2>2. 0 \in 0 .. S - 1
    BY <1>2
  <2>3. (i * S + 0) \div S = i
    BY <1>2, <2>2, Quotient
  <2>4. i * S + 0 = i * S
    BY <2>1
  <2> QED
    BY <2>1, <2>3, <2>4
<1>5. r.base + k \in Nat /\ (r.base + k) % SlabSize = 0
  BY <1>1, <1>2, TileMultiple
<1> DEFINE t == TileAt(m, a, i)
<1>6. t = r.base + k /\ t - r.base = k
  BY <1>2, <1>3, <1>4
<1> HIDE DEF r, k, S, t
<1>7. a < t /\ r.base <= t
  BY <1>1, <1>2, <1>4, <1>6
<1>8. t + S <= r.base + r.slabs * S /\ t + S <= End(m, a - 1)
  BY <1>1, <1>2, <1>4, <1>6
<1>9. t \in Nat /\ t % SlabSize = 0 /\ (t - r.base) \div S = i
  BY <1>4, <1>5, <1>6
<1> QED
  BY <1>7, <1>8, <1>9 DEF t, r, S

(* A tile's number, from its place.                                        *)
LEMMA TileIndex ==
  ASSUME NEW m, Placed(m), NEW a \in DOMAIN m.arena, NEW i \in 0 .. m.arena[a].slabs - 1
  PROVE  (TileAt(m, a, i) - m.arena[a].base) \div SlabSize = i
BY TilePlace

(* Where a slab is: in its arena, on a tile of it.                         *)
LEMMA SlabPlace ==
  ASSUME NEW m, Placed(m), NEW t \in DOMAIN m.slab
  PROVE  LET a == m.slab[t].arena
         IN  /\ a \in DOMAIN m.arena /\ a - 1 \in DOMAIN m.block /\ t \in Nat /\ t % SlabSize = 0
             /\ a < t /\ t + SlabSize <= End(m, a - 1) /\ m.arena[a].base <= t
             /\ t + SlabSize <= m.arena[a].base + m.arena[a].slabs * SlabSize
             /\ (t - m.arena[a].base) \div SlabSize \in m.arena[a].map
             /\ TileAt(m, a, (t - m.arena[a].base) \div SlabSize) = t
             /\ m.slab[t].heap = m.block[a - 1].heap /\ m.slab[t].heap \in DOMAIN m.heap
             /\ m.slab[t].cls \in Classes /\ m.slab[t].total = Total(m.slab[t].cls)
             /\ t # Null
<1> DEFINE a == m.slab[t].arena
<1>1. /\ a \in DOMAIN m.arena /\ t \in Tiles(m, a) /\ m.slab[t].heap = m.block[a - 1].heap
      /\ m.slab[t].total = Total(m.slab[t].cls)
  BY DEF Placed, SlabsOK, Total
<1> HIDE DEF a
<1>2. PICK i \in m.arena[a].map : t = TileAt(m, a, i)
  BY <1>1 DEF Tiles
<1>3. i \in 0 .. m.arena[a].slabs - 1 /\ a - 1 \in DOMAIN m.block
  BY <1>1, <1>2 DEF Placed, ArenasOK
<1>4. m.block[a - 1].heap \in DOMAIN m.heap
  BY <1>3 DEF Placed, BlocksOK
<1>5. m.slab[t].cls \in Classes /\ a \in Nat
  BY <1>1, Types DEF Placed
<1>6. /\ t \in Nat /\ t % SlabSize = 0 /\ a < t /\ m.arena[a].base <= t
      /\ t + SlabSize <= m.arena[a].base + m.arena[a].slabs * SlabSize
      /\ t + SlabSize <= End(m, a - 1)
      /\ (t - m.arena[a].base) \div SlabSize = i
  BY <1>1, <1>2, <1>3, TilePlace
<1>7. t # Null
  BY <1>5, <1>6 DEF Null
<1> QED
  BY <1>1, <1>2, <1>3, <1>4, <1>5, <1>6, <1>7 DEF a

(* A block that is no heap's overlaps no other.                            *)
LEMMA PlainBlock ==
  ASSUME NEW m, Placed(m), NEW c \in DOMAIN m.block, c + 1 \notin DOMAIN m.heap,
         NEW b \in DOMAIN m.block, b # c
  PROVE  End(m, b) <= c \/ End(m, c) <= b \/ Inside(m, b, c)
<1>1. m.block[b].heap \in DOMAIN m.heap
  BY DEF Placed, BlocksOK
<1>2. ~ Inside(m, c, b)
  BY <1>1 DEF Inside
<1> QED
  BY <1>2, BlocksNest

(* __HeapSlabFromPtr of a cell is its tile, of a block's data none.        *)
LEMMA CellPtr ==
  ASSUME NEW m, Placed(m), NEW t \in DOMAIN m.slab, NEW i \in 0 .. m.slab[t].total - 1
  PROVE  LET p == CellAt(m, t, i)
         IN  /\ p \in Nat /\ t < p /\ p + CellSz[m.slab[t].cls] <= t + SlabSize
             /\ SlabFromPtr(m, p) = t /\ CellIndex(m, t, p) = i
             /\ CellSz[m.slab[t].cls] \in Nat \ {0}
<1> DEFINE c == m.slab[t].cls
           z == CellSz[c]
           p == CellAt(m, t, i)
           a == m.slab[t].arena
<1>1. /\ a \in DOMAIN m.arena /\ t \in Nat /\ t % SlabSize = 0 /\ m.arena[a].base <= t
      /\ t + SlabSize <= m.arena[a].base + m.arena[a].slabs * SlabSize
      /\ c \in Classes /\ m.slab[t].total = Total(c)
  BY SlabPlace
<1>2. /\ i \in 0 .. Total(c) - 1 /\ z \in Nat \ {0} /\ SlabSize \in Nat \ {0} /\ i \in Nat
  BY <1>1, Consts, CellFits
<1> HIDE DEF c
<1>3. /\ i * z \in Nat /\ SlabHdr + i * z + z <= SlabSize
      /\ (i * z) \div z = i /\ (i * z) % z = 0
  BY <1>1, <1>2, CellFits
<1>4. p = t + SlabHdr + i * z
  BY DEF CellAt, c
<1> DEFINE k == i * z
           r == 1 + k
<1>5. k \in Nat /\ r + z <= SlabSize /\ p = t + r /\ r \in 0 .. SlabSize - 1 /\ k = r - 1
  <2> HIDE DEF z
  <2>1. k \in Nat /\ 1 + k + z <= SlabSize /\ p = t + 1 + k
    BY <1>3, <1>4 DEF SlabHdr
  <2>2. z \in Nat \ {0} /\ SlabSize \in Nat \ {0} /\ t \in Nat
    BY <1>1, <1>2
  <2> HIDE DEF k, p
  <2> QED
    BY <2>1, <2>2
<1> HIDE DEF p, z
<1>6. Tile(p) = t
  BY <1>1, <1>5, TileOf
<1>7. p - t - SlabHdr = k /\ k >= 0 /\ k % z = 0 /\ k \div z = i
  <2>1. k % z = 0 /\ k \div z = i
    BY <1>3
  <2> HIDE DEF k
  <2> QED
    BY <1>1, <1>5, <2>1 DEF SlabHdr
<1>8. t < m.arena[a].base + m.arena[a].slabs * SlabSize
  <2> DEFINE y == m.arena[a].base + m.arena[a].slabs * SlabSize
  <2>1. y \in Nat
    <3>1. m.arena[a].base \in Nat /\ m.arena[a].slabs \in Nat
      BY <1>1, Types DEF Placed
    <3>2. m.arena[a].slabs * SlabSize \in Nat
      BY <1>2, <3>1, TimesMono
    <3> QED
      BY <3>1, <3>2
  <2>2. t + SlabSize <= y
    BY <1>1
  <2> HIDE DEF y
  <2>3. t < y
    BY <1>1, <1>2, <2>1, <2>2
  <2> QED
    BY <2>3 DEF y
<1> HIDE DEF k
<1>9. SlabFromPtr(m, p) = t
  <2>1. i < m.slab[t].total
    BY <1>1, <1>2, CellFits
  <2>2. z = CellSz[m.slab[t].cls]
    BY DEF z, c
  <2> QED
    BY <1>1, <1>6, <1>7, <1>8, <2>1, <2>2, Zenon DEF SlabFromPtr
<1>10. CellIndex(m, t, p) = i
  BY <1>7 DEF CellIndex, z, c
<1>11. p \in Nat /\ t < p /\ p + z <= t + SlabSize
  BY <1>1, <1>2, <1>5
<1> QED
  BY <1>2, <1>9, <1>10, <1>11 DEF p, z, c

(* An address is in its tile.                                              *)
LEMMA TileBounds ==
  ASSUME NEW p \in Nat
  PROVE  Tile(p) \in Nat /\ Tile(p) <= p /\ p < Tile(p) + SlabSize
<1>1. p % SlabSize \in 0 .. SlabSize - 1 /\ p \div SlabSize \in Nat
      /\ p = (p \div SlabSize) * SlabSize + (p % SlabSize)
  BY Consts, Divided
<1>2. (p \div SlabSize) * SlabSize \in Nat
  BY <1>1, Consts, TimesMono
<1> DEFINE r == p % SlabSize
           q == (p \div SlabSize) * SlabSize
<1>3. r \in 0 .. SlabSize - 1 /\ p = q + r /\ q \in Nat /\ Tile(p) = p - r
  BY <1>1, <1>2 DEF Tile
<1> HIDE DEF r, q
<1> QED
  BY <1>3, Consts

(* The data of a block is never taken for a cell.                          *)
LEMMA BlockIsNoCell ==
  ASSUME NEW m, Placed(m), NEW b \in DOMAIN m.block
  PROVE  SlabFromPtr(m, b + 1) = Null
<1> DEFINE t == Tile(b + 1)
<1>1. SlabFromPtr(m, b + 1) \in {t, Null} /\ (SlabFromPtr(m, b + 1) # Null => t \in DOMAIN m.slab)
  BY DEF SlabFromPtr
<1>2. b \in Nat /\ End(m, b) = b + m.block[b].size /\ m.block[b].size \in Nat /\ m.block[b].size >= 2
  BY Types DEF Placed, BlocksOK, End
<1>3. t <= b + 1 /\ b + 1 < t + SlabSize /\ t \in Nat
  BY <1>2, TileBounds
<1> HIDE DEF t
<1> SUFFICES ASSUME t \in DOMAIN m.slab PROVE FALSE
  BY <1>1
<1> DEFINE c == m.slab[t].arena - 1
<1>4. c + 1 \in DOMAIN m.arena /\ c \in DOMAIN m.block /\ c + 1 < t /\ t + SlabSize <= End(m, c)
  <2>1. /\ m.slab[t].arena \in DOMAIN m.arena /\ c \in DOMAIN m.block
        /\ m.slab[t].arena < t /\ t + SlabSize <= End(m, c)
    BY SlabPlace
  <2>2. m.slab[t].arena \in Nat
    BY <2>1, Types DEF Placed
  <2> QED
    BY <2>1, <2>2
<1> HIDE DEF c
<1>5. c \in Nat /\ End(m, c) \in Nat /\ c + 1 \notin DOMAIN m.heap
  BY <1>4, Types DEF Placed, ArenasOK
<1>6. c < b /\ b < End(m, c) /\ c < End(m, b)
  BY <1>2, <1>3, <1>4, <1>5, Consts
<1>7. End(m, b) <= c \/ End(m, c) <= b \/ Inside(m, b, c)
  BY <1>2, <1>4, <1>5, <1>6, PlainBlock
<1> QED
  BY <1>2, <1>5, <1>6, <1>7 DEF Inside

(* Two slabs do not overlap.                                               *)
LEMMA SlabsApart ==
  ASSUME NEW m, Placed(m), NEW t \in DOMAIN m.slab, NEW u \in DOMAIN m.slab, t # u
  PROVE  t + SlabSize <= u \/ u + SlabSize <= t
<1>1. t \in Nat /\ t % SlabSize = 0 /\ u \in Nat /\ u % SlabSize = 0
  BY SlabPlace
<1>2. t < u \/ u < t
  BY <1>1
<1> QED
  BY <1>1, <1>2, TilesApart

(* A pointer in use is a live cell or a block of the client's own.         *)
LEMMA CellUsed ==
  ASSUME NEW m
  PROVE  \A u : u \in CellUses(m) <=> \E t \in DOMAIN m.slab : \E i \in LiveIn(m, t) : u = CellUse(m, t, i)
  BY DEF CellUses

(* The blocks in use are those of the clients' own.                        *)
LEMMA BlockUsed ==
  ASSUME NEW m
  PROVE  \A u : u \in BlockUses(m) <=> \E b \in DOMAIN m.block : OwnBlock(m, b) /\ u = BlockUse(m, b)
  BY DEF BlockUses

(* What a cell in use is, and that its pointer leads back to it.           *)
LEMMA CellUseIs ==
  ASSUME NEW m, Placed(m), NEW t \in DOMAIN m.slab, NEW i \in LiveIn(m, t)
  PROVE  LET u == CellUse(m, t, i)
         IN  /\ u.p = CellAt(m, t, i) /\ u.n = CellSz[m.slab[t].cls] /\ u.heap = m.slab[t].heap
             /\ SlabFromPtr(m, u.p) = t /\ CellIndex(m, t, u.p) = i /\ t # Null
             /\ i \in 0 .. m.slab[t].total - 1 /\ i \notin ToSet(m.slab[t].list)
             /\ u.p \in Nat /\ u.n \in Nat \ {0}
<1>1. i \in 0 .. m.slab[t].total - 1 /\ i \notin ToSet(m.slab[t].list)
  BY DEF LiveIn
<1>2. CellUse(m, t, i).p = CellAt(m, t, i) /\ CellUse(m, t, i).n = CellSz[m.slab[t].cls]
      /\ CellUse(m, t, i).heap = m.slab[t].heap
  BY DEF CellUse, Use
<1>3. /\ SlabFromPtr(m, CellAt(m, t, i)) = t /\ CellIndex(m, t, CellAt(m, t, i)) = i
      /\ CellAt(m, t, i) \in Nat /\ CellSz[m.slab[t].cls] \in Nat \ {0}
  BY <1>1, CellPtr
<1>4. t # Null
  BY SlabPlace
<1> QED
  BY <1>1, <1>2, <1>3, <1>4

(* What a block in use is, and that its pointer is no cell's.              *)
LEMMA BlockUseIs ==
  ASSUME NEW m, Placed(m), NEW b \in DOMAIN m.block
  PROVE  LET u == BlockUse(m, b)
         IN  /\ u.p = b + 1 /\ u.n = m.block[b].size - 1 /\ u.heap = m.block[b].heap
             /\ SlabFromPtr(m, u.p) = Null /\ u.p - 1 = b
             /\ u.p \in Nat /\ u.n \in Nat \ {0}
<1>1. BlockUse(m, b).p = b + 1 /\ BlockUse(m, b).n = m.block[b].size - 1
      /\ BlockUse(m, b).heap = m.block[b].heap
  BY DEF BlockUse, Use
<1>2. b \in Nat /\ m.block[b].size \in Nat /\ m.block[b].size >= 2
  BY Types DEF Placed, BlocksOK
<1>3. SlabFromPtr(m, b + 1) = Null
  BY BlockIsNoCell
<1> QED
  BY <1>1, <1>2, <1>3

(* No pointer is in use twice.                                             *)
LEMMA UsesDistinct ==
  ASSUME NEW m, Placed(m), NEW u \in Uses(m), NEW v \in Uses(m), u.p = v.p
  PROVE  u = v
<1>1. \A w \in Uses(m) : w \in CellUses(m) \/ w \in BlockUses(m)
  BY DEF Uses
<1>2. ASSUME NEW w \in CellUses(m)
      PROVE  /\ SlabFromPtr(m, w.p) # Null
             /\ w = CellUse(m, SlabFromPtr(m, w.p), CellIndex(m, SlabFromPtr(m, w.p), w.p))
  <2>a. PICK t \in DOMAIN m.slab : \E i \in LiveIn(m, t) : w = CellUse(m, t, i)
    BY CellUsed
  <2>1. PICK i \in LiveIn(m, t) : w = CellUse(m, t, i)
    BY <2>a
  <2>2. SlabFromPtr(m, w.p) = t /\ CellIndex(m, t, w.p) = i /\ t # Null
    BY <2>1, CellUseIs
  <2> QED
    BY <2>1, <2>2
<1>3. ASSUME NEW w \in BlockUses(m) PROVE SlabFromPtr(m, w.p) = Null /\ w = BlockUse(m, w.p - 1)
  <2>1. PICK b \in DOMAIN m.block : w = BlockUse(m, b)
    BY BlockUsed
  <2>2. SlabFromPtr(m, w.p) = Null /\ w.p - 1 = b
    BY <2>1, BlockUseIs
  <2> QED
    BY <2>1, <2>2
<1>4. CASE u \in CellUses(m) /\ v \in CellUses(m)
  BY <1>2, <1>4
<1>5. CASE u \in BlockUses(m) /\ v \in BlockUses(m)
  BY <1>3, <1>5
<1>6. CASE u \in CellUses(m) /\ v \in BlockUses(m)
  BY <1>2, <1>3, <1>6
<1>7. CASE v \in CellUses(m) /\ u \in BlockUses(m)
  BY <1>2, <1>3, <1>7
<1> QED
  BY <1>1, <1>4, <1>5, <1>6, <1>7

(* A good memory passes the audit of each of its heaps.                    *)
LEMMA NatInterval ==
  ASSUME NEW n \in Nat, NEW S, S \subseteq 0 .. n - 1
  PROVE  IsFiniteSet(S) /\ Cardinality(S) \in Nat /\ Cardinality(S) <= n
<1>1. IsFiniteSet(0 .. n - 1) /\ Cardinality(0 .. n - 1) = IF 0 > n - 1 THEN 0 ELSE n - 1 - 0 + 1
  <2>1. 0 \in Int /\ n - 1 \in Int
    OBVIOUS
  <2> QED
    BY <2>1, FS_Interval
<1>2. IsFiniteSet(0 .. n - 1) /\ Cardinality(0 .. n - 1) = n
  BY <1>1
<1>3. IsFiniteSet(S) /\ Cardinality(S) <= Cardinality(0 .. n - 1)
  BY <1>2, FS_Subset
<1>4. Cardinality(S) \in Nat
  BY <1>3, FS_CardinalityType
<1> QED
  BY <1>2, <1>3, <1>4

(* A slab has no more free cells than cells.                               *)
LEMMA SlabCount ==
  ASSUME NEW m, Placed(m), NEW t \in DOMAIN m.slab
  PROVE  /\ m.slab[t].free = Len(m.slab[t].list) /\ m.slab[t].list \in Seq(Nat)
         /\ m.slab[t].free \in Nat /\ m.slab[t].total \in Nat /\ m.slab[t].free <= m.slab[t].total
         /\ \A i \in ToSet(m.slab[t].list) : i \in Nat /\ i < m.slab[t].total
<1> DEFINE s == m.slab[t]
<1>1. /\ s.free = Len(s.list) /\ Once(s.list) /\ ToSet(s.list) \subseteq 0 .. s.total - 1
  BY DEF Placed, SlabsOK
<1>2. s.list \in Seq(Nat) /\ s.total \in Nat /\ s.free \in Nat
  BY Types DEF Placed
<1> HIDE DEF s
<1>3. Cardinality(ToSet(s.list)) = Len(s.list)
  BY <1>1, <1>2, OnceLen
<1>4. Cardinality(ToSet(s.list)) <= s.total
  BY <1>1, <1>2, NatInterval
<1>5. \A i \in ToSet(s.list) : i \in Nat /\ i < s.total
  BY <1>1, <1>2
<1> QED
  BY <1>1, <1>2, <1>3, <1>4, <1>5 DEF s

(* __HeapSoaValidate accepts every heap of a good memory.                  *)
LEMMA GoodValid ==
  ASSUME NEW m, Good(m), NEW h \in DOMAIN m.heap
  PROVE  SoaValid(m, h) /\ Passes(m, h)
<1>0. Placed(m) /\ ListsOK(m, {})
  BY DEF Good
<1>1. ASSUME NEW a \in ToSet(m.heap[h].arenas) PROVE ArenaValid(m, h, a)
  <2>1. a \in DOMAIN m.arena /\ m.block[a - 1].heap = h
    BY <1>0 DEF Placed, ArenasOK
  <2> DEFINE r == m.arena[a]
  <2>2. /\ r.base % SlabSize = 0 /\ a - 1 \in DOMAIN m.block
        /\ r.map \subseteq 0 .. r.slabs - 1 /\ r.use = Cardinality(r.map)
    BY <1>0, <2>1 DEF Placed, ArenasOK
  <2>3. r.slabs \in Nat
    BY <1>0, <2>1, Types DEF Placed
  <2> HIDE DEF r
  <2>4. r.use <= r.slabs
    BY <2>2, <2>3, NatInterval
  <2>5. ASSUME NEW t \in Tiles(m, a) PROVE SlabValid(m, h, t)
    <3>1. t \in DOMAIN m.slab /\ m.slab[t].arena = a
      BY <1>0, <2>1, <2>5 DEF Placed, SlabsOK
    <3>2. /\ m.slab[t].heap = h /\ m.slab[t].cls \in Classes
          /\ m.slab[t].total = Total(m.slab[t].cls)
      BY <1>0, <2>1, <3>1, SlabPlace
    <3>3. /\ m.slab[t].free = Len(m.slab[t].list) /\ m.slab[t].free <= m.slab[t].total
          /\ \A i \in ToSet(m.slab[t].list) : i < m.slab[t].total
      BY <1>0, <3>1, SlabCount
    <3> QED
      BY <3>1, <3>2, <3>3 DEF SlabValid, Total
  <2> QED
    BY <2>1, <2>2, <2>4, <2>5 DEF ArenaValid, r
<1>2. ASSUME NEW c \in Classes, NEW list \in Seq(Nat), Once(list),
             NEW full \in BOOLEAN, ToSet(list) = IF full THEN Full(m, h, c) ELSE Roomy(m, h, c)
      PROVE  ClassListValid(m, h, list, c, full)
  <2>1. Len(list) <= m.heap[h].slabs
    <3>1. Cardinality(ToSet(list)) = Len(list)
      BY <1>2, OnceLen
    <3>2. ToSet(list) \subseteq SlabsOf(m, h) /\ SlabsOf(m, h) \subseteq DOMAIN m.slab
      BY <1>2 DEF Full, Roomy, SlabsOf
    <3>3. IsFiniteSet(SlabsOf(m, h))
      BY <1>0, <3>2, FS_Subset DEF Placed, Memory
    <3>4. Cardinality(ToSet(list)) <= Cardinality(SlabsOf(m, h))
      BY <3>2, <3>3, FS_Subset
    <3> QED
      BY <1>0, <3>1, <3>4 DEF ListsOK
  <2>2. ASSUME NEW t \in ToSet(list)
        PROVE  /\ t \in DOMAIN m.slab /\ m.slab[t].cls = c /\ (m.slab[t].free = 0) = full
               /\ m.slab[t].free <= m.slab[t].total
    <3>1. t \in DOMAIN m.slab
      BY <1>2, <2>2 DEF Full, Roomy, SlabsOf
    <3>2. m.slab[t].free <= m.slab[t].total
      BY <1>0, <3>1, SlabCount
    <3>3. m.slab[t].cls = c /\ (m.slab[t].free = 0) = full
      <4>1. CASE full
        BY <1>2, <2>2, <4>1 DEF Full
      <4>2. CASE ~ full
        BY <1>2, <2>2, <4>2 DEF Roomy
      <4> QED
        BY <4>1, <4>2
    <3> QED
      BY <3>1, <3>2, <3>3
  <2> QED
    BY <2>1, <2>2 DEF ClassListValid
<1>3. ASSUME NEW c \in Classes
      PROVE  /\ ClassListValid(m, h, m.heap[h].partial[c], c, FALSE)
             /\ ClassListValid(m, h, m.heap[h].full[c], c, TRUE)
  <2>1. m.heap[h].partial[c] \in Seq(Nat) /\ m.heap[h].full[c] \in Seq(Nat)
    BY <1>0, Types DEF Placed
  <2>2. /\ Once(m.heap[h].partial[c]) /\ ToSet(m.heap[h].partial[c]) = Roomy(m, h, c)
        /\ Once(m.heap[h].full[c]) /\ ToSet(m.heap[h].full[c]) = Full(m, h, c)
    <3>1. /\ Once(m.heap[h].partial[c]) /\ ToSet(m.heap[h].partial[c]) = Roomy(m, h, c) \ {}
          /\ Once(m.heap[h].full[c]) /\ ToSet(m.heap[h].full[c]) = Full(m, h, c) \ {}
      BY <1>0, Zenon DEF ListsOK
    <3>2. Roomy(m, h, c) \ {} = Roomy(m, h, c) /\ Full(m, h, c) \ {} = Full(m, h, c)
      OBVIOUS
    <3> QED
      BY <3>1, <3>2, Zenon
  <2> QED
    BY <1>2, <2>1, <2>2
<1> QED
  BY <1>1, <1>3 DEF SoaValid, Passes
-----------------------------------------------------------------------------
(* The gaps between the blocks of a heap.                                  *)
LEMMA GapSet ==
  ASSUME NEW m, Memory(m), NEW h \in DOMAIN m.heap, Limit(m, h) \in Nat
  PROVE  /\ IsFiniteSet(Gaps(m, h)) /\ Gaps(m, h) \subseteq [at : Nat, len : Nat]
         /\ \A g \in Gaps(m, h) :
              /\ g.at = First(m, h) \/ \E b \in Blocks(m, h) : g.at = End(m, b)
              /\ g.len > 0 /\ g.at + g.len <= Limit(m, h)
              /\ \A b \in Blocks(m, h) : b >= g.at => g.at + g.len <= b
<1> DEFINE from == {First(m, h)} \cup {a + m.block[a].size : a \in Blocks(m, h)}
           Ends(x) == {a \in Blocks(m, h) : a >= x} \cup {Limit(m, h)}
           Y == {y \in from : Min(Ends(y)) > y}
           Gap(x) == [at |-> x, len |-> Min(Ends(x)) - x]
<1>1. Gaps(m, h) = {Gap(x) : x \in Y}
  BY DEF Gaps
<1>2. First(m, h) \in Nat /\ \A b \in Blocks(m, h) : b \in Nat /\ End(m, b) \in Nat /\ End(m, b) = b + m.block[b].size
  BY Types DEF Blocks, End
<1>3. from \subseteq Nat /\ \A x \in from : x = First(m, h) \/ \E b \in Blocks(m, h) : x = End(m, b)
  BY <1>2
<1>4. ASSUME NEW x \in Nat
      PROVE  Min(Ends(x)) \in Nat /\ Min(Ends(x)) <= Limit(m, h) /\ \A b \in Blocks(m, h) : b >= x => Min(Ends(x)) <= b
  <2>1. Ends(x) \subseteq Nat /\ Limit(m, h) \in Ends(x)
    BY <1>2
  <2>2. Min(Ends(x)) \in Ends(x) /\ \A y \in Ends(x) : Min(Ends(x)) <= y
    BY <2>1, MinNat
  <2>3. \A b \in Blocks(m, h) : b >= x => b \in Ends(x)
    OBVIOUS
  <2> HIDE DEF Ends
  <2> QED
    BY <2>1, <2>2, <2>3
<1> HIDE DEF from, Ends
<1>5. Y \subseteq 0 .. Limit(m, h)
  <2>1. ASSUME NEW y \in Y PROVE y \in 0 .. Limit(m, h)
    <3>1. y \in Nat /\ Min(Ends(y)) > y
      BY <1>3
    <3>2. Min(Ends(y)) \in Nat /\ Min(Ends(y)) <= Limit(m, h)
      BY <1>4, <3>1
    <3> QED
      BY <3>1, <3>2
  <2> HIDE DEF Y
  <2> QED
    BY <2>1
<1>6. IsFiniteSet(Y)
  <2>1. IsFiniteSet(0 .. Limit(m, h))
    BY FS_Interval
  <2> QED
    BY <1>5, <2>1, FS_Subset
<1>7. ASSUME NEW x \in Y
      PROVE  /\ x \in Nat /\ Gap(x) \in [at : Nat, len : Nat] /\ Gap(x).at = x
             /\ Gap(x).len > 0 /\ x + Gap(x).len = Min(Ends(x))
  <2>1. x \in Nat /\ Min(Ends(x)) \in Nat /\ Min(Ends(x)) > x
    BY <1>3, <1>4
  <2>2. Min(Ends(x)) - x \in Nat /\ Min(Ends(x)) - x > 0 /\ x + (Min(Ends(x)) - x) = Min(Ends(x))
    BY <2>1
  <2> QED
    BY <2>1, <2>2
<1>8. IsFiniteSet(Gaps(m, h))
  <2> DEFINE f == [x \in Y |-> Gap(x)]
  <2>1. f \in Surjection(Y, Gaps(m, h))
    <3> HIDE DEF Y, Gap
    <3>1. f \in [Y -> Gaps(m, h)] /\ \A g \in Gaps(m, h) : \E x \in Y : f[x] = g
      BY <1>1
    <3> QED
      BY <3>1 DEF Surjection
  <2> HIDE DEF f
  <2> QED
    BY <1>6, <2>1, FS_Surjection
<1> HIDE DEF Y, Gap
<1>9. ASSUME NEW g \in Gaps(m, h)
      PROVE  /\ g \in [at : Nat, len : Nat]
             /\ g.at = First(m, h) \/ \E b \in Blocks(m, h) : g.at = End(m, b)
             /\ g.len > 0 /\ g.at + g.len <= Limit(m, h)
             /\ \A b \in Blocks(m, h) : b >= g.at => g.at + g.len <= b
  <2>1. PICK x \in Y : g = Gap(x)
    BY <1>1
  <2>2. /\ x \in Nat /\ g \in [at : Nat, len : Nat] /\ g.at = x
        /\ g.len > 0 /\ x + g.len = Min(Ends(x))
    BY <1>7, <2>1
  <2>3. x \in from
    BY DEF Y
  <2>4. Min(Ends(x)) <= Limit(m, h) /\ \A b \in Blocks(m, h) : b >= x => Min(Ends(x)) <= b
    BY <1>4, <2>2
  <2>5. g.at = First(m, h) \/ \E b \in Blocks(m, h) : g.at = End(m, b)
    BY <1>3, <2>2, <2>3
  <2> QED
    BY <2>2, <2>4, <2>5
<1> QED
  BY <1>8, <1>9

(* The gaps depend on the blocks of the heap and its extent only.          *)
LEMMA GapsDepend ==
  ASSUME NEW m, NEW k, NEW h, Blocks(k, h) = Blocks(m, h),
         \A b \in Blocks(m, h) : k.block[b].size = m.block[b].size,
         First(k, h) = First(m, h), Limit(k, h) = Limit(m, h)
  PROVE  Gaps(k, h) = Gaps(m, h)
<1>1. {a + k.block[a].size : a \in Blocks(k, h)} = {a + m.block[a].size : a \in Blocks(m, h)}
  OBVIOUS
<1> QED
  BY <1>1 DEF Gaps

(* An operation of the block allocator on the heap h: the blocks become    *)
(* blk, and nothing else changes but the heap's free lists.                *)
Step(m, k, h, blk) ==
  /\ k.block = blk /\ k.arena = m.arena /\ k.slab = m.slab
  /\ DOMAIN k.heap = DOMAIN m.heap
  /\ \A j \in DOMAIN m.heap \ {h} : k.heap[j] = m.heap[j]
  /\ LET H == m.heap[h]
         K == k.heap[h]
     IN  /\ K.lo = H.lo /\ K.hi = H.hi /\ K.validate = H.validate /\ K.scb = H.scb
         /\ K.arenas = H.arenas /\ K.partial = H.partial /\ K.full = H.full
         /\ K.slabs = H.slabs /\ K.cells = H.cells
  /\ ToSet(k.heap[h].free) \subseteq Gaps(k, h)

BlockTable(blk) ==
  blk \in [DOMAIN blk -> BlockRec] /\ DOMAIN blk \subseteq Nat /\ IsFiniteSet(DOMAIN blk)

(* A change of the block table is a step of the block allocator.           *)
LEMMA WithBlocksStep ==
  ASSUME NEW m, Memory(m), NEW h \in DOMAIN m.heap, Limit(m, h) \in Nat,
         NEW blk, BlockTable(blk)
  PROVE  LET k == WithBlocks(m, h, blk) IN Memory(k) /\ Step(m, k, h, blk)
<1> DEFINE m1 == [m EXCEPT !.block = blk]
           free == SetToSeq(Gaps(m1, h) \ ToSet(m.heap[h].free)) \o Only(m.heap[h].free, Gaps(m1, h))
           K == [m.heap[h] EXCEPT !.free = free]
           k == WithBlocks(m, h, blk)
<1>1. /\ m1.heap = m.heap /\ m1.block = blk /\ m1.arena = m.arena /\ m1.slab = m.slab
      /\ m1 \in [heap : {m.heap}, block : {blk}, arena : {m.arena}, slab : {m.slab}]
  BY DEF Memory
<1>2. Memory(m1)
  BY <1>1 DEF Memory, BlockTable
<1>3. k = [m1 EXCEPT !.heap = [m.heap EXCEPT ![h] = K]]
  BY <1>1 DEF WithBlocks
<1> HIDE DEF m1
<1>4. /\ k.heap = [m.heap EXCEPT ![h] = K] /\ k.block = blk /\ k.arena = m.arena /\ k.slab = m.slab
      /\ k \in [heap : {k.heap}, block : {k.block}, arena : {k.arena}, slab : {k.slab}]
  BY <1>1, <1>3
<1>5. First(m1, h) = First(m, h) /\ Limit(m1, h) = Limit(m, h)
  BY <1>1 DEF First, Limit
<1>6. IsFiniteSet(Gaps(m1, h)) /\ Gaps(m1, h) \subseteq [at : Nat, len : Nat]
  BY <1>1, <1>2, <1>5, GapSet
<1>7. free \in Seq([at : Nat, len : Nat]) /\ ToSet(free) \subseteq Gaps(m1, h)
  <2> DEFINE G == Gaps(m1, h)
             F == m.heap[h].free
  <2>1. F \in Seq([at : Nat, len : Nat])
    BY Types
  <2>2. IsFiniteSet(G \ ToSet(F))
    BY <1>6, FS_Subset
  <2>3. SetToSeq(G \ ToSet(F)) \in Seq(G \ ToSet(F)) /\ ToSet(SetToSeq(G \ ToSet(F))) \subseteq G \ ToSet(F)
    BY <2>2, SetSeq
  <2>4. Only(F, G) \in Seq([at : Nat, len : Nat]) /\ ToSet(Only(F, G)) = ToSet(F) \cap G
    BY <2>1, OnlySet
  <2> DEFINE u == SetToSeq(G \ ToSet(F))
             v == Only(F, G)
  <2>5. u \in Seq([at : Nat, len : Nat])
    BY <1>6, <2>3, SeqMono
  <2> HIDE DEF G, F, u, v
  <2>6. u \o v \in Seq([at : Nat, len : Nat]) /\ ToSet(u \o v) = ToSet(u) \cup ToSet(v)
    <3>1. v \in Seq([at : Nat, len : Nat])
      BY <2>4 DEF v
    <3> QED
      BY <2>5, <3>1, ConcatSet
  <2>7. ToSet(u \o v) \subseteq G
    BY <2>3, <2>4, <2>6 DEF u, v
  <2> QED
    BY <2>6, <2>7 DEF G, F, u, v, free
<1> HIDE DEF free
<1>8. /\ K \in HeapRec /\ K.free = free /\ K.lo = m.heap[h].lo /\ K.hi = m.heap[h].hi
      /\ K.validate = m.heap[h].validate /\ K.scb = m.heap[h].scb /\ K.arenas = m.heap[h].arenas
      /\ K.partial = m.heap[h].partial /\ K.full = m.heap[h].full
      /\ K.slabs = m.heap[h].slabs /\ K.cells = m.heap[h].cells
  <2>1. m.heap[h] \in HeapRec
    BY Types
  <2> QED
    BY <1>7, <2>1 DEF HeapRec
<1> HIDE DEF K
<1>9. /\ m.heap \in [DOMAIN m.heap -> HeapRec] /\ DOMAIN k.heap = DOMAIN m.heap /\ k.heap[h] = K
      /\ \A j \in DOMAIN m.heap \ {h} : k.heap[j] = m.heap[j]
      /\ k.heap \in [DOMAIN k.heap -> HeapRec]
  BY <1>4, <1>8 DEF Memory
<1> HIDE DEF k
<1>10. Memory(k)
  BY <1>4, <1>9 DEF Memory, BlockTable
<1>11. Gaps(k, h) = Gaps(m1, h)
  <2>1. First(k, h) = First(m1, h) /\ Limit(k, h) = Limit(m1, h)
    BY <1>5, <1>8, <1>9 DEF First, Limit
  <2>2. Blocks(k, h) = Blocks(m1, h) /\ \A b \in Blocks(m1, h) : k.block[b].size = m1.block[b].size
    BY <1>1, <1>4 DEF Blocks
  <2> QED
    BY <2>1, <2>2, GapsDepend
<1>12. Step(m, k, h, blk)
  BY <1>4, <1>7, <1>8, <1>9, <1>11 DEF Step
<1> QED
  BY <1>10, <1>12 DEF k

(* Such an operation keeps the layout when the blocks it leaves are well   *)
(* placed, those it changes are the clients' own, and all are the heap's.  *)
Touches(m, h, blk) ==
  /\ \A b \in DOMAIN m.block : m.block[b].heap # h => b \in DOMAIN blk /\ blk[b] = m.block[b]
  /\ \A b \in DOMAIN blk : blk[b].heap # h => b \in DOMAIN m.block /\ blk[b] = m.block[b]
  /\ \A b \in DOMAIN m.block : ~ OwnBlock(m, b) => b \in DOMAIN blk /\ blk[b] = m.block[b]

(* What a step of the block allocator leaves alone in every heap.          *)
LEMMA StepFields ==
  ASSUME NEW m, NEW k, NEW h, NEW blk, Step(m, k, h, blk), NEW j \in DOMAIN m.heap
  PROVE  LET H == m.heap[j]
             K == k.heap[j]
         IN  /\ K.lo = H.lo /\ K.hi = H.hi /\ K.validate = H.validate /\ K.scb = H.scb
             /\ K.arenas = H.arenas /\ K.partial = H.partial /\ K.full = H.full
             /\ K.slabs = H.slabs /\ K.cells = H.cells
             /\ First(k, j) = First(m, j) /\ Limit(k, j) = Limit(m, j)
  BY DEF Step, First, Limit

(* The cells in use depend on the slabs only.                              *)
LEMMA SlabsOnly ==
  ASSUME NEW m, NEW k, k.slab = m.slab
  PROVE  /\ \A h : SlabsOf(k, h) = SlabsOf(m, h)
         /\ \A h, c : Roomy(k, h, c) = Roomy(m, h, c) /\ Full(k, h, c) = Full(m, h, c)
         /\ \A t : LiveIn(k, t) = LiveIn(m, t)
         /\ \A t, i : CellUse(k, t, i) = CellUse(m, t, i)
         /\ CellUses(k) = CellUses(m)
<1>1. \A h : SlabsOf(k, h) = SlabsOf(m, h)
  BY DEF SlabsOf
<1>2. \A h, c : Roomy(k, h, c) = Roomy(m, h, c) /\ Full(k, h, c) = Full(m, h, c)
  BY <1>1 DEF Roomy, Full
<1>3. \A t : LiveIn(k, t) = LiveIn(m, t)
  BY DEF LiveIn
<1>4. \A t, i : CellUse(k, t, i) = CellUse(m, t, i)
  BY DEF CellUse, CellAt, Use
<1>5. CellUses(k) = CellUses(m)
  <2>1. \A u : u \in CellUses(k) <=> u \in CellUses(m)
    BY <1>3, <1>4, CellUsed
  <2> QED
    BY <2>1
<1> QED
  BY <1>1, <1>2, <1>3, <1>4, <1>5

(* A step that touches only own blocks keeps the layout and the lists.     *)
LEMMA StepKeeps ==
  ASSUME NEW m, Placed(m), NEW h \in DOMAIN m.heap, NEW k, NEW blk, Memory(k),
         Step(m, k, h, blk), BlocksOK(k), Touches(m, h, blk)
  PROVE  /\ Placed(k)
         /\ \A X : ListsOK(m, X) => ListsOK(k, X)
         /\ \A Y : NoEmpty(m, Y) => NoEmpty(k, Y)
         /\ CellUses(k) = CellUses(m)
         /\ \A b \in DOMAIN blk : OwnBlock(k, b) <=> b \notin DOMAIN m.block \/ OwnBlock(m, b)
<1>1. /\ k.block = blk /\ k.arena = m.arena /\ k.slab = m.slab /\ DOMAIN k.heap = DOMAIN m.heap
      /\ \A j \in DOMAIN m.heap \ {h} : k.heap[j] = m.heap[j]
      /\ ToSet(k.heap[h].free) \subseteq Gaps(k, h)
  BY DEF Step
<1>2. \A b \in DOMAIN m.block : ~ OwnBlock(m, b) =>
        /\ b \in DOMAIN k.block /\ k.block[b] = m.block[b] /\ End(k, b) = End(m, b)
  BY <1>1 DEF Touches, End
<1>3. \A j \in DOMAIN m.heap :
        /\ j # Machine => j - 1 \in DOMAIN m.block /\ ~ OwnBlock(m, j - 1)
        /\ m.heap[j].scb # Null => m.heap[j].scb - 1 \in DOMAIN m.block /\ ~ OwnBlock(m, m.heap[j].scb - 1)
  <2> SUFFICES ASSUME NEW j \in DOMAIN m.heap
               PROVE  /\ j # Machine => j - 1 \in DOMAIN m.block /\ ~ OwnBlock(m, j - 1)
                      /\ m.heap[j].scb # Null => m.heap[j].scb - 1 \in DOMAIN m.block /\ ~ OwnBlock(m, m.heap[j].scb - 1)
    OBVIOUS
  <2>1. j \in Nat /\ j - 1 + 1 = j /\ m.heap[j].scb \in Nat /\ m.heap[j].scb - 1 + 1 = m.heap[j].scb
    BY Types DEF Placed
  <2>2. j # Machine => j - 1 \in DOMAIN m.block
    BY DEF Placed, HeapsOK
  <2>3. m.heap[j].scb # Null => m.heap[j].scb - 1 \in DOMAIN m.block
    BY DEF Placed, HeapsOK
  <2> QED
    BY <2>1, <2>2, <2>3 DEF OwnBlock
<1>4. \A a \in DOMAIN m.arena : a - 1 \in DOMAIN m.block /\ ~ OwnBlock(m, a - 1)
  <2> SUFFICES ASSUME NEW a \in DOMAIN m.arena PROVE a - 1 \in DOMAIN m.block /\ ~ OwnBlock(m, a - 1)
    OBVIOUS
  <2>1. a \in Nat /\ a - 1 + 1 = a /\ a - 1 \in DOMAIN m.block
    BY Types DEF Placed, ArenasOK
  <2> QED
    BY <2>1 DEF OwnBlock
<1>5. HeapsOK(k)
  <2> SUFFICES ASSUME NEW j \in DOMAIN m.heap
               PROVE  /\ k.heap[j].lo = j /\ First(k, j) < Limit(k, j)
                      /\ j # Machine => /\ j - 1 \in DOMAIN k.block /\ k.block[j - 1].heap = Machine
                                        /\ k.heap[j].hi <= End(k, j - 1)
                      /\ ToSet(k.heap[j].free) \subseteq Gaps(k, j)
                      /\ LET b == k.heap[j].scb - 1
                         IN  k.heap[j].scb # Null =>
                               /\ b \in DOMAIN k.block /\ k.block[b].heap = j /\ k.block[b].size > ScbSize
                               /\ b + 1 \notin DOMAIN k.heap
    BY <1>1 DEF HeapsOK
  <2>1. /\ k.heap[j].lo = m.heap[j].lo /\ k.heap[j].hi = m.heap[j].hi /\ k.heap[j].scb = m.heap[j].scb
        /\ First(k, j) = First(m, j) /\ Limit(k, j) = Limit(m, j)
    BY StepFields
  <2>2. /\ m.heap[j].lo = j /\ First(m, j) < Limit(m, j)
        /\ j # Machine => m.block[j - 1].heap = Machine /\ m.heap[j].hi <= End(m, j - 1)
        /\ ToSet(m.heap[j].free) \subseteq Gaps(m, j)
        /\ LET b == m.heap[j].scb - 1
           IN  m.heap[j].scb # Null =>
                 /\ m.block[b].heap = j /\ m.block[b].size > ScbSize
                 /\ b + 1 \notin DOMAIN m.heap
    BY DEF Placed, HeapsOK
  <2>3. ToSet(k.heap[j].free) \subseteq Gaps(k, j)
    <3>1. CASE j = h
      BY <1>1, <3>1
    <3>2. CASE j # h
      <4>1. Blocks(k, j) = Blocks(m, j) /\ \A b \in Blocks(m, j) : k.block[b].size = m.block[b].size
        BY <1>1, <3>2 DEF Blocks, Touches
      <4>2. Gaps(k, j) = Gaps(m, j)
        BY <2>1, <4>1, GapsDepend
      <4>3. k.heap[j] = m.heap[j]
        BY <1>1, <3>2
      <4> QED
        BY <2>2, <4>2, <4>3
    <3> QED
      BY <3>1, <3>2
  <2>4. j # Machine => /\ j - 1 \in DOMAIN k.block /\ k.block[j - 1].heap = Machine
                       /\ k.heap[j].hi <= End(k, j - 1)
    BY <1>2, <1>3, <2>1, <2>2
  <2>5. LET b == k.heap[j].scb - 1
        IN  k.heap[j].scb # Null =>
              /\ b \in DOMAIN k.block /\ k.block[b].heap = j /\ k.block[b].size > ScbSize
              /\ b + 1 \notin DOMAIN k.heap
    BY <1>1, <1>2, <1>3, <2>1, <2>2
  <2> QED
    BY <2>1, <2>2, <2>3, <2>4, <2>5
<1>6. ArenasOK(k)
  <2>1. ASSUME NEW a \in DOMAIN m.arena
        PROVE  /\ a - 1 \in DOMAIN k.block /\ a \notin DOMAIN k.heap
               /\ \A j \in DOMAIN k.heap : k.heap[j].scb # a
               /\ k.arena[a].base % SlabSize = 0 /\ a < k.arena[a].base
               /\ k.arena[a].base + k.arena[a].slabs * SlabSize <= End(k, a - 1)
               /\ k.arena[a].map \subseteq 0 .. k.arena[a].slabs - 1
               /\ k.arena[a].use = Cardinality(k.arena[a].map)
    <3>1. /\ a \notin DOMAIN m.heap
          /\ \A j \in DOMAIN m.heap : m.heap[j].scb # a
          /\ m.arena[a].base % SlabSize = 0 /\ a < m.arena[a].base
          /\ m.arena[a].base + m.arena[a].slabs * SlabSize <= End(m, a - 1)
          /\ m.arena[a].map \subseteq 0 .. m.arena[a].slabs - 1
          /\ m.arena[a].use = Cardinality(m.arena[a].map)
      BY DEF Placed, ArenasOK
    <3>2. a - 1 \in DOMAIN k.block /\ End(k, a - 1) = End(m, a - 1)
      BY <1>2, <1>4
    <3>3. \A j \in DOMAIN k.heap : k.heap[j].scb # a
      BY <1>1, <3>1, StepFields
    <3> QED
      BY <1>1, <3>1, <3>2, <3>3
  <2>2. ASSUME NEW j \in DOMAIN m.heap
        PROVE  /\ Once(k.heap[j].arenas)
               /\ ToSet(k.heap[j].arenas) = {a \in DOMAIN k.arena : k.block[a - 1].heap = j}
    <3>1. k.heap[j].arenas = m.heap[j].arenas
      BY StepFields
    <3>2. /\ Once(m.heap[j].arenas)
          /\ ToSet(m.heap[j].arenas) = {a \in DOMAIN m.arena : m.block[a - 1].heap = j}
      BY DEF Placed, ArenasOK
    <3>3. \A a \in DOMAIN m.arena : k.block[a - 1].heap = m.block[a - 1].heap
      BY <1>2, <1>4
    <3> QED
      BY <1>1, <3>1, <3>2, <3>3
  <2> QED
    BY <1>1, <2>1, <2>2 DEF ArenasOK
<1>7. SlabsOK(k)
  <2>1. \A a : Tiles(k, a) = Tiles(m, a)
    BY <1>1 DEF Tiles, TileAt
  <2>2. \A t \in DOMAIN m.slab : m.block[m.slab[t].arena - 1].heap = k.block[m.slab[t].arena - 1].heap
    BY <1>2, <1>4 DEF Placed, SlabsOK
  <2> QED
    BY <1>1, <2>1, <2>2 DEF Placed, SlabsOK
<1>8. Placed(k)
  BY <1>5, <1>6, <1>7 DEF Placed
<1>9. /\ \A j, c : Roomy(k, j, c) = Roomy(m, j, c) /\ Full(k, j, c) = Full(m, j, c)
      /\ \A j : SlabsOf(k, j) = SlabsOf(m, j)
      /\ CellUses(k) = CellUses(m)
  BY <1>1, SlabsOnly
<1>10. ASSUME NEW X, ListsOK(m, X) PROVE ListsOK(k, X)
  <2>1. ASSUME NEW j \in DOMAIN m.heap
        PROVE  /\ k.heap[j].partial = m.heap[j].partial /\ k.heap[j].full = m.heap[j].full
               /\ k.heap[j].slabs = m.heap[j].slabs /\ k.heap[j].cells = m.heap[j].cells
    BY StepFields
  <2>2. ASSUME NEW j \in DOMAIN m.heap, NEW c \in Classes
        PROVE  /\ Once(k.heap[j].partial[c]) /\ ToSet(k.heap[j].partial[c]) = Roomy(k, j, c) \ X
               /\ Once(k.heap[j].full[c]) /\ ToSet(k.heap[j].full[c]) = Full(k, j, c) \ X
    <3>1. /\ Once(m.heap[j].partial[c]) /\ ToSet(m.heap[j].partial[c]) = Roomy(m, j, c) \ X
          /\ Once(m.heap[j].full[c]) /\ ToSet(m.heap[j].full[c]) = Full(m, j, c) \ X
      BY <1>10 DEF ListsOK
    <3> QED
      BY <1>9, <2>1, <3>1
  <2>3. ASSUME NEW j \in DOMAIN m.heap
        PROVE  /\ k.heap[j].slabs = Cardinality(SlabsOf(k, j))
               /\ k.heap[j].cells = Cardinality({u \in CellUses(k) : u.heap = j})
    <3>1. /\ m.heap[j].slabs = Cardinality(SlabsOf(m, j))
          /\ m.heap[j].cells = Cardinality({u \in CellUses(m) : u.heap = j})
      BY <1>10 DEF ListsOK
    <3> QED
      BY <1>9, <2>1, <3>1
  <2> QED
    BY <1>1, <2>2, <2>3 DEF ListsOK
<1>11. ASSUME NEW Y, NoEmpty(m, Y) PROVE NoEmpty(k, Y)
  BY <1>1, <1>11 DEF NoEmpty
<1>12. ASSUME NEW b \in DOMAIN blk
       PROVE  OwnBlock(k, b) <=> b \notin DOMAIN m.block \/ OwnBlock(m, b)
  <2>1. b \in Nat
    BY <1>1, Types
  <2>2. \A j \in DOMAIN m.heap : k.heap[j].scb = m.heap[j].scb
    BY StepFields
  <2>3. OwnBlock(k, b) <=> /\ b + 1 \notin DOMAIN m.heap /\ b + 1 \notin DOMAIN m.arena
                           /\ \A j \in DOMAIN m.heap : m.heap[j].scb # b + 1
    BY <1>1, <2>2 DEF OwnBlock
  <2>4. CASE b \in DOMAIN m.block
    BY <2>3, <2>4 DEF OwnBlock
  <2>5. CASE b \notin DOMAIN m.block
    <3> DEFINE d == b + 1
    <3>1. d \in Nat /\ d - 1 = b /\ d # Null
      BY <2>1 DEF Null
    <3> HIDE DEF d
    <3>2. d \notin DOMAIN m.arena
      BY <1>4, <2>5, <3>1
    <3>3. \A j \in DOMAIN m.heap : m.heap[j].scb # d
      BY <1>3, <2>5, <3>1
    <3>4. d \notin DOMAIN m.heap
      <4> SUFFICES ASSUME d \in DOMAIN m.heap PROVE FALSE
        OBVIOUS
      <4>1. d = Machine
        BY <1>3, <2>5, <3>1
      <4> DEFINE j == blk[b].heap
      <4>2. j \in DOMAIN m.heap /\ First(m, j) <= b
        <5>1. blk[b].heap \in DOMAIN k.heap /\ First(k, blk[b].heap) <= b
          BY <1>1 DEF BlocksOK
        <5> QED
          BY <1>1, <5>1, StepFields
      <4> HIDE DEF j
      <4>3. j \in Nat /\ First(m, j) = j + 2
        BY <4>2, Types DEF Placed, HeapsOK, First, Header
      <4>4. j >= Machine
        <5>1. CASE j = Machine
          BY <5>1, Consts
        <5>2. CASE j # Machine
          <6>1. j - 1 \in DOMAIN m.block /\ m.block[j - 1].heap = Machine
            BY <4>2, <5>2, PrivateHeap
          <6>2. First(m, Machine) <= j - 1
            BY <6>1 DEF Placed, BlocksOK
          <6>3. First(m, Machine) = Machine + 2
            BY <4>1 DEF Placed, HeapsOK, First, Header
          <6> QED
            BY <4>3, <6>2, <6>3, Consts
        <5> QED
          BY <5>1, <5>2
      <4> QED
        BY <2>1, <3>1, <4>1, <4>2, <4>3, <4>4, Consts
    <3> QED
      BY <2>3, <2>5, <3>2, <3>3, <3>4 DEF d
  <2> QED
    BY <2>4, <2>5
<1> QED
  BY <1>8, <1>9, <1>10, <1>11, <1>12

(* The extent of a heap.                                                   *)
LEMMA LimitNat ==
  ASSUME NEW m, Placed(m), NEW h \in DOMAIN m.heap
  PROVE  Limit(m, h) \in Nat /\ First(m, h) \in Nat /\ First(m, h) < Limit(m, h)
<1>1. First(m, h) \in Nat /\ Limit(m, h) \in Int
  BY Types DEF Placed
<1>2. First(m, h) < Limit(m, h)
  BY DEF Placed, HeapsOK
<1> QED
  BY <1>1, <1>2

(* A gap is room for a block of its heap.                                  *)
LEMMA GapRoom ==
  ASSUME NEW m, Placed(m), NEW h \in DOMAIN m.heap, NEW g \in Gaps(m, h)
  PROVE  /\ g.at \in Nat /\ g.len \in Nat \ {0}
         /\ First(m, h) <= g.at /\ g.at + g.len <= Limit(m, h)
         /\ \A b \in DOMAIN m.block :
              m.block[b].heap = h => End(m, b) <= g.at \/ g.at + g.len <= b
         /\ g.at \notin DOMAIN m.block
<1>1. Limit(m, h) \in Nat /\ First(m, h) \in Nat /\ Memory(m)
  BY LimitNat DEF Placed
<1>2. /\ g \in [at : Nat, len : Nat]
      /\ g.at = First(m, h) \/ \E b \in Blocks(m, h) : g.at = End(m, b)
      /\ g.len > 0 /\ g.at + g.len <= Limit(m, h)
      /\ \A b \in Blocks(m, h) : b >= g.at => g.at + g.len <= b
  BY <1>1, GapSet
<1>3. g.at \in Nat /\ g.len \in Nat \ {0}
  BY <1>2
<1>4. \A b \in DOMAIN m.block :
        /\ b \in Nat /\ End(m, b) \in Nat /\ b + 2 <= End(m, b) /\ m.block[b].heap \in DOMAIN m.heap
        /\ First(m, m.block[b].heap) <= b /\ End(m, b) <= Limit(m, m.block[b].heap)
  BY Types DEF Placed, BlocksOK, End
<1>5. \A b, c \in Blocks(m, h) : b < c => End(m, b) <= c
  BY DEF Placed, BlocksOK, Blocks
<1>6. ASSUME NEW b \in Blocks(m, h), b < g.at PROVE End(m, b) <= g.at
  <2>0. b \in DOMAIN m.block /\ m.block[b].heap = h
    BY DEF Blocks
  <2>1. CASE g.at = First(m, h)
    BY <1>1, <1>4, <1>6, <2>0, <2>1
  <2>2. ASSUME NEW a \in Blocks(m, h), g.at = End(m, a) PROVE End(m, b) <= g.at
    <3>1. a \in DOMAIN m.block
      BY DEF Blocks
    <3>2. a \in Nat /\ b \in Nat /\ End(m, a) \in Nat /\ End(m, b) \in Nat /\ a + 2 <= End(m, a)
      BY <1>4, <2>0, <3>1
    <3>3. CASE a = b
      BY <2>2, <3>2, <3>3
    <3>4. CASE b < a
      BY <1>5, <2>2, <3>2, <3>4
    <3>5. CASE a < b
      BY <1>5, <1>6, <2>2, <3>2, <3>5
    <3> QED
      BY <3>2, <3>3, <3>4, <3>5
  <2> QED
    BY <1>2, <2>1, <2>2
<1>7. First(m, h) <= g.at
  <2>1. ASSUME NEW a \in Blocks(m, h), g.at = End(m, a) PROVE First(m, h) <= g.at
    <3>1. a \in DOMAIN m.block /\ m.block[a].heap = h
      BY DEF Blocks
    <3> QED
      BY <1>1, <1>4, <2>1, <3>1
  <2> QED
    BY <1>1, <1>2, <2>1
<1>8. ASSUME NEW b \in DOMAIN m.block, m.block[b].heap = h
      PROVE  End(m, b) <= g.at \/ g.at + g.len <= b
  <2>1. b \in Blocks(m, h)
    BY <1>8 DEF Blocks
  <2> QED
    BY <1>2, <1>3, <1>4, <1>6, <2>1
<1>9. ASSUME g.at \in DOMAIN m.block PROVE FALSE
  <2> DEFINE b == g.at
             j == m.block[b].heap
  <2>1. j # h
    <3>1. ASSUME j = h PROVE FALSE
      <4>1. End(m, b) <= b \/ b + g.len <= b
        BY <1>8, <1>9, <3>1
      <4> QED
        BY <1>3, <1>4, <1>9, <4>1
    <3> QED
      BY <3>1
  <2>2. j \in DOMAIN m.heap /\ b \in Nat /\ End(m, b) \in Nat /\ b + 2 <= End(m, b)
    BY <1>4, <1>9
  <2>3. CASE h = Machine
    <3> DEFINE c == j - 1
    <3>2. First(m, j) <= b /\ End(m, b) <= Limit(m, j) /\ First(m, j) \in Nat /\ Limit(m, j) \in Nat
      BY <1>4, <1>9, <2>2, LimitNat
    <3> HIDE DEF j, b
    <3>0. j \in Nat
      BY <2>2, Types DEF Placed
    <3>1. c \in DOMAIN m.block /\ m.block[c].heap = h /\ Limit(m, j) < End(m, c) /\ c + 3 = First(m, j)
      BY <2>1, <2>2, <2>3, <3>0, PrivateHeap
    <3> HIDE DEF c
    <3>3. End(m, c) <= b \/ b + g.len <= c
      BY <1>8, <3>1 DEF b
    <3> QED
      BY <1>3, <1>4, <2>2, <3>1, <3>2, <3>3
  <2>4. CASE h # Machine
    <3> DEFINE c == h - 1
    <3>1. /\ c \in DOMAIN m.block /\ m.block[c].heap = Machine /\ Limit(m, h) < End(m, c)
          /\ c + 3 = First(m, h) /\ c + 1 = h
      BY <2>4, PrivateHeap, Types DEF Placed
    <3> HIDE DEF c
    <3>2. c \in Nat /\ End(m, c) \in Nat
      BY <1>4, <3>1
    <3>3. c + 3 <= b /\ b < End(m, c)
      BY <1>1, <1>2, <1>3, <1>7, <3>1, <3>2
    <3>4. End(m, b) <= c \/ End(m, c) <= b \/ Inside(m, b, c) \/ Inside(m, c, b)
      BY <1>9, <2>2, <3>1, <3>2, <3>3, BlocksNest
    <3>5. ~ Inside(m, b, c) /\ ~ Inside(m, c, b)
      BY <2>1, <2>2, <3>1, <3>2, <3>3 DEF Inside
    <3> QED
      BY <2>2, <3>2, <3>3, <3>4, <3>5
  <2> QED
    BY <2>3, <2>4
<1> QED
  BY <1>2, <1>3, <1>7, <1>8, <1>9

(* How a block is taken, resized and given back.                           *)
Keeps(m, k) ==
  /\ Placed(k)
  /\ \A X : ListsOK(m, X) => ListsOK(k, X)
  /\ \A Y : NoEmpty(m, Y) => NoEmpty(k, Y)
  /\ CellUses(k) = CellUses(m)

(* The same, of a block table that is well placed, with what is in use.    *)
LEMMA StepKeepsAll ==
  ASSUME NEW m, Placed(m), NEW h \in DOMAIN m.heap, NEW blk, BlockTable(blk), Touches(m, h, blk),
         \A b \in DOMAIN blk :
           /\ blk[b].heap \in DOMAIN m.heap /\ blk[b].size >= 2
           /\ First(m, blk[b].heap) <= b /\ b + blk[b].size <= Limit(m, blk[b].heap),
         \A b, c \in DOMAIN blk : blk[b].heap = blk[c].heap /\ b < c => b + blk[b].size <= c
  PROVE  LET k == WithBlocks(m, h, blk)
         IN  /\ Keeps(m, k) /\ Step(m, k, h, blk)
             /\ \A b \in DOMAIN blk : OwnBlock(k, b) <=> b \notin DOMAIN m.block \/ OwnBlock(m, b)
             /\ \A u : u \in Uses(k) <=>
                  \/ u \in CellUses(m)
                  \/ \E b \in DOMAIN blk : /\ b \notin DOMAIN m.block \/ OwnBlock(m, b)
                                           /\ u = Use(b + 1, blk[b].size - 1, blk[b].heap)
<1> DEFINE k == WithBlocks(m, h, blk)
<1>1. Memory(k) /\ Step(m, k, h, blk)
  BY LimitNat, WithBlocksStep DEF Placed
<1> HIDE DEF k
<1>2. k.block = blk /\ DOMAIN k.heap = DOMAIN m.heap
  BY <1>1 DEF Step
<1>3. \A j \in DOMAIN m.heap : First(k, j) = First(m, j) /\ Limit(k, j) = Limit(m, j)
  BY <1>1, StepFields
<1>4. BlocksOK(k)
  BY <1>2, <1>3 DEF BlocksOK, End
<1>5. /\ Keeps(m, k)
      /\ \A b \in DOMAIN blk : OwnBlock(k, b) <=> b \notin DOMAIN m.block \/ OwnBlock(m, b)
  BY <1>1, <1>4, StepKeeps DEF Keeps
<1>6. ASSUME NEW u
      PROVE  u \in Uses(k) <=> \/ u \in CellUses(m)
                               \/ \E b \in DOMAIN blk :
                                    /\ b \notin DOMAIN m.block \/ OwnBlock(m, b)
                                    /\ u = Use(b + 1, blk[b].size - 1, blk[b].heap)
  <2>1. u \in Uses(k) <=> u \in CellUses(m) \/ u \in BlockUses(k)
    BY <1>5 DEF Uses, Keeps
  <2>2. u \in BlockUses(k) <=> \E b \in DOMAIN blk : OwnBlock(k, b) /\ u = BlockUse(k, b)
    BY <1>2, BlockUsed
  <2>3. \A b \in DOMAIN blk : BlockUse(k, b) = Use(b + 1, blk[b].size - 1, blk[b].heap)
    BY <1>2 DEF BlockUse
  <2> QED
    BY <1>5, <2>1, <2>2, <2>3
<1> QED
  BY <1>1, <1>5, <1>6 DEF k

(* k is m with one more block b of the heap h, of size s.                  *)
Took(m, k, h, b, s) ==
  /\ Keeps(m, k) /\ Step(m, k, h, With(m.block, b, [size |-> s, heap |-> h]))
  /\ b \in Nat /\ b \notin DOMAIN m.block /\ s \in Nat /\ s >= 2 /\ OwnBlock(k, b)
  /\ Uses(k) = Uses(m) \cup {Use(b + 1, s - 1, h)}

(* A block added, blocks removed, a block resized: a table of blocks.      *)
LEMMA BlockTables ==
  ASSUME NEW m, Memory(m)
  PROVE  /\ \A b \in Nat : \A s \in Nat : \A h \in Nat :
              BlockTable(With(m.block, b, [size |-> s, heap |-> h]))
         /\ \A S : BlockTable(Without(m.block, S))
         /\ \A b \in DOMAIN m.block : \A s \in Nat : BlockTable([m.block EXCEPT ![b].size = s])
<1>1. /\ m.block \in [DOMAIN m.block -> BlockRec] /\ DOMAIN m.block \subseteq Nat
      /\ IsFiniteSet(DOMAIN m.block)
  BY DEF Memory
<1>2. ASSUME NEW b \in Nat, NEW s \in Nat, NEW h \in Nat
      PROVE  BlockTable(With(m.block, b, [size |-> s, heap |-> h]))
  <2> DEFINE blk == With(m.block, b, [size |-> s, heap |-> h])
  <2>1. DOMAIN blk = DOMAIN m.block \cup {b} /\ [size |-> s, heap |-> h] \in BlockRec
    BY DEF BlockRec, With
  <2>2. blk \in [DOMAIN blk -> BlockRec]
    BY <1>1, <2>1 DEF With
  <2> HIDE DEF blk
  <2>3. IsFiniteSet(DOMAIN blk)
    BY <1>1, <2>1, FS_AddElement
  <2> QED
    BY <1>1, <2>1, <2>2, <2>3 DEF BlockTable, blk
<1>3. ASSUME NEW S PROVE BlockTable(Without(m.block, S))
  <2> DEFINE blk == Without(m.block, S)
  <2>1. DOMAIN blk = DOMAIN m.block \ S /\ blk \in [DOMAIN blk -> BlockRec]
    BY <1>1 DEF Without
  <2> HIDE DEF blk
  <2>2. IsFiniteSet(DOMAIN blk)
    BY <1>1, <2>1, FS_Subset
  <2> QED
    BY <1>1, <2>1, <2>2 DEF BlockTable, blk
<1>4. ASSUME NEW b \in DOMAIN m.block, NEW s \in Nat PROVE BlockTable([m.block EXCEPT ![b].size = s])
  BY <1>1 DEF BlockTable, BlockRec
<1> QED
  BY <1>2, <1>3, <1>4

(* A block taken from a gap is a pointer in use more.                      *)
LEMMA TakeBlock ==
  ASSUME NEW m, Placed(m), NEW h \in DOMAIN m.heap, NEW g \in Gaps(m, h),
         NEW s \in Nat, s >= 2, s <= g.len
  PROVE  Took(m, WithBlocks(m, h, With(m.block, g.at, [size |-> s, heap |-> h])), h, g.at, s)
<1> DEFINE b == g.at
           blk == With(m.block, b, [size |-> s, heap |-> h])
           k == WithBlocks(m, h, blk)
<1>1. /\ b \in Nat /\ g.len \in Nat /\ First(m, h) <= b /\ b + g.len <= Limit(m, h)
      /\ \A c \in DOMAIN m.block : m.block[c].heap = h => End(m, c) <= b \/ b + g.len <= c
      /\ b \notin DOMAIN m.block
  BY GapRoom
<1>2. h \in Nat /\ First(m, h) \in Nat /\ Limit(m, h) \in Nat
  BY LimitNat, Types DEF Placed
<1> HIDE DEF b
<1>3. BlockTable(blk)
  BY <1>1, <1>2, BlockTables DEF Placed
<1>4. /\ DOMAIN blk = DOMAIN m.block \cup {b} /\ blk[b].size = s /\ blk[b].heap = h
      /\ \A c \in DOMAIN m.block : blk[c] = m.block[c]
  BY <1>1 DEF With
<1> HIDE DEF blk
<1>5. \A c \in DOMAIN m.block :
        /\ c \in Nat /\ m.block[c].size \in Nat /\ m.block[c].heap \in DOMAIN m.heap
        /\ End(m, c) = c + m.block[c].size
        /\ m.block[c].size >= 2 /\ First(m, m.block[c].heap) <= c
        /\ End(m, c) <= Limit(m, m.block[c].heap)
  BY Types DEF Placed, BlocksOK, End
<1>6. Touches(m, h, blk)
  BY <1>4 DEF Touches
<1>7. \A c \in DOMAIN blk :
        /\ blk[c].heap \in DOMAIN m.heap /\ blk[c].size >= 2
        /\ First(m, blk[c].heap) <= c /\ c + blk[c].size <= Limit(m, blk[c].heap)
  <2>1. First(m, h) <= b /\ b + s <= Limit(m, h)
    BY <1>1, <1>2
  <2> QED
    BY <1>4, <1>5, <2>1
<1>8. ASSUME NEW c \in DOMAIN blk, NEW d \in DOMAIN blk, blk[c].heap = blk[d].heap, c < d
      PROVE  c + blk[c].size <= d
  <2>1. CASE c # b /\ d # b
    <3>1. c \in DOMAIN m.block /\ d \in DOMAIN m.block
      BY <1>4, <2>1
    <3>2. End(m, c) <= d
      BY <1>4, <1>8, <3>1 DEF Placed, BlocksOK
    <3> QED
      BY <1>4, <1>5, <3>1, <3>2
  <2>2. CASE c = b
    <3>1. d \in DOMAIN m.block /\ m.block[d].heap = h
      BY <1>1, <1>4, <1>8, <2>2
    <3>2. d \in Nat /\ End(m, d) \in Nat /\ d < End(m, d)
      BY <1>5, <3>1
    <3>3. b + g.len <= d
      BY <1>1, <1>8, <2>2, <3>1, <3>2
    <3> QED
      BY <1>1, <1>4, <2>2, <3>2, <3>3
  <2>3. CASE d = b /\ c # b
    <3>1. c \in DOMAIN m.block /\ m.block[c].heap = h
      BY <1>4, <1>8, <2>3
    <3>2. c \in Nat /\ End(m, c) = c + m.block[c].size /\ m.block[c].size \in Nat
      BY <1>5, <3>1
    <3>3. End(m, c) <= b
      BY <1>1, <1>8, <2>3, <3>1, <3>2
    <3> QED
      BY <1>4, <2>3, <3>1, <3>2, <3>3
  <2> QED
    BY <2>1, <2>2, <2>3
<1>9. /\ Keeps(m, k) /\ Step(m, k, h, blk)
      /\ \A c \in DOMAIN blk : OwnBlock(k, c) <=> c \notin DOMAIN m.block \/ OwnBlock(m, c)
      /\ \A u : u \in Uses(k) <=>
           \/ u \in CellUses(m)
           \/ \E c \in DOMAIN blk : /\ c \notin DOMAIN m.block \/ OwnBlock(m, c)
                                    /\ u = Use(c + 1, blk[c].size - 1, blk[c].heap)
  BY <1>3, <1>6, <1>7, <1>8, StepKeepsAll
<1> HIDE DEF k
<1>10. OwnBlock(k, b)
  BY <1>1, <1>4, <1>9
<1>11. ASSUME NEW u PROVE u \in Uses(k) <=> u \in Uses(m) \/ u = Use(b + 1, s - 1, h)
  <2>1. u \in Uses(m) <=> u \in CellUses(m) \/ \E c \in DOMAIN m.block : OwnBlock(m, c) /\ u = BlockUse(m, c)
    BY BlockUsed DEF Uses
  <2>2. \A c \in DOMAIN m.block : BlockUse(m, c) = Use(c + 1, blk[c].size - 1, blk[c].heap)
    BY <1>4 DEF BlockUse
  <2>3. u \in Uses(k) => u \in Uses(m) \/ u = Use(b + 1, s - 1, h)
    BY <1>4, <1>9, <2>1, <2>2
  <2>4. u \in Uses(m) => u \in Uses(k)
    BY <1>4, <1>9, <2>1, <2>2
  <2>5. Use(b + 1, s - 1, h) \in Uses(k)
    BY <1>1, <1>4, <1>9
  <2> QED
    BY <2>3, <2>4, <2>5
<1> QED
  BY <1>1, <1>9, <1>10, <1>11 DEF Took, k, blk, b

(* Carve takes a block at least as large as it is asked for, or nothing.   *)
LEMMA CarveTakes ==
  ASSUME NEW m, Placed(m), NEW h \in DOMAIN m.heap, NEW n \in Nat \ {0}
  PROVE  LET o == Carve(m, h, n)
         IN  \/ o = Outcome(m, Null)
             \/ /\ o = Outcome(o.m, o.p)
                /\ \E b, s : o.p = b + 1 /\ s >= n + 1 /\ Took(m, o.m, h, b, s)
<1> DEFINE free == m.heap[h].free
           fits == {k \in DOMAIN free : free[k].len >= n + 1}
           buckets == {Bucket(free[k].len - 1) : k \in fits}
           firsts == {k \in fits : Bucket(free[k].len - 1) = Min(buckets)}
           g == free[Min(firsts)]
           size == IF g.len = n + 2 THEN n + 2 ELSE n + 1
           blk == With(m.block, g.at, [size |-> size, heap |-> h])
<1>1. CASE fits = {}
  <2>1. Carve(m, h, n) = Outcome(m, Null)
    BY <1>1, Zenon DEF Carve
  <2> QED
    BY <2>1
<1>2. CASE fits # {}
  <2>1. Carve(m, h, n) = Outcome(WithBlocks(m, h, blk), g.at + 1)
    BY <1>2, Zenon DEF Carve
  <2>2. free \in Seq([at : Nat, len : Nat]) /\ ToSet(free) \subseteq Gaps(m, h)
    BY Types DEF Placed, HeapsOK
  <2> HIDE DEF free
  <2>3. \A d : Bucket(d) \in Nat
    <3> SUFFICES ASSUME NEW d PROVE Bucket(d) \in Nat
      OBVIOUS
    <3> DEFINE K == {k \in DOMAIN BucketMax : d > BucketMax[k]}
    <3>1. BucketMax \in Seq(Nat \ {0})
      BY SmallHeapAssumption
    <3>2. DOMAIN BucketMax = 1 .. Len(BucketMax) /\ Len(BucketMax) \in Nat
      BY <3>1, LenProperties
    <3>3. IsFiniteSet(DOMAIN BucketMax)
      BY <3>2, FS_Interval
    <3>4. K \subseteq DOMAIN BucketMax
      OBVIOUS
    <3> HIDE DEF K
    <3>5. Cardinality(K) \in Nat
      BY <3>3, <3>4, FS_Subset, FS_CardinalityType
    <3> QED
      BY <3>5 DEF Bucket, K
  <2>4. buckets \in SUBSET Nat /\ buckets # {}
    <3> HIDE DEF fits
    <3> QED
      BY <1>2, <2>3
  <2>5. Min(buckets) \in buckets
    BY <2>4, MinNat
  <2>6. firsts # {}
    BY <2>5
  <2>7. DOMAIN free = 1 .. Len(free) /\ Len(free) \in Nat
    BY <2>2, SeqSet
  <2>8. firsts \in SUBSET Nat
    <3>1. fits \subseteq DOMAIN free /\ firsts \subseteq fits
      OBVIOUS
    <3> QED
      BY <2>7, <3>1
  <2>9. Min(firsts) \in firsts
    BY <2>6, <2>8, MinNat
  <2> HIDE DEF firsts
  <2>10. Min(firsts) \in DOMAIN free /\ g.len >= n + 1
    BY <2>9 DEF firsts
  <2>11. g \in Gaps(m, h)
    BY <2>2, <2>10 DEF ToSet
  <2> HIDE DEF g
  <2>12. g.len \in Nat
    BY <2>11, GapRoom
  <2>13. size \in Nat /\ size >= 2 /\ size <= g.len /\ size >= n + 1
    BY <2>10, <2>12
  <2> HIDE DEF size
  <2>14. Took(m, WithBlocks(m, h, blk), h, g.at, size)
    BY <2>11, <2>13, TakeBlock
  <2>15. Carve(m, h, n).p = g.at + 1 /\ Carve(m, h, n).m = WithBlocks(m, h, blk)
    BY <2>1 DEF Outcome
  <2>16. Carve(m, h, n) = Outcome(Carve(m, h, n).m, Carve(m, h, n).p)
    BY <2>1, <2>15
  <2> QED
    BY <2>13, <2>14, <2>15, <2>16
<1> QED
  BY <1>1, <1>2

(* What no operation of the small pool or of the blocks changes.           *)
LEMMA OwnUse ==
  ASSUME NEW m, Placed(m), NEW b \in DOMAIN m.block, OwnBlock(m, b)
  PROVE  /\ BlockUse(m, b) \in Uses(m)
         /\ \A u : u \in Uses(m) \ {BlockUse(m, b)} <=>
              \/ u \in CellUses(m)
              \/ \E c \in DOMAIN m.block \ {b} : OwnBlock(m, c) /\ u = BlockUse(m, c)
<1>1. \A u : u \in Uses(m) <=> \/ u \in CellUses(m)
                               \/ \E c \in DOMAIN m.block : OwnBlock(m, c) /\ u = BlockUse(m, c)
  BY BlockUsed DEF Uses
<1>2. BlockUse(m, b) \in Uses(m)
  BY <1>1
<1>3. BlockUse(m, b) \notin CellUses(m)
  <2> SUFFICES ASSUME BlockUse(m, b) \in CellUses(m) PROVE FALSE
    OBVIOUS
  <2>1. PICK t \in DOMAIN m.slab : \E i \in LiveIn(m, t) : BlockUse(m, b) = CellUse(m, t, i)
    BY CellUsed
  <2>2. PICK i \in LiveIn(m, t) : BlockUse(m, b) = CellUse(m, t, i)
    BY <2>1
  <2>3. SlabFromPtr(m, CellUse(m, t, i).p) = t /\ t # Null
    BY CellUseIs
  <2>4. SlabFromPtr(m, BlockUse(m, b).p) = Null
    BY BlockUseIs
  <2> QED
    BY <2>2, <2>3, <2>4
<1>4. \A c \in DOMAIN m.block \ {b} : BlockUse(m, c) # BlockUse(m, b)
  <2>1. \A c \in DOMAIN m.block : BlockUse(m, c).p - 1 = c
    BY BlockUseIs
  <2> QED
    BY <2>1
<1> QED
  BY <1>1, <1>2, <1>3, <1>4

(* A block given back is a pointer in use less.                            *)
LEMMA GiveBlock ==
  ASSUME NEW m, Placed(m), NEW b \in DOMAIN m.block, OwnBlock(m, b), NEW h, h = m.block[b].heap
  PROVE  LET k == WithBlocks(m, h, Without(m.block, {b}))
         IN  /\ h \in DOMAIN m.heap
             /\ Keeps(m, k) /\ Step(m, k, h, Without(m.block, {b}))
             /\ Uses(k) = Uses(m) \ {BlockUse(m, b)}
<1> DEFINE blk == Without(m.block, {b})
           k == WithBlocks(m, h, blk)
<1>1. h \in DOMAIN m.heap
  BY DEF Placed, BlocksOK
<1>2. BlockTable(blk)
  BY BlockTables DEF Placed
<1>3. /\ DOMAIN blk = DOMAIN m.block \ {b} /\ \A c \in DOMAIN blk : blk[c] = m.block[c]
  BY DEF Without
<1> HIDE DEF blk
<1>4. Touches(m, h, blk)
  BY <1>3 DEF Touches
<1>5. \A c \in DOMAIN m.block :
        /\ m.block[c].heap \in DOMAIN m.heap
        /\ m.block[c].size >= 2 /\ First(m, m.block[c].heap) <= c
        /\ c + m.block[c].size <= Limit(m, m.block[c].heap)
  BY DEF Placed, BlocksOK, End
<1>6. \A c, d \in DOMAIN m.block : m.block[c].heap = m.block[d].heap /\ c < d => c + m.block[c].size <= d
  BY DEF Placed, BlocksOK, End
<1>7. /\ Keeps(m, k) /\ Step(m, k, h, blk)
      /\ \A u : u \in Uses(k) <=>
           \/ u \in CellUses(m)
           \/ \E c \in DOMAIN blk : /\ c \notin DOMAIN m.block \/ OwnBlock(m, c)
                                    /\ u = Use(c + 1, blk[c].size - 1, blk[c].heap)
  <2>1. \A c \in DOMAIN blk :
          /\ blk[c].heap \in DOMAIN m.heap /\ blk[c].size >= 2
          /\ First(m, blk[c].heap) <= c /\ c + blk[c].size <= Limit(m, blk[c].heap)
    BY <1>3, <1>5
  <2>2. \A c, d \in DOMAIN blk : blk[c].heap = blk[d].heap /\ c < d => c + blk[c].size <= d
    BY <1>3, <1>6
  <2> QED
    BY <1>1, <1>2, <1>4, <2>1, <2>2, StepKeepsAll
<1> HIDE DEF k
<1>8. \A u : u \in Uses(m) \ {BlockUse(m, b)} <=>
              \/ u \in CellUses(m)
              \/ \E c \in DOMAIN m.block \ {b} : OwnBlock(m, c) /\ u = BlockUse(m, c)
  BY OwnUse
<1>9. \A c \in DOMAIN blk : BlockUse(m, c) = Use(c + 1, blk[c].size - 1, blk[c].heap)
  BY <1>3 DEF BlockUse
<1>10. \A u : u \in Uses(k) <=> u \in Uses(m) \ {BlockUse(m, b)}
  BY <1>3, <1>7, <1>8, <1>9
<1> QED
  BY <1>1, <1>7, <1>10 DEF k, blk

(* _HeapFree of a block of the clients' own succeeds.                      *)
LEMMA FreeBlockGives ==
  ASSUME NEW m, Placed(m), NEW b \in DOMAIN m.block, OwnBlock(m, b), NEW h, h = m.block[b].heap,
         Passes(m, h)
  PROVE  LET o == HeapFreeBlock(m, h, b + 1)
         IN  /\ o.p = b + 1 /\ h \in DOMAIN m.heap
             /\ Keeps(m, o.m) /\ Step(m, o.m, h, Without(m.block, {b}))
             /\ Uses(o.m) = Uses(m) \ {BlockUse(m, b)}
<1>1. b \in Nat /\ b + 1 - 1 = b
  BY Types DEF Placed
<1>2. SlabFromPtr(m, b + 1) = Null
  BY BlockIsNoCell
<1> DEFINE k == WithBlocks(m, h, Without(m.block, {b}))
<1>3. HeapFreeBlock(m, h, b + 1) = Outcome(k, b + 1)
  BY <1>1, <1>2 DEF HeapFreeBlock
<1>4. /\ h \in DOMAIN m.heap /\ Keeps(m, k) /\ Step(m, k, h, Without(m.block, {b}))
      /\ Uses(k) = Uses(m) \ {BlockUse(m, b)}
  BY GiveBlock
<1> HIDE DEF k
<1> QED
  BY <1>3, <1>4 DEF Outcome

(* A block that shrinks, or grows into the gap behind it.                  *)
LEMMA ResizeBlock ==
  ASSUME NEW m, Placed(m), NEW b \in DOMAIN m.block, OwnBlock(m, b), NEW h, h = m.block[b].heap,
         NEW s \in Nat, s >= 2,
         \/ s <= m.block[b].size
         \/ \E g \in Gaps(m, h) : g.at = End(m, b) /\ g.len >= s - m.block[b].size
  PROVE  LET k == WithBlocks(m, h, [m.block EXCEPT ![b].size = s])
         IN  /\ Keeps(m, k) /\ Step(m, k, h, [m.block EXCEPT ![b].size = s])
             /\ Uses(k) = (Uses(m) \ {BlockUse(m, b)}) \cup {Use(b + 1, s - 1, h)}
<1> DEFINE blk == [m.block EXCEPT ![b].size = s]
           k == WithBlocks(m, h, blk)
<1>1. h \in DOMAIN m.heap
  BY DEF Placed, BlocksOK
<1>2. BlockTable(blk)
  BY BlockTables DEF Placed
<1>3. /\ DOMAIN blk = DOMAIN m.block /\ \A c \in DOMAIN blk \ {b} : blk[c] = m.block[c]
      /\ blk[b].size = s /\ blk[b].heap = h
  <2>1. m.block \in [DOMAIN m.block -> BlockRec]
    BY DEF Placed, Memory
  <2> QED
    BY <2>1 DEF BlockRec
<1> HIDE DEF blk
<1>4. Touches(m, h, blk)
  BY <1>3 DEF Touches
<1>5. \A c \in DOMAIN m.block :
        /\ c \in Nat /\ m.block[c].size \in Nat /\ End(m, c) = c + m.block[c].size
        /\ m.block[c].heap \in DOMAIN m.heap
        /\ m.block[c].size >= 2 /\ First(m, m.block[c].heap) <= c
        /\ c + m.block[c].size <= Limit(m, m.block[c].heap)
  BY Types DEF Placed, BlocksOK, End
<1>6. \A c, d \in DOMAIN m.block : m.block[c].heap = m.block[d].heap /\ c < d => c + m.block[c].size <= d
  BY DEF Placed, BlocksOK, End
<1>7. /\ b + s <= Limit(m, h)
      /\ \A c \in DOMAIN m.block : m.block[c].heap = h /\ b < c => b + s <= c
  <2>0. Limit(m, h) \in Nat
    BY <1>1, LimitNat
  <2>1. CASE s <= m.block[b].size
    <3>1. b + s <= b + m.block[b].size
      BY <1>5, <2>1
    <3>2. b + s <= Limit(m, h)
      BY <1>5, <2>0, <3>1
    <3>3. \A c \in DOMAIN m.block : m.block[c].heap = h /\ b < c => b + s <= c
      BY <1>5, <1>6, <3>1
    <3> QED
      BY <3>2, <3>3
  <2>2. ASSUME NEW g \in Gaps(m, h), g.at = End(m, b), g.len >= s - m.block[b].size
        PROVE  /\ b + s <= Limit(m, h)
               /\ \A c \in DOMAIN m.block : m.block[c].heap = h /\ b < c => b + s <= c
    <3>1. /\ g.at \in Nat /\ g.len \in Nat /\ g.at + g.len <= Limit(m, h)
          /\ \A c \in DOMAIN m.block : m.block[c].heap = h => End(m, c) <= g.at \/ g.at + g.len <= c
      BY <1>1, GapRoom
    <3>2. b + s <= g.at + g.len
      BY <1>5, <2>2, <3>1
    <3>3. b + s <= Limit(m, h)
      BY <1>5, <2>0, <3>1, <3>2
    <3>4. ASSUME NEW c \in DOMAIN m.block, m.block[c].heap = h, b < c PROVE b + s <= c
      <4>1. End(m, b) <= c
        BY <1>5, <1>6, <3>4
      <4>2. End(m, c) <= g.at \/ g.at + g.len <= c
        BY <3>1, <3>4
      <4>3. c \in Nat /\ End(m, c) \in Nat /\ c < End(m, c)
        BY <1>5
      <4>4. g.at + g.len <= c
        BY <2>2, <3>1, <4>1, <4>2, <4>3
      <4> QED
        BY <1>5, <3>1, <3>2, <4>3, <4>4
    <3> QED
      BY <3>3, <3>4
  <2> QED
    BY <2>1, <2>2
<1>8. \A c \in DOMAIN blk :
        /\ blk[c].heap \in DOMAIN m.heap /\ blk[c].size >= 2
        /\ First(m, blk[c].heap) <= c /\ c + blk[c].size <= Limit(m, blk[c].heap)
  <2>1. First(m, h) <= b
    BY <1>5
  <2> QED
    BY <1>1, <1>3, <1>5, <1>7, <2>1
<1>9. ASSUME NEW c \in DOMAIN blk, NEW d \in DOMAIN blk, blk[c].heap = blk[d].heap, c < d
      PROVE  c + blk[c].size <= d
  <2>0. c \in Nat /\ d \in Nat /\ m.block[c].heap = m.block[d].heap
    BY <1>3, <1>5, <1>9
  <2>1. CASE c = b
    BY <1>3, <1>7, <1>9, <2>0, <2>1
  <2>2. CASE c # b
    BY <1>3, <1>6, <1>9, <2>0, <2>2
  <2> QED
    BY <2>1, <2>2
<1>10. /\ Keeps(m, k) /\ Step(m, k, h, blk)
      /\ \A u : u \in Uses(k) <=>
           \/ u \in CellUses(m)
           \/ \E c \in DOMAIN blk : /\ c \notin DOMAIN m.block \/ OwnBlock(m, c)
                                    /\ u = Use(c + 1, blk[c].size - 1, blk[c].heap)
  BY <1>1, <1>2, <1>4, <1>8, <1>9, StepKeepsAll
<1> HIDE DEF k
<1>11. \A u : u \in Uses(m) \ {BlockUse(m, b)} <=>
              \/ u \in CellUses(m)
              \/ \E c \in DOMAIN m.block \ {b} : OwnBlock(m, c) /\ u = BlockUse(m, c)
  BY OwnUse
<1>12. \A c \in DOMAIN blk \ {b} : BlockUse(m, c) = Use(c + 1, blk[c].size - 1, blk[c].heap)
  BY <1>3 DEF BlockUse
<1>13. \A u : u \in Uses(k) <=> u \in Uses(m) \ {BlockUse(m, b)} \/ u = Use(b + 1, s - 1, h)
  BY <1>3, <1>10, <1>11, <1>12
<1> QED
  BY <1>10, <1>13 DEF k, blk
-----------------------------------------------------------------------------
(* What the heaps of m keep in k: their extent and their option.           *)
SameHeaps(m, k) ==
  /\ DOMAIN k.heap = DOMAIN m.heap
  /\ \A h \in DOMAIN m.heap :
       /\ k.heap[h].lo = m.heap[h].lo /\ k.heap[h].hi = m.heap[h].hi
       /\ k.heap[h].validate = m.heap[h].validate

(* And what they take for free, and their control blocks.                  *)
SamePlaces(m, k) ==
  /\ SameHeaps(m, k)
  /\ \A h \in DOMAIN m.heap : /\ k.heap[h].free = m.heap[h].free
                              /\ k.heap[h].scb = m.heap[h].scb

(* A step of the block allocator leaves the heaps where they are.          *)
LEMMA StepSame ==
  ASSUME NEW m, NEW k, NEW h, NEW blk, Step(m, k, h, blk)
  PROVE  SameHeaps(m, k)
<1>1. DOMAIN k.heap = DOMAIN m.heap
  BY DEF Step
<1> QED
  BY <1>1, StepFields DEF SameHeaps

(* Heaps where they were and the same blocks: the same gaps.               *)
LEMMA BlocksSame ==
  ASSUME NEW m, NEW k, k.block = m.block, SameHeaps(m, k)
  PROVE  /\ \A h \in DOMAIN m.heap : /\ First(k, h) = First(m, h) /\ Limit(k, h) = Limit(m, h)
                                     /\ Gaps(k, h) = Gaps(m, h)
         /\ \A b : End(k, b) = End(m, b)
         /\ BlocksOK(m) => BlocksOK(k)
<1>1. \A h \in DOMAIN m.heap : First(k, h) = First(m, h) /\ Limit(k, h) = Limit(m, h)
  BY DEF SameHeaps, First, Limit
<1>2. \A b : End(k, b) = End(m, b)
  BY DEF End
<1>3. ASSUME NEW h \in DOMAIN m.heap PROVE Gaps(k, h) = Gaps(m, h)
  <2>1. Blocks(k, h) = Blocks(m, h)
    BY DEF Blocks
  <2> QED
    BY <1>1, <2>1, GapsDepend
<1>4. DOMAIN k.heap = DOMAIN m.heap
  BY DEF SameHeaps
<1>5. BlocksOK(m) => BlocksOK(k)
  BY <1>1, <1>2, <1>4 DEF BlocksOK
<1> QED
  BY <1>1, <1>2, <1>3, <1>5

(* And the heaps are as sound as they were.                                *)
LEMMA HeapsSame ==
  ASSUME NEW m, NEW k, k.block = m.block, SamePlaces(m, k), HeapsOK(m)
  PROVE  HeapsOK(k)
<1>1. /\ \A h \in DOMAIN m.heap : /\ First(k, h) = First(m, h) /\ Limit(k, h) = Limit(m, h)
                                  /\ Gaps(k, h) = Gaps(m, h)
      /\ \A b : End(k, b) = End(m, b)
  BY BlocksSame DEF SamePlaces
<1>2. DOMAIN k.heap = DOMAIN m.heap
  BY DEF SamePlaces, SameHeaps
<1> SUFFICES ASSUME NEW h \in DOMAIN m.heap
             PROVE  /\ k.heap[h].lo = h /\ First(k, h) < Limit(k, h)
                    /\ h # Machine => /\ h - 1 \in DOMAIN k.block /\ k.block[h - 1].heap = Machine
                                      /\ k.heap[h].hi <= End(k, h - 1)
                    /\ ToSet(k.heap[h].free) \subseteq Gaps(k, h)
                    /\ LET b == k.heap[h].scb - 1
                       IN  k.heap[h].scb # Null =>
                             /\ b \in DOMAIN k.block /\ k.block[b].heap = h /\ k.block[b].size > ScbSize
                             /\ b + 1 \notin DOMAIN k.heap
  BY <1>2 DEF HeapsOK
<1>3. /\ k.heap[h].lo = m.heap[h].lo /\ k.heap[h].hi = m.heap[h].hi
      /\ k.heap[h].free = m.heap[h].free /\ k.heap[h].scb = m.heap[h].scb
  BY DEF SamePlaces, SameHeaps
<1> QED
  BY <1>1, <1>2, <1>3 DEF HeapsOK

(* So are the arenas.                                                      *)
LEMMA ArenasSame ==
  ASSUME NEW m, NEW k, k.block = m.block, k.arena = m.arena, SamePlaces(m, k), ArenasOK(m),
         \A h \in DOMAIN m.heap : k.heap[h].arenas = m.heap[h].arenas
  PROVE  ArenasOK(k)
<1>1. \A b : End(k, b) = End(m, b)
  BY DEF End
<1>2. /\ DOMAIN k.heap = DOMAIN m.heap
      /\ \A h \in DOMAIN m.heap : k.heap[h].scb = m.heap[h].scb
  BY DEF SamePlaces, SameHeaps
<1> QED
  BY <1>1, <1>2 DEF ArenasOK

(* So are the slabs.                                                       *)
LEMMA SlabsSame ==
  ASSUME NEW m, NEW k, k.block = m.block, k.arena = m.arena, k.slab = m.slab, SlabsOK(m)
  PROVE  SlabsOK(k)
<1>1. \A a : Tiles(k, a) = Tiles(m, a)
  BY DEF Tiles, TileAt
<1> QED
  BY <1>1 DEF SlabsOK

(* And the same blocks are the clients' own.                               *)
LEMMA OwnSame ==
  ASSUME NEW m, NEW k, k.block = m.block, DOMAIN k.arena = DOMAIN m.arena, SamePlaces(m, k)
  PROVE  /\ \A b : OwnBlock(k, b) <=> OwnBlock(m, b)
         /\ BlockUses(k) = BlockUses(m)
<1>1. /\ DOMAIN k.heap = DOMAIN m.heap
      /\ \A h \in DOMAIN m.heap : k.heap[h].scb = m.heap[h].scb
  BY DEF SamePlaces, SameHeaps
<1>2. \A b : OwnBlock(k, b) <=> OwnBlock(m, b)
  BY <1>1 DEF OwnBlock
<1>3. \A b : BlockUse(k, b) = BlockUse(m, b)
  BY DEF BlockUse
<1>4. BlockUses(k) = BlockUses(m)
  BY <1>2, <1>3 DEF BlockUses
<1> QED
  BY <1>2, <1>4

(* The class lists and counts, when nothing they speak of changed.         *)
LEMMA ListsSame ==
  ASSUME NEW m, NEW k, k.slab = m.slab, DOMAIN k.heap = DOMAIN m.heap,
         \A h \in DOMAIN m.heap : /\ k.heap[h].partial = m.heap[h].partial
                                  /\ k.heap[h].full = m.heap[h].full
                                  /\ k.heap[h].slabs = m.heap[h].slabs
                                  /\ k.heap[h].cells = m.heap[h].cells,
         NEW X, ListsOK(m, X)
  PROVE  ListsOK(k, X)
<1>1. /\ \A h : SlabsOf(k, h) = SlabsOf(m, h)
      /\ \A h, c : Roomy(k, h, c) = Roomy(m, h, c) /\ Full(k, h, c) = Full(m, h, c)
      /\ CellUses(k) = CellUses(m)
  BY SlabsOnly
<1> SUFFICES ASSUME NEW h \in DOMAIN m.heap
             PROVE  /\ \A c \in Classes :
                         /\ Once(k.heap[h].partial[c]) /\ ToSet(k.heap[h].partial[c]) = Roomy(k, h, c) \ X
                         /\ Once(k.heap[h].full[c]) /\ ToSet(k.heap[h].full[c]) = Full(k, h, c) \ X
                    /\ k.heap[h].slabs = Cardinality(SlabsOf(k, h))
                    /\ k.heap[h].cells = Cardinality({u \in CellUses(k) : u.heap = h})
  BY DEF ListsOK
<1>2. /\ k.heap[h].partial = m.heap[h].partial /\ k.heap[h].full = m.heap[h].full
      /\ k.heap[h].slabs = m.heap[h].slabs /\ k.heap[h].cells = m.heap[h].cells
  OBVIOUS
<1>3. /\ \A c \in Classes :
           /\ Once(m.heap[h].partial[c]) /\ ToSet(m.heap[h].partial[c]) = Roomy(m, h, c) \ X
           /\ Once(m.heap[h].full[c]) /\ ToSet(m.heap[h].full[c]) = Full(m, h, c) \ X
      /\ m.heap[h].slabs = Cardinality(SlabsOf(m, h))
      /\ m.heap[h].cells = Cardinality({u \in CellUses(m) : u.heap = h})
  BY DEF ListsOK
<1> QED
  BY <1>1, <1>2, <1>3

(* The record of one heap replaced.                                        *)
LEMMA HeapPut ==
  ASSUME NEW m, Memory(m), NEW h \in DOMAIN m.heap, NEW K \in HeapRec
  PROVE  LET k == [m EXCEPT !.heap = [@ EXCEPT ![h] = K]]
         IN  /\ Memory(k) /\ k.block = m.block /\ k.arena = m.arena /\ k.slab = m.slab
             /\ DOMAIN k.heap = DOMAIN m.heap /\ k.heap[h] = K
             /\ \A j \in DOMAIN m.heap \ {h} : k.heap[j] = m.heap[j]
<1> DEFINE k == [m EXCEPT !.heap = [@ EXCEPT ![h] = K]]
<1>1. m \in [heap : {m.heap}, block : {m.block}, arena : {m.arena}, slab : {m.slab}]
  BY DEF Memory
<1>2. /\ k.block = m.block /\ k.arena = m.arena /\ k.slab = m.slab /\ k.heap = [m.heap EXCEPT ![h] = K]
      /\ k \in [heap : {k.heap}, block : {k.block}, arena : {k.arena}, slab : {k.slab}]
  BY <1>1
<1> HIDE DEF k
<1>3. /\ m.heap \in [DOMAIN m.heap -> HeapRec] /\ DOMAIN k.heap = DOMAIN m.heap /\ k.heap[h] = K
      /\ \A j \in DOMAIN m.heap \ {h} : k.heap[j] = m.heap[j]
      /\ k.heap \in [DOMAIN k.heap -> HeapRec]
  BY <1>2 DEF Memory
<1>4. Memory(k)
  BY <1>2, <1>3 DEF Memory
<1> QED
  BY <1>2, <1>3, <1>4 DEF k

(* A block becomes the control block of its heap.                          *)
LEMMA ScbMade ==
  ASSUME NEW m, Placed(m), NEW h \in DOMAIN m.heap, NEW b \in DOMAIN m.block, OwnBlock(m, b),
         m.block[b].heap = h, m.block[b].size > ScbSize, m.heap[h].scb = Null
  PROVE  LET k == [m EXCEPT !.heap[h].scb = b + 1]
         IN  Keeps(m, k) /\ SameHeaps(m, k) /\ Uses(k) = Uses(m) \ {BlockUse(m, b)}
<1> DEFINE K == [m.heap[h] EXCEPT !.scb = b + 1]
           k == [m EXCEPT !.heap = [@ EXCEPT ![h] = K]]
<1>1. k = [m EXCEPT !.heap[h].scb = b + 1]
  OBVIOUS
<1>2. b \in Nat /\ m.heap[h] \in HeapRec /\ b + 1 \in Nat /\ b + 1 - 1 = b /\ b + 1 # Null
  BY Types DEF Placed, Null
<1> DEFINE d == b + 1
<1>3. /\ K \in HeapRec /\ K.scb = d /\ K.lo = m.heap[h].lo /\ K.hi = m.heap[h].hi
      /\ K.validate = m.heap[h].validate /\ K.arenas = m.heap[h].arenas /\ K.free = m.heap[h].free
      /\ K.partial = m.heap[h].partial /\ K.full = m.heap[h].full
      /\ K.slabs = m.heap[h].slabs /\ K.cells = m.heap[h].cells
  BY <1>2 DEF HeapRec
<1> HIDE DEF K, d
<1>4. /\ Memory(k) /\ k.block = m.block /\ k.arena = m.arena /\ k.slab = m.slab
      /\ DOMAIN k.heap = DOMAIN m.heap /\ k.heap[h] = K
      /\ \A j \in DOMAIN m.heap \ {h} : k.heap[j] = m.heap[j]
  BY <1>3, HeapPut DEF Placed
<1> HIDE DEF k
<1>5. SameHeaps(m, k)
  BY <1>3, <1>4 DEF SameHeaps
<1>6. /\ \A j \in DOMAIN m.heap : /\ First(k, j) = First(m, j) /\ Limit(k, j) = Limit(m, j)
                                  /\ Gaps(k, j) = Gaps(m, j)
      /\ \A c : End(k, c) = End(m, c)
      /\ BlocksOK(k)
  BY <1>4, <1>5, BlocksSame DEF Placed
<1>7. d - 1 = b /\ d # Null /\ d \notin DOMAIN m.heap /\ d \notin DOMAIN m.arena
  BY <1>2 DEF OwnBlock, d
<1>8. HeapsOK(k)
  <2> SUFFICES ASSUME NEW j \in DOMAIN m.heap
               PROVE  /\ k.heap[j].lo = j /\ First(k, j) < Limit(k, j)
                      /\ j # Machine => /\ j - 1 \in DOMAIN k.block /\ k.block[j - 1].heap = Machine
                                        /\ k.heap[j].hi <= End(k, j - 1)
                      /\ ToSet(k.heap[j].free) \subseteq Gaps(k, j)
                      /\ LET c == k.heap[j].scb - 1
                         IN  k.heap[j].scb # Null =>
                               /\ c \in DOMAIN k.block /\ k.block[c].heap = j /\ k.block[c].size > ScbSize
                               /\ c + 1 \notin DOMAIN k.heap
    BY <1>4 DEF HeapsOK
  <2>1. /\ k.heap[j].lo = m.heap[j].lo /\ k.heap[j].hi = m.heap[j].hi /\ k.heap[j].free = m.heap[j].free
        /\ j # h => k.heap[j].scb = m.heap[j].scb
    BY <1>3, <1>4
  <2>2. /\ m.heap[j].lo = j /\ First(m, j) < Limit(m, j)
        /\ j # Machine => /\ j - 1 \in DOMAIN m.block /\ m.block[j - 1].heap = Machine
                          /\ m.heap[j].hi <= End(m, j - 1)
        /\ ToSet(m.heap[j].free) \subseteq Gaps(m, j)
        /\ LET c == m.heap[j].scb - 1
           IN  m.heap[j].scb # Null =>
                 /\ c \in DOMAIN m.block /\ m.block[c].heap = j /\ m.block[c].size > ScbSize
                 /\ c + 1 \notin DOMAIN m.heap
    BY DEF Placed, HeapsOK
  <2>3. LET c == k.heap[j].scb - 1
        IN  k.heap[j].scb # Null =>
              /\ c \in DOMAIN k.block /\ k.block[c].heap = j /\ k.block[c].size > ScbSize
              /\ c + 1 \notin DOMAIN k.heap
    <3>1. CASE j = h
      <4>1. k.heap[j].scb = d
        BY <1>3, <1>4, <3>1
      <4>2. b \in DOMAIN k.block /\ k.block[b].heap = j /\ k.block[b].size > ScbSize
        BY <1>4, <3>1
      <4>3. b + 1 = d
        BY DEF d
      <4> QED
        BY <1>4, <1>7, <4>1, <4>2, <4>3
    <3>2. CASE j # h
      BY <1>4, <2>1, <2>2, <3>2
    <3> QED
      BY <3>1, <3>2
  <2> QED
    BY <1>4, <1>6, <2>1, <2>2, <2>3
<1>9. ArenasOK(k)
  <2>1. \A a \in DOMAIN m.arena : \A j \in DOMAIN k.heap : k.heap[j].scb # a
    BY <1>3, <1>4, <1>7 DEF Placed, ArenasOK
  <2>2. \A j \in DOMAIN m.heap : k.heap[j].arenas = m.heap[j].arenas
    BY <1>3, <1>4
  <2> QED
    BY <1>4, <1>6, <2>1, <2>2 DEF Placed, ArenasOK
<1>10. SlabsOK(k)
  BY <1>4, SlabsSame DEF Placed
<1>11. Placed(k)
  BY <1>4, <1>6, <1>8, <1>9, <1>10 DEF Placed
<1>12. \A X : ListsOK(m, X) => ListsOK(k, X)
  <2>1. \A j \in DOMAIN m.heap : /\ k.heap[j].partial = m.heap[j].partial
                                 /\ k.heap[j].full = m.heap[j].full
                                 /\ k.heap[j].slabs = m.heap[j].slabs
                                 /\ k.heap[j].cells = m.heap[j].cells
    BY <1>3, <1>4
  <2> QED
    BY <1>4, <2>1, ListsSame
<1>13. CellUses(k) = CellUses(m)
  BY <1>4, SlabsOnly
<1>14. \A Y : NoEmpty(m, Y) => NoEmpty(k, Y)
  BY <1>4 DEF NoEmpty
<1>15. \A c \in DOMAIN m.block : OwnBlock(k, c) <=> OwnBlock(m, c) /\ c # b
  <2> SUFFICES ASSUME NEW c \in DOMAIN m.block PROVE OwnBlock(k, c) <=> OwnBlock(m, c) /\ c # b
    OBVIOUS
  <2>1. c \in Nat /\ (c + 1 = d <=> c = b)
    BY <1>2, Types DEF Placed, d
  <2> DEFINE e == c + 1
  <2>2. e # Null
    BY <2>1 DEF Null
  <2> HIDE DEF e
  <2>3. (\A j \in DOMAIN k.heap : k.heap[j].scb # e) <=> (\A j \in DOMAIN m.heap : m.heap[j].scb # e) /\ e # d
    BY <1>3, <1>4, <2>2
  <2> QED
    BY <1>4, <2>1, <2>3 DEF OwnBlock, e
<1>16. \A u : u \in Uses(k) <=> u \in Uses(m) \ {BlockUse(m, b)}
  <2>1. \A c : BlockUse(k, c) = BlockUse(m, c)
    BY <1>4 DEF BlockUse
  <2>2. \A u : u \in Uses(k) <=> u \in CellUses(m) \/ \E c \in DOMAIN m.block : OwnBlock(k, c) /\ u = BlockUse(m, c)
    BY <1>4, <1>13, <2>1, BlockUsed DEF Uses
  <2>3. \A u : u \in Uses(m) \ {BlockUse(m, b)} <=>
              \/ u \in CellUses(m)
              \/ \E c \in DOMAIN m.block \ {b} : OwnBlock(m, c) /\ u = BlockUse(m, c)
    BY OwnUse
  <2> QED
    BY <1>15, <2>2, <2>3
<1> QED
  BY <1>1, <1>5, <1>11, <1>12, <1>13, <1>14, <1>16 DEF Keeps

(* k differs from m in nothing that an owner of a pointer can see.         *)
Quiet(m, k) == Keeps(m, k) /\ SameHeaps(m, k) /\ Uses(k) = Uses(m)

(* No change is no change.                                                 *)
LEMMA QuietRefl ==
  ASSUME NEW m, Placed(m)
  PROVE  Quiet(m, m)
  BY DEF Quiet, Keeps, SameHeaps

(* Heaps that stay where they are stay there over two steps.               *)
LEMMA SameTrans ==
  ASSUME NEW m, NEW k, NEW l, SameHeaps(m, k), SameHeaps(k, l)
  PROVE  SameHeaps(m, l)
  BY DEF SameHeaps

(* What two steps keep both keep together.                                 *)
LEMMA KeepsTrans ==
  ASSUME NEW m, NEW k, NEW l, Keeps(m, k), Keeps(k, l)
  PROVE  Keeps(m, l)
  BY DEF Keeps

(* A failed or a successful attempt at a block.                            *)
LEMMA AllocBlock ==
  ASSUME NEW m, Placed(m), NEW h \in DOMAIN m.heap, NEW n \in Nat \ {0}
  PROVE  LET o == HeapAllocBlock(m, h, n)
         IN  /\ o = Outcome(o.m, o.p)
             /\ \/ o.p = Null /\ o.m = m
                \/ /\ o.p # Null
                   /\ \E b, s : o.p = b + 1 /\ s >= n + 1 /\ Took(m, o.m, h, b, s)
<1>1. Outcome(m, Null).m = m /\ Outcome(m, Null).p = Null
  BY DEF Outcome
<1>2. CASE ~ Passes(m, h)
  <2>1. HeapAllocBlock(m, h, n) = Outcome(m, Null)
    BY <1>2 DEF HeapAllocBlock
  <2> QED
    BY <1>1, <2>1
<1>3. CASE Passes(m, h)
  <2> DEFINE o == Carve(m, h, n)
  <2>1. HeapAllocBlock(m, h, n) = o
    BY <1>3 DEF HeapAllocBlock
  <2>2. \/ o = Outcome(m, Null)
        \/ o = Outcome(o.m, o.p) /\ \E b, s : o.p = b + 1 /\ s >= n + 1 /\ Took(m, o.m, h, b, s)
    BY CarveTakes
  <2> HIDE DEF o
  <2>3. \A b, s : o.p = b + 1 /\ Took(m, o.m, h, b, s) => o.p # Null
    BY DEF Took, Null
  <2> QED
    BY <1>1, <2>1, <2>2, <2>3
<1> QED
  BY <1>2, <1>3

(* What is known of a block just taken.                                    *)
LEMMA TookFacts ==
  ASSUME NEW m, Placed(m), NEW h \in DOMAIN m.heap, NEW k, NEW b, NEW s, Took(m, k, h, b, s)
  PROVE  /\ Keeps(m, k) /\ SameHeaps(m, k) /\ Placed(k) /\ b \in Nat /\ s \in Nat
         /\ b \in DOMAIN k.block /\ k.block[b].heap = h /\ k.block[b].size = s /\ OwnBlock(k, b)
         /\ k.heap[h].scb = m.heap[h].scb /\ h \in DOMAIN k.heap
         /\ k.arena = m.arena /\ k.slab = m.slab
         /\ BlockUse(k, b) = Use(b + 1, s - 1, h) /\ BlockUse(k, b) \notin Uses(m)
         /\ Uses(k) \ {BlockUse(k, b)} = Uses(m) /\ Uses(k) = Uses(m) \cup {BlockUse(k, b)}
<1>1. /\ Keeps(m, k) /\ Step(m, k, h, With(m.block, b, [size |-> s, heap |-> h]))
      /\ b \in Nat /\ b \notin DOMAIN m.block /\ s \in Nat /\ OwnBlock(k, b)
      /\ Uses(k) = Uses(m) \cup {Use(b + 1, s - 1, h)}
  BY DEF Took
<1>2. SameHeaps(m, k) /\ k.heap[h].scb = m.heap[h].scb
  BY <1>1, StepSame, StepFields
<1>3. /\ k.block = With(m.block, b, [size |-> s, heap |-> h]) /\ DOMAIN k.heap = DOMAIN m.heap
      /\ k.arena = m.arena /\ k.slab = m.slab
  BY <1>1 DEF Step
<1>4. b \in DOMAIN k.block /\ k.block[b].heap = h /\ k.block[b].size = s /\ Placed(k)
  BY <1>1, <1>3 DEF With, Keeps
<1>5. BlockUse(k, b) = Use(b + 1, s - 1, h)
  BY <1>4 DEF BlockUse
<1>6. ASSUME BlockUse(k, b) \in Uses(m) PROVE FALSE
  <2>1. BlockUse(k, b) \notin CellUses(k)
    <3>1. \A u \in CellUses(k) : u \in Uses(k) \ {BlockUse(k, b)}
      BY <1>1, <1>4, OwnUse
    <3> QED
      BY <3>1
  <2>2. BlockUse(k, b) \in BlockUses(m)
    BY <1>1, <1>6, <2>1 DEF Keeps, Uses
  <2>3. PICK c \in DOMAIN m.block : BlockUse(k, b) = BlockUse(m, c)
    BY <2>2, BlockUsed
  <2>4. BlockUse(k, b).p - 1 = b /\ BlockUse(m, c).p - 1 = c
    BY <1>4, BlockUseIs
  <2> QED
    BY <1>1, <2>3, <2>4
<1> QED
  BY <1>1, <1>2, <1>3, <1>4, <1>5, <1>6

(* __HeapScbGetOrCreate: a control block, and nothing else that counts.    *)
LEMMA ScbIsQuiet ==
  ASSUME NEW m, Placed(m), NEW h \in DOMAIN m.heap
  PROVE  LET o == ScbGetOrCreate(m, h)
         IN  \/ o.p = Null /\ o.m = m
             \/ o.p # Null /\ Quiet(m, o.m)
<1>1. CASE m.heap[h].scb # Null
  <2>1. ScbGetOrCreate(m, h) = Outcome(m, m.heap[h].scb)
    BY <1>1 DEF ScbGetOrCreate
  <2> QED
    BY <1>1, <2>1, QuietRefl DEF Outcome
<1>2. CASE m.heap[h].scb = Null
  <2> DEFINE o == HeapAllocBlock(m, h, ScbSize)
             z == [o EXCEPT !.m.heap[h].scb = o.p]
  <2>1. ScbGetOrCreate(m, h) = IF o.p = Null THEN o ELSE z
    BY <1>2 DEF ScbGetOrCreate, Then
  <2>2. /\ o = Outcome(o.m, o.p)
        /\ \/ o.p = Null /\ o.m = m
           \/ o.p # Null /\ \E b, s : o.p = b + 1 /\ s >= ScbSize + 1 /\ Took(m, o.m, h, b, s)
    BY Consts, AllocBlock
  <2> HIDE DEF o
  <2>3. CASE o.p = Null
    BY <2>1, <2>2, <2>3
  <2>4. CASE o.p # Null
    <3>1. PICK b, s : o.p = b + 1 /\ s >= ScbSize + 1 /\ Took(m, o.m, h, b, s)
      BY <2>2, <2>4
    <3> DEFINE k == o.m
    <3>2. /\ Keeps(m, k) /\ SameHeaps(m, k) /\ Placed(k) /\ b \in Nat /\ s \in Nat
          /\ b \in DOMAIN k.block /\ k.block[b].heap = h /\ k.block[b].size = s /\ OwnBlock(k, b)
          /\ k.heap[h].scb = m.heap[h].scb /\ h \in DOMAIN k.heap
          /\ Uses(k) \ {BlockUse(k, b)} = Uses(m)
      BY <3>1, TookFacts
    <3>3. z = Outcome([k EXCEPT !.heap[h].scb = b + 1], b + 1)
      BY <2>2, <3>1 DEF Outcome
    <3> HIDE DEF k
    <3>5. s > ScbSize
      BY <3>1, <3>2, Consts
    <3> DEFINE l == [k EXCEPT !.heap[h].scb = b + 1]
    <3>6. Keeps(k, l) /\ SameHeaps(k, l) /\ Uses(l) = Uses(k) \ {BlockUse(k, b)}
      BY <1>2, <3>2, <3>5, ScbMade
    <3>9. Uses(l) = Uses(m)
      BY <3>2, <3>6
    <3> HIDE DEF l
    <3>10. Quiet(m, l)
      BY <3>2, <3>6, <3>9, KeepsTrans, SameTrans DEF Quiet
    <3>11. b + 1 # Null
      BY <3>2 DEF Null
    <3> QED
      BY <2>1, <2>4, <3>3, <3>10, <3>11 DEF Outcome, l
  <2> QED
    BY <2>3, <2>4
<1> QED
  BY <1>1, <1>2
-----------------------------------------------------------------------------
(* A heap's record, the arenas and the slabs replaced.                     *)
Put(m, h, K, A, S) == [m EXCEPT !.heap = [@ EXCEPT ![h] = K], !.arena = A, !.slab = S]

(* Such a replacement keeps the types.                                     *)
LEMMA MemoryPut ==
  ASSUME NEW m, Memory(m), NEW h \in DOMAIN m.heap, NEW K \in HeapRec,
         NEW A, A \in [DOMAIN A -> ArenaRec], DOMAIN A \subseteq Nat,
         NEW S, S \in [DOMAIN S -> SlabRec], DOMAIN S \subseteq Nat, IsFiniteSet(DOMAIN S)
  PROVE  LET k == Put(m, h, K, A, S)
         IN  /\ Memory(k) /\ k.block = m.block /\ k.arena = A /\ k.slab = S
             /\ DOMAIN k.heap = DOMAIN m.heap /\ k.heap[h] = K
             /\ \A j \in DOMAIN m.heap \ {h} : k.heap[j] = m.heap[j]
<1> DEFINE k == Put(m, h, K, A, S)
<1>1. m \in [heap : {m.heap}, block : {m.block}, arena : {m.arena}, slab : {m.slab}]
  BY DEF Memory
<1>2. /\ k.block = m.block /\ k.arena = A /\ k.slab = S /\ k.heap = [m.heap EXCEPT ![h] = K]
      /\ k \in [heap : {k.heap}, block : {k.block}, arena : {k.arena}, slab : {k.slab}]
  BY <1>1 DEF Put
<1> HIDE DEF k
<1>3. /\ m.heap \in [DOMAIN m.heap -> HeapRec] /\ DOMAIN k.heap = DOMAIN m.heap /\ k.heap[h] = K
      /\ \A j \in DOMAIN m.heap \ {h} : k.heap[j] = m.heap[j]
      /\ k.heap \in [DOMAIN k.heap -> HeapRec]
  BY <1>2 DEF Memory
<1>4. Memory(k)
  BY <1>2, <1>3 DEF Memory
<1> QED
  BY <1>2, <1>3, <1>4 DEF k

(* A block becomes an arena without slabs.                                 *)
LEMMA ArenaMade ==
  ASSUME NEW m, Placed(m), NEW h \in DOMAIN m.heap, NEW b \in DOMAIN m.block, OwnBlock(m, b),
         m.block[b].heap = h, NEW n \in Nat, m.block[b].size > (n + 1) * SlabSize
  PROVE  LET k == Formatted(m, h, b + 1, n)
         IN  /\ Placed(k) /\ SameHeaps(m, k) /\ Uses(k) = Uses(m) \ {BlockUse(m, b)}
             /\ CellUses(k) = CellUses(m) /\ \A X : ListsOK(m, X) => ListsOK(k, X)
             /\ k.slab = m.slab /\ k.block = m.block
             /\ DOMAIN k.arena = DOMAIN m.arena \cup {b + 1} /\ b + 1 \notin DOMAIN m.arena
             /\ \A a \in DOMAIN m.arena : k.arena[a] = m.arena[a]
             /\ k.arena[b + 1].slabs = n /\ k.arena[b + 1].use = 0 /\ k.arena[b + 1].map = {}
             /\ \A j \in DOMAIN m.heap : /\ k.heap[j].partial = m.heap[j].partial
                                         /\ k.heap[j].scb = m.heap[j].scb
<1> DEFINE d == b + 1
           r == [base |-> RoundUp(d + 1), slabs |-> n, use |-> 0, map |-> {}]
           A == With(m.arena, d, r)
           list == <<d>> \o m.heap[h].arenas
           K == [m.heap[h] EXCEPT !.arenas = list]
           k == Put(m, h, K, A, m.slab)
<1>0. Memory(m) /\ b \in Nat /\ d \in Nat /\ d - 1 = b /\ d # Null
  BY Types DEF Placed, Null
<1>1. Formatted(m, h, d, n) = k
  BY <1>0 DEF Formatted, Memory, Put
<1>2. d \notin DOMAIN m.heap /\ d \notin DOMAIN m.arena /\ \A j \in DOMAIN m.heap : m.heap[j].scb # d
  BY DEF OwnBlock
<1>3. b + (n + 1) * SlabSize < End(m, b)
  <2> DEFINE x == (n + 1) * SlabSize
  <2>1. x \in Nat
    <3> DEFINE e == n + 1
    <3>1. e \in Nat
      OBVIOUS
    <3> HIDE DEF e
    <3>2. e * SlabSize \in Nat
      BY <3>1, Consts, TimesMono
    <3> QED
      BY <3>2 DEF e
  <2>2. m.block[b].size > x /\ m.block[b].size \in Nat /\ End(m, b) = b + m.block[b].size
    BY Types DEF Placed, End
  <2> HIDE DEF x
  <2>3. b + x < End(m, b)
    BY <1>0, <2>1, <2>2
  <2> QED
    BY <2>3 DEF x
<1>4. End(m, b) \in Nat
  BY Types DEF Placed
<1> HIDE DEF d
<1>5. /\ r \in ArenaRec /\ r.base % SlabSize = 0 /\ d < r.base /\ r.slabs = n /\ r.use = 0 /\ r.map = {}
      /\ r.base + n * SlabSize <= End(m, b)
  <2>1. /\ RoundUp(d + 1) \in Nat /\ RoundUp(d + 1) % SlabSize = 0
        /\ d + 1 <= RoundUp(d + 1) /\ RoundUp(d + 1) <= (d + 1) + SlabSize - 1
    BY <1>0, RoundUpFits
  <2> DEFINE e == RoundUp(d + 1)
             x == n * SlabSize
             y == (n + 1) * SlabSize
  <2>2. x \in Nat /\ y = x + SlabSize /\ SlabSize \in Nat \ {0} /\ d = b + 1
    BY Consts, TimesMono DEF d
  <2>3. b + y < End(m, b) /\ e \in Nat /\ d + 1 <= e /\ e <= (d + 1) + SlabSize - 1
    BY <1>3, <2>1
  <2> HIDE DEF e, x, y
  <2>4. e + x <= End(m, b) /\ d < e
    BY <1>0, <1>4, <2>2, <2>3
  <2>5. r.base = e /\ r.base + n * SlabSize <= End(m, b)
    BY <2>4 DEF e, x
  <2> QED
    BY <1>0, <2>1, <2>4, <2>5 DEF ArenaRec, e
<1> HIDE DEF r
<1>6. /\ DOMAIN A = DOMAIN m.arena \cup {d} /\ A[d] = r /\ \A a \in DOMAIN m.arena : A[a] = m.arena[a]
      /\ A \in [DOMAIN A -> ArenaRec] /\ DOMAIN A \subseteq Nat
  <2>1. m.arena \in [DOMAIN m.arena -> ArenaRec] /\ DOMAIN m.arena \subseteq Nat
    BY <1>0 DEF Memory
  <2>2. DOMAIN A = DOMAIN m.arena \cup {d} /\ A[d] = r /\ \A a \in DOMAIN m.arena : A[a] = m.arena[a]
    BY <1>2 DEF With
  <2>3. A = [x \in DOMAIN A |-> A[x]]
    BY DEF With
  <2> HIDE DEF A
  <2> QED
    BY <1>0, <1>5, <2>1, <2>2, <2>3
<1> HIDE DEF A
<1>7. /\ list \in Seq(Nat) /\ ToSet(list) = {d} \cup ToSet(m.heap[h].arenas)
      /\ ToSet(m.heap[h].arenas) = {a \in DOMAIN m.arena : m.block[a - 1].heap = h}
      /\ Once(list)
  <2>1. m.heap[h].arenas \in Seq(Nat)
    BY <1>0, Types
  <2>2. /\ Once(m.heap[h].arenas)
        /\ ToSet(m.heap[h].arenas) = {a \in DOMAIN m.arena : m.block[a - 1].heap = h}
    BY DEF Placed, ArenasOK
  <2> DEFINE L == m.heap[h].arenas
  <2>3. d \notin ToSet(L)
    BY <1>2, <2>2
  <2> HIDE DEF L
  <2>4. L \in Seq(Nat) /\ Once(L)
    BY <2>1, <2>2 DEF L
  <2>5. <<d>> \o L \in Seq(Nat) /\ ToSet(<<d>> \o L) = {d} \cup ToSet(L) /\ Once(<<d>> \o L)
    BY <1>0, <2>3, <2>4, ConsSet
  <2> QED
    BY <2>2, <2>5 DEF L
<1> HIDE DEF list
<1>8. /\ K \in HeapRec /\ K.scb = m.heap[h].scb /\ K.lo = m.heap[h].lo /\ K.hi = m.heap[h].hi
      /\ K.validate = m.heap[h].validate /\ K.arenas = list /\ K.free = m.heap[h].free
      /\ K.partial = m.heap[h].partial /\ K.full = m.heap[h].full
      /\ K.slabs = m.heap[h].slabs /\ K.cells = m.heap[h].cells
  <2>1. m.heap[h] \in HeapRec
    BY <1>0, Types
  <2> QED
    BY <1>7, <2>1 DEF HeapRec
<1> HIDE DEF K
<1>9. /\ Memory(k) /\ k.block = m.block /\ k.arena = A /\ k.slab = m.slab
      /\ DOMAIN k.heap = DOMAIN m.heap /\ k.heap[h] = K
      /\ \A j \in DOMAIN m.heap \ {h} : k.heap[j] = m.heap[j]
  <2>1. m.slab \in [DOMAIN m.slab -> SlabRec] /\ DOMAIN m.slab \subseteq Nat /\ IsFiniteSet(DOMAIN m.slab)
    BY <1>0 DEF Memory
  <2> QED
    BY <1>0, <1>6, <1>8, <2>1, MemoryPut
<1> HIDE DEF k
<1>10. SamePlaces(m, k) /\ SameHeaps(m, k)
  BY <1>8, <1>9 DEF SameHeaps, SamePlaces
<1>11. BlocksOK(k) /\ HeapsOK(k) /\ \A c : End(k, c) = End(m, c)
  BY <1>9, <1>10, BlocksSame, HeapsSame DEF Placed
<1>12. ArenasOK(k)
  <2>1. ASSUME NEW a \in DOMAIN k.arena
        PROVE  /\ a - 1 \in DOMAIN k.block /\ a \notin DOMAIN k.heap
               /\ \A j \in DOMAIN k.heap : k.heap[j].scb # a
               /\ k.arena[a].base % SlabSize = 0 /\ a < k.arena[a].base
               /\ k.arena[a].base + k.arena[a].slabs * SlabSize <= End(k, a - 1)
               /\ k.arena[a].map \subseteq 0 .. k.arena[a].slabs - 1
               /\ k.arena[a].use = Cardinality(k.arena[a].map)
    <3>0. \A j \in DOMAIN m.heap : k.heap[j].scb = m.heap[j].scb
      BY <1>10 DEF SamePlaces
    <3>1. CASE a = d
      <4>1. k.arena[a] = r
        BY <1>6, <1>9, <3>1
      <4>2. a - 1 \in DOMAIN k.block /\ End(k, a - 1) = End(m, b)
        BY <1>0, <1>9, <1>11, <3>1
      <4>3. Cardinality({}) = 0
        BY FS_EmptySet
      <4> QED
        BY <1>2, <1>5, <1>9, <3>0, <3>1, <4>1, <4>2, <4>3
    <3>2. CASE a # d
      <4>1. a \in DOMAIN m.arena /\ k.arena[a] = m.arena[a]
        BY <1>6, <1>9, <3>2
      <4> QED
        BY <1>9, <1>11, <3>0, <4>1 DEF Placed, ArenasOK
    <3> QED
      BY <3>1, <3>2
  <2>2. ASSUME NEW j \in DOMAIN m.heap
        PROVE  /\ Once(k.heap[j].arenas)
               /\ ToSet(k.heap[j].arenas) = {a \in DOMAIN k.arena : k.block[a - 1].heap = j}
    <3>1. CASE j = h
      <4>1. k.heap[j].arenas = list
        BY <1>8, <1>9, <3>1
      <4>2. k.block[d - 1].heap = j
        BY <1>0, <1>9, <3>1
      <4> QED
        BY <1>6, <1>7, <1>9, <3>1, <4>1, <4>2
    <3>2. CASE j # h
      <4>1. k.heap[j].arenas = m.heap[j].arenas
        BY <1>9, <3>2
      <4>2. k.block[d - 1].heap # j
        BY <1>0, <1>9, <3>2
      <4>3. /\ Once(m.heap[j].arenas)
            /\ ToSet(m.heap[j].arenas) = {a \in DOMAIN m.arena : m.block[a - 1].heap = j}
        BY DEF Placed, ArenasOK
      <4> QED
        BY <1>6, <1>9, <4>1, <4>2, <4>3
    <3> QED
      BY <3>1, <3>2
  <2> QED
    BY <1>9, <2>1, <2>2 DEF ArenasOK
<1>13. SlabsOK(k)
  <2>1. \A a \in DOMAIN m.arena : Tiles(k, a) = Tiles(m, a)
    BY <1>6, <1>9 DEF Tiles, TileAt
  <2>2. Tiles(k, d) = {}
    BY <1>5, <1>6, <1>9 DEF Tiles
  <2>3. ASSUME NEW t \in DOMAIN k.slab
        PROVE  LET s == k.slab[t]
               IN  /\ s.arena \in DOMAIN k.arena /\ t \in Tiles(k, s.arena)
                   /\ s.heap = k.block[s.arena - 1].heap
                   /\ s.total = (SlabSize - SlabHdr) \div CellSz[s.cls]
                   /\ s.free = Len(s.list) /\ Once(s.list) /\ ToSet(s.list) \subseteq 0 .. s.total - 1
    BY <1>6, <1>9, <2>1 DEF Placed, SlabsOK
  <2>4. ASSUME NEW a \in DOMAIN k.arena, NEW t \in Tiles(k, a)
        PROVE  t \in DOMAIN k.slab /\ k.slab[t].arena = a
    <3>1. a \in DOMAIN m.arena
      BY <1>6, <1>9, <2>2, <2>4
    <3> QED
      BY <1>9, <2>1, <3>1 DEF Placed, SlabsOK
  <2> QED
    BY <2>3, <2>4 DEF SlabsOK
<1>14. Placed(k)
  BY <1>9, <1>11, <1>12, <1>13 DEF Placed
<1>15. \A X : ListsOK(m, X) => ListsOK(k, X)
  <2>1. \A j \in DOMAIN m.heap : /\ k.heap[j].partial = m.heap[j].partial
                                 /\ k.heap[j].full = m.heap[j].full
                                 /\ k.heap[j].slabs = m.heap[j].slabs
                                 /\ k.heap[j].cells = m.heap[j].cells
    BY <1>8, <1>9
  <2> QED
    BY <1>9, <2>1, ListsSame
<1>16. CellUses(k) = CellUses(m)
  BY <1>9, SlabsOnly
<1>17. \A u : u \in Uses(k) <=> u \in Uses(m) \ {BlockUse(m, b)}
  <2>1. \A c : BlockUse(k, c) = BlockUse(m, c)
    BY <1>9 DEF BlockUse
  <2>2. \A u : u \in Uses(k) <=> u \in CellUses(m) \/ \E c \in DOMAIN m.block : OwnBlock(k, c) /\ u = BlockUse(m, c)
    BY <1>9, <1>16, <2>1, BlockUsed DEF Uses
  <2>3. \A u : u \in Uses(m) \ {BlockUse(m, b)} <=>
              \/ u \in CellUses(m)
              \/ \E c \in DOMAIN m.block \ {b} : OwnBlock(m, c) /\ u = BlockUse(m, c)
    BY OwnUse
  <2>4. ASSUME NEW c \in DOMAIN m.block
        PROVE  OwnBlock(k, c) <=> OwnBlock(m, c) /\ c # b
    <3>1. c \in Nat /\ (c + 1 = d <=> c = b)
      BY <1>0, Types DEF d
    <3>2. \A j \in DOMAIN m.heap : k.heap[j].scb = m.heap[j].scb
      BY <1>10 DEF SamePlaces
    <3> DEFINE e == c + 1
    <3> HIDE DEF e
    <3>3. OwnBlock(k, c) <=> /\ e \notin DOMAIN m.heap /\ e \notin DOMAIN m.arena /\ e # d
                             /\ \A j \in DOMAIN m.heap : m.heap[j].scb # e
      BY <1>6, <1>9, <3>2 DEF OwnBlock, e
    <3>4. OwnBlock(m, c) <=> /\ e \notin DOMAIN m.heap /\ e \notin DOMAIN m.arena
                             /\ \A j \in DOMAIN m.heap : m.heap[j].scb # e
      BY DEF OwnBlock, e
    <3>5. e # d <=> c # b
      BY <3>1 DEF e
    <3> QED
      BY <3>3, <3>4, <3>5
  <2> QED
    BY <2>2, <2>3, <2>4
<1>18. \A j \in DOMAIN m.heap : /\ k.heap[j].partial = m.heap[j].partial
                                /\ k.heap[j].scb = m.heap[j].scb
  BY <1>8, <1>9
<1>19. k.arena[d].slabs = n /\ k.arena[d].use = 0 /\ k.arena[d].map = {}
  BY <1>5, <1>6, <1>9
<1>20. Formatted(m, h, b + 1, n) = k
  BY <1>1 DEF d
<1>21. /\ DOMAIN k.arena = DOMAIN m.arena \cup {d} /\ \A a \in DOMAIN m.arena : k.arena[a] = m.arena[a]
       /\ d = b + 1
  BY <1>6, <1>9 DEF d
<1>22. Uses(k) = Uses(m) \ {BlockUse(m, b)}
  BY <1>17
<1> QED
  BY <1>2, <1>9, <1>10, <1>14, <1>15, <1>16, <1>18, <1>19, <1>20, <1>21, <1>22

(* __HeapArenaCreate: an arena without slabs, or no change.                *)
FreshArena(m, k, h, a) ==
  /\ Placed(k) /\ SameHeaps(m, k) /\ Uses(k) = Uses(m) /\ CellUses(k) = CellUses(m)
  /\ \A X : ListsOK(m, X) => ListsOK(k, X)
  /\ k.slab = m.slab
  /\ DOMAIN k.arena = DOMAIN m.arena \cup {a} /\ a \notin DOMAIN m.arena
  /\ \A x \in DOMAIN m.arena : k.arena[x] = m.arena[x]
  /\ k.block[a - 1].heap = h /\ k.arena[a].use < k.arena[a].slabs
  /\ \A j \in DOMAIN m.heap : k.heap[j].partial = m.heap[j].partial

(* __HeapArenaCreate makes an arena of a block, or changes nothing.        *)
LEMMA ArenaCreated ==
  ASSUME NEW m, Placed(m), NEW h \in DOMAIN m.heap, NEW n \in Nat \ {0}
  PROVE  LET o == ArenaCreate(m, h, n)
         IN  \/ o.p = Null /\ o.m = m
             \/ o.p # Null /\ FreshArena(m, o.m, h, o.p)
<1> DEFINE Fits(x) == \E g \in Gaps(m, h) : g.len > (x + 1) * SlabSize
           j == IF Fits(n) THEN n ELSE 1
           o == HeapAllocBlock(m, h, (j + 1) * SlabSize)
<1>1. ArenaCreate(m, h, n) = IF o.p = Null THEN o ELSE Outcome(Formatted(o.m, h, o.p, j), o.p)
  BY DEF ArenaCreate, Then
<1>2. j \in Nat \ {0}
  OBVIOUS
<1> HIDE DEF j
<1> DEFINE x == (j + 1) * SlabSize
<1>3. x \in Nat \ {0}
  <2> DEFINE e == j + 1
  <2>1. e \in Nat \ {0} /\ x = e * SlabSize
    BY <1>2
  <2> HIDE DEF e, x
  <2>2. e * SlabSize \in Nat /\ (0 < e <=> 0 * SlabSize + SlabSize <= e * SlabSize) /\ 0 * SlabSize = 0
    BY <2>1, Consts, TimesMono
  <2> QED
    BY <2>1, <2>2, Consts
<1>4. o = HeapAllocBlock(m, h, x)
  OBVIOUS
<1> HIDE DEF x, o
<1>5. /\ o = Outcome(o.m, o.p)
      /\ \/ o.p = Null /\ o.m = m
         \/ o.p # Null /\ \E b, s : o.p = b + 1 /\ s >= x + 1 /\ Took(m, o.m, h, b, s)
  BY <1>3, <1>4, AllocBlock
<1>6. CASE o.p = Null
  BY <1>1, <1>5, <1>6
<1>7. CASE o.p # Null
  <2>1. PICK b, s : o.p = b + 1 /\ s >= x + 1 /\ Took(m, o.m, h, b, s)
    BY <1>5, <1>7
  <2> DEFINE k == o.m
             l == Formatted(k, h, b + 1, j)
  <2>2. /\ Keeps(m, k) /\ SameHeaps(m, k) /\ Placed(k) /\ b \in Nat /\ s \in Nat
        /\ b \in DOMAIN k.block /\ k.block[b].heap = h /\ k.block[b].size = s /\ OwnBlock(k, b)
        /\ h \in DOMAIN k.heap /\ k.arena = m.arena /\ k.slab = m.slab
        /\ Uses(k) \ {BlockUse(k, b)} = Uses(m)
    BY <2>1, TookFacts
  <2>3. \A i \in DOMAIN m.heap : k.heap[i].partial = m.heap[i].partial /\ i \in DOMAIN k.heap
    <3>1. Step(m, k, h, With(m.block, b, [size |-> s, heap |-> h]))
      BY <2>1 DEF Took
    <3> HIDE DEF k
    <3> QED
      BY <3>1, StepFields DEF Step
  <2>4. ArenaCreate(m, h, n).m = l /\ ArenaCreate(m, h, n).p = b + 1
    BY <1>1, <1>7, <2>1 DEF Outcome
  <2> HIDE DEF k
  <2>5. k.block[b].size > (j + 1) * SlabSize
    BY <1>3, <2>1, <2>2 DEF x
  <2>6. /\ Placed(l) /\ SameHeaps(k, l) /\ Uses(l) = Uses(k) \ {BlockUse(k, b)}
        /\ CellUses(l) = CellUses(k) /\ \A X : ListsOK(k, X) => ListsOK(l, X)
        /\ l.slab = k.slab /\ l.block = k.block
        /\ DOMAIN l.arena = DOMAIN k.arena \cup {b + 1} /\ b + 1 \notin DOMAIN k.arena
        /\ \A a \in DOMAIN k.arena : l.arena[a] = k.arena[a]
        /\ l.arena[b + 1].slabs = j /\ l.arena[b + 1].use = 0
        /\ \A i \in DOMAIN k.heap : l.heap[i].partial = k.heap[i].partial
    BY <1>2, <2>2, <2>5, ArenaMade
  <2> HIDE DEF l
  <2>7. SameHeaps(m, l) /\ CellUses(l) = CellUses(m) /\ Uses(l) = Uses(m)
    BY <2>2, <2>6, SameTrans DEF Keeps
  <2>8. \A X : ListsOK(m, X) => ListsOK(l, X)
    BY <2>2, <2>6 DEF Keeps
  <2>9. (b + 1) - 1 = b /\ b + 1 # Null /\ 0 < j
    BY <1>2, <2>2 DEF Null
  <2>10. \A i \in DOMAIN m.heap : l.heap[i].partial = m.heap[i].partial
    BY <2>3, <2>6
  <2>11. FreshArena(m, l, h, b + 1)
    BY <2>2, <2>6, <2>7, <2>8, <2>9, <2>10 DEF FreshArena
  <2> QED
    BY <2>4, <2>9, <2>11
<1> QED
  BY <1>6, <1>7

(* The free list of a new slab.                                            *)
LEMMA AllCells ==
  ASSUME NEW n \in Nat
  PROVE  LET list == [k \in 1 .. n |-> k - 1]
         IN  list \in Seq(Nat) /\ Len(list) = n /\ Once(list) /\ ToSet(list) = 0 .. n - 1
<1> DEFINE list == [k \in 1 .. n |-> k - 1]
<1>1. list \in Seq(Nat) /\ Len(list) = n /\ DOMAIN list = 1 .. n
  OBVIOUS
<1>2. Once(list)
  BY <1>1 DEF Once
<1>3. ToSet(list) = 0 .. n - 1
  <2>1. \A x : x \in ToSet(list) <=> \E k \in 1 .. n : x = k - 1
    BY <1>1 DEF ToSet
  <2>2. \A x \in 0 .. n - 1 : x + 1 \in 1 .. n /\ x = (x + 1) - 1
    OBVIOUS
  <2>3. \A k \in 1 .. n : k - 1 \in 0 .. n - 1
    OBVIOUS
  <2> HIDE DEF list
  <2>4. ToSet(list) \subseteq 0 .. n - 1
    BY <2>1, <2>3
  <2>5. 0 .. n - 1 \subseteq ToSet(list)
    BY <2>1, <2>2
  <2> QED
    BY <2>4, <2>5
<1> QED
  BY <1>1, <1>2, <1>3

(* A tile that its arena's map does not have is no slab.                   *)
LEMMA FreeTile ==
  ASSUME NEW m, Placed(m), NEW a \in DOMAIN m.arena,
         NEW i \in 0 .. m.arena[a].slabs - 1, i \notin m.arena[a].map
  PROVE  TileAt(m, a, i) \notin DOMAIN m.slab
<1> DEFINE t == TileAt(m, a, i)
<1> SUFFICES ASSUME t \in DOMAIN m.slab PROVE FALSE
  OBVIOUS
<1>1. /\ t \in Nat /\ a < t /\ t + SlabSize <= End(m, a - 1) /\ (t - m.arena[a].base) \div SlabSize = i
  BY TilePlace
<1> HIDE DEF t
<1> DEFINE e == m.slab[t].arena
<1>2. /\ e \in DOMAIN m.arena /\ e - 1 \in DOMAIN m.block /\ e < t /\ t + SlabSize <= End(m, e - 1)
      /\ (t - m.arena[e].base) \div SlabSize \in m.arena[e].map
  BY SlabPlace
<1> HIDE DEF e
<1>3. CASE e = a
  BY <1>1, <1>2, <1>3
<1>4. CASE e # a
  <2> DEFINE b == a - 1
             c == e - 1
  <2>1. /\ b \in DOMAIN m.block /\ c \in DOMAIN m.block /\ a \in Nat /\ e \in Nat
        /\ a \notin DOMAIN m.heap /\ e \notin DOMAIN m.heap /\ a = b + 1 /\ e = c + 1
    BY <1>2, Types DEF Placed, ArenasOK
  <2>2. b # c /\ b < t /\ c < t /\ t < End(m, b) /\ t < End(m, c)
    <3>1. /\ SlabSize \in Nat \ {0} /\ End(m, b) \in Nat /\ End(m, c) \in Nat
          /\ b \in Nat /\ c \in Nat
      BY <2>1, Consts, Types DEF Placed
    <3>2. t + SlabSize <= End(m, b) /\ t + SlabSize <= End(m, c) /\ a < t /\ e < t
      BY <1>1, <1>2
    <3> HIDE DEF b, c
    <3> QED
      BY <1>1, <1>4, <2>1, <3>1, <3>2
  <2> HIDE DEF b, c
  <2>3. End(m, b) \in Nat /\ End(m, c) \in Nat /\ b \in Nat /\ c \in Nat /\ m.block[c].heap \in DOMAIN m.heap
    BY <2>1, Types DEF Placed, BlocksOK
  <2>4. End(m, b) <= c \/ End(m, c) <= b \/ Inside(m, b, c)
    BY <2>1, <2>2, PlainBlock
  <2>5. ~ Inside(m, b, c)
    BY <2>1, <2>3 DEF Inside
  <2> QED
    BY <1>1, <2>2, <2>3, <2>4, <2>5
<1> QED
  BY <1>3, <1>4

(* A tile of the arena a becomes a slab of class c, without a live cell    *)
(* and on no list yet.                                                     *)
NewSlab(m, k, h, c, t) ==
  /\ Placed(k) /\ SameHeaps(m, k) /\ Uses(k) = Uses(m) /\ CellUses(k) = CellUses(m)
  /\ t # Null /\ t \notin DOMAIN m.slab /\ DOMAIN k.slab = DOMAIN m.slab \cup {t}
  /\ k.slab[t].heap = h /\ k.slab[t].cls = c /\ k.slab[t].free # 0
  /\ \A s \in DOMAIN m.slab : k.slab[s] = m.slab[s]
  /\ k.heap[h].partial = m.heap[h].partial
  /\ ListsOK(k, {t})

(* __HeapSlabCreate on an arena with a tile left.                          *)
LEMMA TileClaimed ==
  ASSUME NEW m, Placed(m), ListsOK(m, {}), NEW h \in DOMAIN m.heap, NEW c \in Classes,
         NEW a \in DOMAIN m.arena, m.block[a - 1].heap = h, m.arena[a].use < m.arena[a].slabs
  PROVE  LET o == ClaimTile(m, h, c, a)
         IN  /\ NewSlab(m, o.m, h, c, o.p)
             /\ DOMAIN o.m.arena = DOMAIN m.arena /\ o.m.arena[a].map # {}
             /\ \A x \in DOMAIN m.arena \ {a} : o.m.arena[x] = m.arena[x]
<1> DEFINE r == m.arena[a]
           free == (0 .. r.slabs - 1) \ r.map
           i == Min(free)
           t == TileAt(m, a, i)
           total == Total(c)
           list == [k \in 1 .. total |-> k - 1]
           rec == [heap |-> h, cls |-> c, total |-> total, free |-> total, list |-> list, arena |-> a]
           K == [m.heap[h] EXCEPT !.slabs = @ + 1]
           q == [r EXCEPT !.map = @ \cup {i}, !.use = @ + 1]
           A == [m.arena EXCEPT ![a] = q]
           S == With(m.slab, t, rec)
           k == Put(m, h, K, A, S)
<1>0. Memory(m)
  BY DEF Placed
<1>1. ClaimTile(m, h, c, a) = Outcome(k, t)
  <2>1. m \in [heap : {m.heap}, block : {m.block}, arena : {m.arena}, slab : {m.slab}]
    BY <1>0 DEF Memory
  <2>2. ClaimTile(m, h, c, a)
          = Outcome([m EXCEPT !.arena[a].map = @ \cup {i}, !.arena[a].use = @ + 1,
                              !.heap[h].slabs = @ + 1, !.slab = With(@, t, rec)], t)
    BY Zenon DEF ClaimTile, Total
  <2>3. k = [m EXCEPT !.heap = [@ EXCEPT ![h] = K], !.arena = A, !.slab = S]
    BY Zenon DEF Put
  <2> HIDE DEF t, rec, i
  <2>4. [m EXCEPT !.arena[a].map = @ \cup {i}, !.arena[a].use = @ + 1,
                  !.heap[h].slabs = @ + 1, !.slab = With(@, t, rec)]
          = [m EXCEPT !.heap = [@ EXCEPT ![h] = K], !.arena = A, !.slab = S]
    BY <2>1
  <2> HIDE DEF k, K, A, S
  <2> QED
    BY <2>2, <2>3, <2>4, Zenon
<1>2. /\ a \in Nat /\ r \in ArenaRec /\ r.slabs \in Nat /\ r.use \in Nat /\ r.base \in Nat
      /\ r.map \subseteq 0 .. r.slabs - 1 /\ r.use = Cardinality(r.map) /\ r.use < r.slabs
      /\ a - 1 \in DOMAIN m.block
  BY <1>0, Types DEF Placed, ArenasOK
<1> HIDE DEF r
<1>3. i \in 0 .. r.slabs - 1 /\ i \notin r.map
  <2>1. free # {}
    <3> SUFFICES ASSUME free = {} PROVE FALSE
      OBVIOUS
    <3>1. r.map = 0 .. r.slabs - 1
      BY <1>2
    <3>2. Cardinality(0 .. r.slabs - 1) = r.slabs
      <4>1. 0 \in Int /\ r.slabs - 1 \in Int
        BY <1>2
      <4>2. Cardinality(0 .. r.slabs - 1) = IF 0 > r.slabs - 1 THEN 0 ELSE r.slabs - 1 - 0 + 1
        BY <4>1, FS_Interval
      <4> QED
        BY <1>2, <4>2
    <3> QED
      BY <1>2, <3>1, <3>2
  <2>2. free \in SUBSET Nat
    OBVIOUS
  <2> HIDE DEF free
  <2>3. Min(free) \in free
    BY <2>1, <2>2, MinNat
  <2> QED
    BY <2>3 DEF free
<1> HIDE DEF i
<1>4. /\ t \in Nat /\ t % SlabSize = 0 /\ a < t /\ t \notin DOMAIN m.slab
  BY <1>3, TilePlace, FreeTile DEF r
<1>5. total \in Nat \ {0} /\ total = (SlabSize - SlabHdr) \div CellSz[c]
  BY CellFits DEF Total
<1>t. t = TileAt(m, a, i)
  OBVIOUS
<1> HIDE DEF t, total
<1>6. list \in Seq(Nat) /\ Len(list) = total /\ Once(list) /\ ToSet(list) = 0 .. total - 1
  BY <1>5, AllCells
<1> HIDE DEF list
<1>7. /\ rec \in SlabRec /\ rec.heap = h /\ rec.cls = c /\ rec.total = total /\ rec.free = total
      /\ rec.list = list /\ rec.arena = a
  <2>1. h \in Nat
    BY <1>0, Types
  <2> QED
    BY <1>2, <1>5, <1>6, <2>1 DEF SlabRec
<1> HIDE DEF rec
<1>8. /\ K \in HeapRec /\ K.scb = m.heap[h].scb /\ K.lo = m.heap[h].lo /\ K.hi = m.heap[h].hi
      /\ K.validate = m.heap[h].validate /\ K.arenas = m.heap[h].arenas /\ K.free = m.heap[h].free
      /\ K.partial = m.heap[h].partial /\ K.full = m.heap[h].full
      /\ K.slabs = m.heap[h].slabs + 1 /\ K.cells = m.heap[h].cells
  <2>1. m.heap[h] \in HeapRec /\ m.heap[h].slabs + 1 \in Nat
    BY <1>0, Types
  <2> DEFINE x == m.heap[h].slabs + 1
             L == [m.heap[h] EXCEPT !.slabs = x]
  <2> HIDE DEF x
  <2>2. /\ L \in HeapRec /\ L.scb = m.heap[h].scb /\ L.lo = m.heap[h].lo /\ L.hi = m.heap[h].hi
        /\ L.validate = m.heap[h].validate /\ L.arenas = m.heap[h].arenas /\ L.free = m.heap[h].free
        /\ L.partial = m.heap[h].partial /\ L.full = m.heap[h].full
        /\ L.slabs = x /\ L.cells = m.heap[h].cells
    BY <2>1 DEF HeapRec, x
  <2> QED
    BY <2>2 DEF x
<1> HIDE DEF K
<1>9. /\ q \in ArenaRec /\ q.base = r.base /\ q.slabs = r.slabs /\ q.map = r.map \cup {i}
      /\ q.use = r.use + 1
  <2> DEFINE x == r.map \cup {i}
             y == r.use + 1
             z == [r EXCEPT !.map = x, !.use = y]
  <2>1. x \in SUBSET Nat /\ y \in Nat
    BY <1>2, <1>3
  <2> HIDE DEF x, y
  <2>2. z \in ArenaRec /\ z.base = r.base /\ z.slabs = r.slabs /\ z.map = x /\ z.use = y
    BY <1>2, <2>1 DEF ArenaRec
  <2> QED
    BY <2>2 DEF x, y
<1> HIDE DEF q
<1>10. /\ A \in [DOMAIN A -> ArenaRec] /\ DOMAIN A = DOMAIN m.arena /\ DOMAIN A \subseteq Nat /\ A[a] = q
       /\ \A x \in DOMAIN m.arena \ {a} : A[x] = m.arena[x]
  <2>1. m.arena \in [DOMAIN m.arena -> ArenaRec] /\ DOMAIN m.arena \subseteq Nat
    BY <1>0 DEF Memory
  <2> QED
    BY <1>9, <2>1
<1> HIDE DEF A
<1>11. /\ S \in [DOMAIN S -> SlabRec] /\ DOMAIN S = DOMAIN m.slab \cup {t} /\ DOMAIN S \subseteq Nat
       /\ IsFiniteSet(DOMAIN S) /\ S[t] = rec /\ \A s \in DOMAIN m.slab : S[s] = m.slab[s]
  <2>1. m.slab \in [DOMAIN m.slab -> SlabRec] /\ DOMAIN m.slab \subseteq Nat /\ IsFiniteSet(DOMAIN m.slab)
    BY <1>0 DEF Memory
  <2>2. DOMAIN S = DOMAIN m.slab \cup {t} /\ S[t] = rec /\ \A s \in DOMAIN m.slab : S[s] = m.slab[s]
    BY <1>4 DEF With
  <2>3. S = [x \in DOMAIN S |-> S[x]]
    BY DEF With
  <2> HIDE DEF S
  <2>4. IsFiniteSet(DOMAIN S)
    BY <2>1, <2>2, FS_AddElement
  <2> QED
    BY <1>4, <1>7, <2>1, <2>2, <2>3, <2>4
<1> HIDE DEF S
<1>12. /\ Memory(k) /\ k.block = m.block /\ k.arena = A /\ k.slab = S
       /\ DOMAIN k.heap = DOMAIN m.heap /\ k.heap[h] = K
       /\ \A j \in DOMAIN m.heap \ {h} : k.heap[j] = m.heap[j]
  BY <1>0, <1>8, <1>10, <1>11, MemoryPut
<1> HIDE DEF k
<1>13. SamePlaces(m, k) /\ SameHeaps(m, k)
  BY <1>8, <1>12 DEF SameHeaps, SamePlaces
<1>14. BlocksOK(k) /\ HeapsOK(k) /\ \A b : End(k, b) = End(m, b)
  BY <1>12, <1>13, BlocksSame, HeapsSame DEF Placed
<1>15. ArenasOK(k)
  <2>1. ASSUME NEW x \in DOMAIN k.arena
        PROVE  /\ x - 1 \in DOMAIN k.block /\ x \notin DOMAIN k.heap
               /\ \A j \in DOMAIN k.heap : k.heap[j].scb # x
               /\ k.arena[x].base % SlabSize = 0 /\ x < k.arena[x].base
               /\ k.arena[x].base + k.arena[x].slabs * SlabSize <= End(k, x - 1)
               /\ k.arena[x].map \subseteq 0 .. k.arena[x].slabs - 1
               /\ k.arena[x].use = Cardinality(k.arena[x].map)
    <3>0. \A j \in DOMAIN m.heap : k.heap[j].scb = m.heap[j].scb
      BY <1>13 DEF SamePlaces
    <3>1. CASE x = a
      <4>1. k.arena[x] = q
        BY <1>10, <1>12, <3>1
      <4>2. q.map \subseteq 0 .. q.slabs - 1
        BY <1>2, <1>3, <1>9
      <4>3. q.use = Cardinality(q.map)
        <5>1. IsFiniteSet(r.map)
          BY <1>2, NatInterval
        <5>2. Cardinality(r.map \cup {i}) = Cardinality(r.map) + 1
          BY <1>3, <5>1, FS_AddElement
        <5> QED
          BY <1>2, <1>9, <5>2, Zenon
      <4>4. /\ r.base % SlabSize = 0 /\ a < r.base /\ r.base + r.slabs * SlabSize <= End(m, a - 1)
            /\ a \notin DOMAIN m.heap /\ \A j \in DOMAIN m.heap : m.heap[j].scb # a
        BY DEF Placed, ArenasOK, r
      <4> QED
        BY <1>2, <1>9, <1>12, <1>14, <3>0, <3>1, <4>1, <4>2, <4>3, <4>4
    <3>2. CASE x # a
      <4>1. x \in DOMAIN m.arena /\ k.arena[x] = m.arena[x]
        BY <1>10, <1>12, <3>2
      <4> QED
        BY <1>12, <1>14, <3>0, <4>1 DEF Placed, ArenasOK
    <3> QED
      BY <3>1, <3>2
  <2>2. ASSUME NEW j \in DOMAIN m.heap
        PROVE  /\ Once(k.heap[j].arenas)
               /\ ToSet(k.heap[j].arenas) = {x \in DOMAIN k.arena : k.block[x - 1].heap = j}
    <3>1. k.heap[j].arenas = m.heap[j].arenas
      BY <1>8, <1>12
    <3>2. /\ Once(m.heap[j].arenas)
          /\ ToSet(m.heap[j].arenas) = {x \in DOMAIN m.arena : m.block[x - 1].heap = j}
      BY DEF Placed, ArenasOK
    <3> QED
      BY <1>10, <1>12, <3>1, <3>2
  <2> QED
    BY <1>12, <2>1, <2>2 DEF ArenasOK
<1>16. SlabsOK(k)
  <2>1. \A x \in DOMAIN m.arena \ {a} : Tiles(k, x) = Tiles(m, x)
    BY <1>10, <1>12 DEF Tiles, TileAt
  <2>2. \A j : TileAt(k, a, j) = TileAt(m, a, j)
    BY <1>9, <1>10, <1>12 DEF TileAt, r
  <2>3. Tiles(k, a) = Tiles(m, a) \cup {t}
    <3>1. k.arena[a].map = m.arena[a].map \cup {i}
      BY <1>9, <1>10, <1>12 DEF r
    <3>2. \A x : x \in Tiles(k, a) <=> \E j \in m.arena[a].map \cup {i} : x = TileAt(m, a, j)
      BY <2>2, <3>1 DEF Tiles
    <3>3. \A x : x \in Tiles(m, a) <=> \E j \in m.arena[a].map : x = TileAt(m, a, j)
      BY DEF Tiles
    <3> QED
      BY <1>t, <3>2, <3>3
  <2>4. ASSUME NEW s \in DOMAIN k.slab
        PROVE  LET z == k.slab[s]
               IN  /\ z.arena \in DOMAIN k.arena /\ s \in Tiles(k, z.arena)
                   /\ z.heap = k.block[z.arena - 1].heap
                   /\ z.total = (SlabSize - SlabHdr) \div CellSz[z.cls]
                   /\ z.free = Len(z.list) /\ Once(z.list) /\ ToSet(z.list) \subseteq 0 .. z.total - 1
    <3>1. CASE s = t
      <4>1. k.slab[s] = rec
        BY <1>11, <1>12, <3>1
      <4> QED
        BY <1>5, <1>6, <1>7, <1>10, <1>12, <2>3, <3>1, <4>1
    <3>2. CASE s # t
      <4>1. s \in DOMAIN m.slab /\ k.slab[s] = m.slab[s]
        BY <1>11, <1>12, <3>2
      <4>2. LET z == m.slab[s]
            IN  /\ z.arena \in DOMAIN m.arena /\ s \in Tiles(m, z.arena)
                /\ z.heap = m.block[z.arena - 1].heap
                /\ z.total = (SlabSize - SlabHdr) \div CellSz[z.cls]
                /\ z.free = Len(z.list) /\ Once(z.list) /\ ToSet(z.list) \subseteq 0 .. z.total - 1
        BY <4>1 DEF Placed, SlabsOK
      <4>3. m.slab[s].arena \in DOMAIN k.arena /\ s \in Tiles(k, m.slab[s].arena)
        BY <1>10, <1>12, <2>1, <2>3, <4>2
      <4> QED
        BY <1>12, <4>1, <4>2, <4>3
    <3> QED
      BY <3>1, <3>2
  <2>5. ASSUME NEW x \in DOMAIN k.arena, NEW s \in Tiles(k, x)
        PROVE  s \in DOMAIN k.slab /\ k.slab[s].arena = x
    <3>1. CASE s = t /\ x = a
      BY <1>7, <1>11, <1>12, <3>1
    <3>2. CASE ~ (s = t /\ x = a)
      <4>1. x \in DOMAIN m.arena /\ s \in Tiles(m, x)
        BY <1>10, <1>12, <2>1, <2>3, <2>5, <3>2
      <4>2. s \in DOMAIN m.slab /\ m.slab[s].arena = x
        BY <4>1 DEF Placed, SlabsOK
      <4> QED
        BY <1>11, <1>12, <4>2
    <3> QED
      BY <3>1, <3>2
  <2> QED
    BY <2>4, <2>5 DEF SlabsOK
<1>17. Placed(k)
  BY <1>12, <1>14, <1>15, <1>16 DEF Placed
<1>18. /\ \A s \in DOMAIN m.slab : s # t /\ k.slab[s] = m.slab[s]
       /\ DOMAIN k.slab = DOMAIN m.slab \cup {t} /\ k.slab[t] = rec
  BY <1>4, <1>11, <1>12
<1>19. CellUses(k) = CellUses(m)
  <2>1. \A s \in DOMAIN m.slab : LiveIn(k, s) = LiveIn(m, s) /\ \A j : CellUse(k, s, j) = CellUse(m, s, j)
    BY <1>18 DEF LiveIn, CellUse, CellAt
  <2>2. LiveIn(k, t) = {}
    BY <1>6, <1>7, <1>18 DEF LiveIn
  <2>3. \A u : u \in CellUses(k) <=> u \in CellUses(m)
    BY <1>18, <2>1, <2>2, CellUsed
  <2> QED
    BY <2>3
<1>20. Uses(k) = Uses(m)
  <2>1. BlockUses(k) = BlockUses(m)
    BY <1>10, <1>12, <1>13, OwnSame
  <2> QED
    BY <1>19, <2>1 DEF Uses
<1>21. ListsOK(k, {t})
  <2> SUFFICES ASSUME NEW j \in DOMAIN m.heap
               PROVE  /\ \A e \in Classes :
                           /\ Once(k.heap[j].partial[e]) /\ ToSet(k.heap[j].partial[e]) = Roomy(k, j, e) \ {t}
                           /\ Once(k.heap[j].full[e]) /\ ToSet(k.heap[j].full[e]) = Full(k, j, e) \ {t}
                      /\ k.heap[j].slabs = Cardinality(SlabsOf(k, j))
                      /\ k.heap[j].cells = Cardinality({u \in CellUses(k) : u.heap = j})
    BY <1>12 DEF ListsOK
  <2>1. /\ \A e \in Classes :
             /\ Once(m.heap[j].partial[e]) /\ ToSet(m.heap[j].partial[e]) = Roomy(m, j, e)
             /\ Once(m.heap[j].full[e]) /\ ToSet(m.heap[j].full[e]) = Full(m, j, e)
        /\ m.heap[j].slabs = Cardinality(SlabsOf(m, j))
        /\ m.heap[j].cells = Cardinality({u \in CellUses(m) : u.heap = j})
    BY DEF ListsOK
  <2>2. /\ k.heap[j].partial = m.heap[j].partial /\ k.heap[j].full = m.heap[j].full
        /\ k.heap[j].cells = m.heap[j].cells
        /\ k.heap[j].slabs = IF j = h THEN m.heap[j].slabs + 1 ELSE m.heap[j].slabs
    BY <1>8, <1>12
  <2>3. SlabsOf(k, j) = IF j = h THEN SlabsOf(m, j) \cup {t} ELSE SlabsOf(m, j)
    BY <1>7, <1>18 DEF SlabsOf
  <2>4. \A e : Roomy(k, j, e) \ {t} = Roomy(m, j, e) /\ Full(k, j, e) \ {t} = Full(m, j, e)
    BY <1>18 DEF Roomy, Full, SlabsOf
  <2>5. k.heap[j].slabs = Cardinality(SlabsOf(k, j))
    <3>1. CASE j = h
      <4>1. IsFiniteSet(SlabsOf(m, j)) /\ t \notin SlabsOf(m, j)
        <5>1. SlabsOf(m, j) \subseteq DOMAIN m.slab /\ IsFiniteSet(DOMAIN m.slab)
          BY <1>0 DEF SlabsOf, Memory
        <5> QED
          BY <1>4, <5>1, FS_Subset
      <4>2. Cardinality(SlabsOf(m, j) \cup {t}) = Cardinality(SlabsOf(m, j)) + 1
        BY <4>1, FS_AddElement
      <4> QED
        BY <2>1, <2>2, <2>3, <3>1, <4>2
    <3>2. CASE j # h
      BY <2>1, <2>2, <2>3, <3>2
    <3> QED
      BY <3>1, <3>2
  <2> QED
    BY <1>19, <2>1, <2>2, <2>4, <2>5
<1>22. /\ ClaimTile(m, h, c, a).m = k /\ ClaimTile(m, h, c, a).p = t
  BY <1>1 DEF Outcome
<1>23. t # Null
  BY <1>2, <1>4 DEF Null
<1>24. NewSlab(m, k, h, c, t)
  BY <1>4, <1>5, <1>7, <1>8, <1>12, <1>13, <1>17, <1>18, <1>19, <1>20, <1>21, <1>23 DEF NewSlab
<1>25. DOMAIN k.arena = DOMAIN m.arena /\ k.arena[a].map # {} /\ \A x \in DOMAIN m.arena \ {a} : k.arena[x] = m.arena[x]
  BY <1>9, <1>10, <1>12
<1> QED
  BY <1>22, <1>24, <1>25
-----------------------------------------------------------------------------
(* The live cells of a memory are finitely many.                           *)
LEMMA CellsFinite ==
  ASSUME NEW m, Placed(m)
  PROVE  /\ IsFiniteSet(CellUses(m))
         /\ \A h : IsFiniteSet({u \in CellUses(m) : u.heap = h})
<1> DEFINE Cells(t) == {CellUse(m, t, i) : i \in LiveIn(m, t)}
           f == [t \in DOMAIN m.slab |-> Cells(t)]
           F == {Cells(t) : t \in DOMAIN m.slab}
<1>1. ASSUME NEW t \in DOMAIN m.slab PROVE IsFiniteSet(Cells(t))
  <2> DEFINE g == [i \in LiveIn(m, t) |-> CellUse(m, t, i)]
  <2>1. IsFiniteSet(LiveIn(m, t))
    <3>1. m.slab[t].total \in Nat
      BY Types DEF Placed
    <3>2. LiveIn(m, t) \subseteq 0 .. m.slab[t].total - 1
      BY DEF LiveIn
    <3> QED
      BY <3>1, <3>2, NatInterval
  <2>2. g \in Surjection(LiveIn(m, t), Cells(t))
    <3>1. g \in [LiveIn(m, t) -> Cells(t)] /\ \A u \in Cells(t) : \E i \in LiveIn(m, t) : g[i] = u
      OBVIOUS
    <3> HIDE DEF g, Cells
    <3> QED
      BY <3>1 DEF Surjection
  <2> HIDE DEF g, Cells
  <2> QED
    BY <2>1, <2>2, FS_Surjection
<1>2. IsFiniteSet(DOMAIN m.slab)
  BY DEF Placed, Memory
<1> HIDE DEF Cells
<1>3. f \in Surjection(DOMAIN m.slab, F)
  <2>1. f \in [DOMAIN m.slab -> F] /\ \A u \in F : \E i \in DOMAIN m.slab : f[i] = u
    OBVIOUS
  <2> HIDE DEF f, F
  <2> QED
    BY <2>1 DEF Surjection
<1>4. \A T \in F : IsFiniteSet(T)
  BY <1>1
<1>5. CellUses(m) = UNION F
  BY DEF CellUses, Cells
<1> HIDE DEF f, F
<1>6. IsFiniteSet(F)
  BY <1>2, <1>3, FS_Surjection
<1>7. IsFiniteSet(CellUses(m))
  BY <1>4, <1>5, <1>6, FS_UNION
<1>8. ASSUME NEW h PROVE IsFiniteSet({u \in CellUses(m) : u.heap = h})
  BY <1>7, FS_Subset
<1> QED
  BY <1>7, <1>8

(* A change of the lists of a heap and of its slabs' free lists keeps the  *)
(* layout.                                                                 *)
SameDesc(K, H) ==
  /\ K.lo = H.lo /\ K.hi = H.hi /\ K.validate = H.validate
  /\ K.scb = H.scb /\ K.arenas = H.arenas /\ K.free = H.free

SlabLike(r, s) ==
  /\ s \in SlabRec /\ s.heap = r.heap /\ s.cls = r.cls /\ s.total = r.total /\ s.arena = r.arena
  /\ s.free = Len(s.list) /\ Once(s.list) /\ ToSet(s.list) \subseteq 0 .. s.total - 1

Changed(m, k, h, K, S) ==
  /\ k.block = m.block /\ k.arena = m.arena /\ k.slab = S /\ DOMAIN S = DOMAIN m.slab
  /\ DOMAIN k.heap = DOMAIN m.heap /\ k.heap[h] = K
  /\ \A j \in DOMAIN m.heap \ {h} : k.heap[j] = m.heap[j]
  /\ Placed(k) /\ SameHeaps(m, k) /\ BlockUses(k) = BlockUses(m)
  /\ \A t \in DOMAIN m.slab : \A i : CellUse(k, t, i) = CellUse(m, t, i)

(* Such a change keeps the layout.                                         *)
LEMMA Change ==
  ASSUME NEW m, Placed(m), NEW h \in DOMAIN m.heap, NEW K \in HeapRec, SameDesc(K, m.heap[h]),
         NEW S, S = [t \in DOMAIN S |-> S[t]], DOMAIN S = DOMAIN m.slab,
         \A t \in DOMAIN S : SlabLike(m.slab[t], S[t])
  PROVE  Changed(m, Put(m, h, K, m.arena, S), h, K, S)
<1> DEFINE k == Put(m, h, K, m.arena, S)
<1>1. S \in [DOMAIN S -> SlabRec] /\ DOMAIN S \subseteq Nat /\ IsFiniteSet(DOMAIN S)
  <2>1. \A t \in DOMAIN S : S[t] \in SlabRec
    BY DEF SlabLike
  <2> QED
    BY <2>1 DEF Placed, Memory
<1>2. m.arena \in [DOMAIN m.arena -> ArenaRec] /\ DOMAIN m.arena \subseteq Nat /\ Memory(m)
  BY DEF Placed, Memory
<1>3. /\ Memory(k) /\ k.block = m.block /\ k.arena = m.arena /\ k.slab = S
      /\ DOMAIN k.heap = DOMAIN m.heap /\ k.heap[h] = K
      /\ \A j \in DOMAIN m.heap \ {h} : k.heap[j] = m.heap[j]
  BY <1>1, <1>2, MemoryPut
<1> HIDE DEF k
<1>4. SamePlaces(m, k) /\ SameHeaps(m, k)
  BY <1>3 DEF SameHeaps, SamePlaces, SameDesc
<1>5. BlocksOK(k) /\ HeapsOK(k)
  BY <1>3, <1>4, BlocksSame, HeapsSame DEF Placed
<1>6. ArenasOK(k)
  <2>1. \A j \in DOMAIN m.heap : k.heap[j].arenas = m.heap[j].arenas
    BY <1>3 DEF SameDesc
  <2> QED
    BY <1>3, <1>4, <2>1, ArenasSame DEF Placed
<1>7. SlabsOK(k)
  <2>1. \A a : Tiles(k, a) = Tiles(m, a)
    BY <1>3 DEF Tiles, TileAt
  <2>2. ASSUME NEW t \in DOMAIN k.slab
        PROVE  LET s == k.slab[t]
               IN  /\ s.arena \in DOMAIN k.arena /\ t \in Tiles(k, s.arena)
                   /\ s.heap = k.block[s.arena - 1].heap
                   /\ s.total = (SlabSize - SlabHdr) \div CellSz[s.cls]
                   /\ s.free = Len(s.list) /\ Once(s.list) /\ ToSet(s.list) \subseteq 0 .. s.total - 1
    <3>1. t \in DOMAIN m.slab /\ SlabLike(m.slab[t], k.slab[t])
      BY <1>3
    <3>2. LET s == m.slab[t]
          IN  /\ s.arena \in DOMAIN m.arena /\ t \in Tiles(m, s.arena)
              /\ s.heap = m.block[s.arena - 1].heap
              /\ s.total = (SlabSize - SlabHdr) \div CellSz[s.cls]
      BY <3>1 DEF Placed, SlabsOK
    <3> QED
      BY <1>3, <2>1, <3>1, <3>2 DEF SlabLike
  <2>3. ASSUME NEW a \in DOMAIN k.arena, NEW t \in Tiles(k, a)
        PROVE  t \in DOMAIN k.slab /\ k.slab[t].arena = a
    <3>1. t \in DOMAIN m.slab /\ m.slab[t].arena = a
      BY <1>3, <2>1 DEF Placed, SlabsOK
    <3> QED
      BY <1>3, <3>1 DEF SlabLike
  <2> QED
    BY <2>2, <2>3 DEF SlabsOK
<1>8. Placed(k)
  BY <1>3, <1>5, <1>6, <1>7 DEF Placed
<1>9. BlockUses(k) = BlockUses(m)
  BY <1>3, <1>4, OwnSame
<1>10. ASSUME NEW t \in DOMAIN m.slab, NEW i PROVE CellUse(k, t, i) = CellUse(m, t, i)
  <2>1. k.slab[t].cls = m.slab[t].cls /\ k.slab[t].heap = m.slab[t].heap
    BY <1>3 DEF SlabLike
  <2> QED
    BY <2>1 DEF CellUse, CellAt
<1> QED
  BY <1>3, <1>4, <1>8, <1>9, <1>10 DEF Changed, k

(* A slab is like itself.                                                  *)
LEMMA SlabIsLike ==
  ASSUME NEW m, Placed(m), NEW t \in DOMAIN m.slab
  PROVE  SlabLike(m.slab[t], m.slab[t])
<1>1. m.slab[t] \in SlabRec
  BY Types DEF Placed
<1> QED
  BY <1>1 DEF Placed, SlabsOK, SlabLike

(* __HeapSlabCreate: a slab on no list yet, or no change.                  *)
LEMMA SlabCreated ==
  ASSUME NEW m, Good(m), NEW h \in DOMAIN m.heap, NEW c \in Classes
  PROVE  LET o == SlabCreate(m, h, c)
         IN  /\ o = Outcome(o.m, o.p) \/ (o.p = Null /\ o.m = m)
             /\ \/ o.p = Null /\ o.m = m
                \/ /\ o.p # Null /\ NewSlab(m, o.m, h, c, o.p)
                   /\ NoEmpty(m, {}) => NoEmpty(o.m, {o.p})
<1> DEFINE arenas == m.heap[h].arenas
           roomy == {x \in DOMAIN arenas : m.arena[arenas[x]].use < m.arena[arenas[x]].slabs}
           o == SlabCreate(m, h, c)
<1>0. Placed(m) /\ ListsOK(m, {})
  BY DEF Good
<1>1. arenas \in Seq(Nat) /\ ToSet(arenas) = {a \in DOMAIN m.arena : m.block[a - 1].heap = h}
  BY <1>0, Types DEF Placed, ArenasOK
<1>2. CASE roomy # {}
  <2> DEFINE a == arenas[Min(roomy)]
  <2>1. o = Then(Outcome(m, a), LAMBDA x : ClaimTile(x.m, h, c, x.p))
    BY <1>2, Zenon DEF SlabCreate, Then
  <2>2. Min(roomy) \in roomy
    <3>1. DOMAIN arenas = 1 .. Len(arenas) /\ Len(arenas) \in Nat
      BY <1>1, SeqSet
    <3>2. roomy \in SUBSET Nat
      BY <3>1
    <3> HIDE DEF roomy
    <3> QED
      BY <1>2, <3>2, MinNat
  <2>3. /\ a \in DOMAIN m.arena /\ m.block[a - 1].heap = h
        /\ m.arena[a].use < m.arena[a].slabs
    <3>1. Min(roomy) \in DOMAIN arenas /\ m.arena[a].use < m.arena[a].slabs
      BY <2>2, Zenon
    <3>2. a \in ToSet(arenas)
      BY <3>1, Zenon DEF ToSet
    <3> HIDE DEF a, arenas
    <3> QED
      BY <1>1, <3>1, <3>2
  <2> HIDE DEF a
  <2>4. a # Null
    <3>1. a \in Nat /\ a - 1 \in DOMAIN m.block
      BY <1>0, <2>3, Types DEF Placed, ArenasOK
    <3>2. a - 1 \in Nat
      BY <1>0, <3>1, Types DEF Placed
    <3> QED
      BY <3>1, <3>2 DEF Null
  <2> DEFINE z == ClaimTile(m, h, c, a)
  <2>5. o = z
    BY <2>1, <2>4 DEF Then, Outcome
  <2>6. /\ NewSlab(m, z.m, h, c, z.p)
        /\ DOMAIN z.m.arena = DOMAIN m.arena /\ z.m.arena[a].map # {}
        /\ \A x \in DOMAIN m.arena \ {a} : z.m.arena[x] = m.arena[x]
    BY <1>0, <2>3, TileClaimed
  <2>7. z = Outcome(z.m, z.p)
    BY DEF ClaimTile, Outcome
  <2> HIDE DEF z, o
  <2>8. ASSUME NoEmpty(m, {}) PROVE NoEmpty(z.m, {z.p})
    BY <2>6, <2>8 DEF NoEmpty, NewSlab
  <2> QED
    BY <2>5, <2>6, <2>7, <2>8 DEF NewSlab, o
<1>3. CASE roomy = {}
  <2> DEFINE w == ArenaCreate(m, h, ArenaSlabs)
             z == ClaimTile(w.m, h, c, w.p)
  <2>1. o = IF w.p = Null THEN w ELSE z
    BY <1>3, Zenon DEF SlabCreate, Then
  <2>2. \/ w.p = Null /\ w.m = m
        \/ w.p # Null /\ FreshArena(m, w.m, h, w.p)
    BY <1>0, Consts, ArenaCreated
  <2> HIDE DEF w
  <2>3. CASE w.p = Null
    BY <2>1, <2>2, <2>3
  <2>4. CASE w.p # Null
    <3> DEFINE k == w.m
               a == w.p
    <3>1. FreshArena(m, k, h, a)
      BY <2>2, <2>4
    <3>2. z = ClaimTile(k, h, c, a)
      OBVIOUS
    <3> HIDE DEF k, a
    <3>3. /\ Placed(k) /\ ListsOK(k, {}) /\ SameHeaps(m, k) /\ Uses(k) = Uses(m) /\ k.slab = m.slab
          /\ DOMAIN k.arena = DOMAIN m.arena \cup {a} /\ k.block[a - 1].heap = h
          /\ \A x \in DOMAIN m.arena : k.arena[x] = m.arena[x]
          /\ k.arena[a].use < k.arena[a].slabs /\ a \notin DOMAIN m.arena
          /\ k.heap[h].partial = m.heap[h].partial /\ CellUses(k) = CellUses(m)
          /\ h \in DOMAIN k.heap /\ a \in DOMAIN k.arena
      BY <1>0, <3>1 DEF FreshArena, SameHeaps
    <3>4. /\ NewSlab(k, z.m, h, c, z.p)
          /\ DOMAIN z.m.arena = DOMAIN k.arena /\ z.m.arena[a].map # {}
          /\ \A x \in DOMAIN k.arena \ {a} : z.m.arena[x] = k.arena[x]
      BY <3>2, <3>3, TileClaimed
    <3>5. z = Outcome(z.m, z.p)
      BY DEF ClaimTile, Outcome
    <3> HIDE DEF z, o
    <3>6. NewSlab(m, z.m, h, c, z.p)
      <4>1. SameHeaps(m, z.m)
        BY <3>3, <3>4, SameTrans DEF NewSlab
      <4> QED
        BY <3>3, <3>4, <4>1 DEF NewSlab
    <3>7. ASSUME NoEmpty(m, {}) PROVE NoEmpty(z.m, {z.p})
      BY <3>3, <3>4, <3>7 DEF NoEmpty, NewSlab
    <3> QED
      BY <2>1, <2>4, <3>5, <3>6, <3>7 DEF NewSlab, o
  <2> QED
    BY <2>3, <2>4
<1> QED
  BY <1>2, <1>3

(* The free list of the tile t and the lists of its class replaced.        *)
Relists(H, c, P, F, n) ==
  [H EXCEPT !.partial = [@ EXCEPT ![c] = P], !.full = [@ EXCEPT ![c] = F], !.cells = n]
TilePut(m, t, r, P, F, n) ==
  Put(m, m.slab[t].heap, Relists(m.heap[m.slab[t].heap], m.slab[t].cls, P, F, n), m.arena,
      [m.slab EXCEPT ![t] = r])

Relisted(m, k, t, r, P, F, n) ==
  LET h == m.slab[t].heap
      c == m.slab[t].cls
  IN  /\ Placed(k) /\ SameHeaps(m, k) /\ BlockUses(k) = BlockUses(m)
      /\ k.arena = m.arena /\ k.block = m.block
      /\ DOMAIN k.slab = DOMAIN m.slab /\ k.slab[t] = r
      /\ \A s \in DOMAIN m.slab \ {t} : k.slab[s] = m.slab[s]
      /\ r.heap = h /\ r.cls = c /\ r.total = m.slab[t].total
      /\ \A j \in DOMAIN m.heap \ {h} : k.heap[j] = m.heap[j]
      /\ k.heap[h].partial[c] = P /\ k.heap[h].full[c] = F
      /\ \A e \in Classes \ {c} : /\ k.heap[h].partial[e] = m.heap[h].partial[e]
                                  /\ k.heap[h].full[e] = m.heap[h].full[e]
      /\ k.heap[h].slabs = m.heap[h].slabs /\ k.heap[h].cells = n
      /\ k.heap[h].scb = m.heap[h].scb /\ k.heap[h].arenas = m.heap[h].arenas
      /\ \A s \in DOMAIN m.slab : \A i : CellUse(k, s, i) = CellUse(m, s, i)

(* A free list and the class lists replaced: what follows from Change.     *)
LEMMA TileChange ==
  ASSUME NEW m, Placed(m), NEW t \in DOMAIN m.slab, NEW r, SlabLike(m.slab[t], r),
         NEW P \in Seq(Nat), NEW F \in Seq(Nat), NEW n \in Nat
  PROVE  Relisted(m, TilePut(m, t, r, P, F, n), t, r, P, F, n)
<1> DEFINE h == m.slab[t].heap
           c == m.slab[t].cls
           H == m.heap[h]
           K == Relists(H, c, P, F, n)
           S == [m.slab EXCEPT ![t] = r]
           k == Put(m, h, K, m.arena, S)
<1>1. h \in DOMAIN m.heap /\ c \in Classes /\ H \in HeapRec
  <2>1. h \in DOMAIN m.heap /\ c \in Classes
    BY SlabPlace
  <2> QED
    BY <2>1, Types DEF Placed
<1>2. k = TilePut(m, t, r, P, F, n)
  BY DEF TilePut
<1> HIDE DEF h, c, H
<1>3. /\ K \in HeapRec /\ SameDesc(K, H) /\ K.slabs = H.slabs /\ K.cells = n
      /\ K.partial[c] = P /\ K.full[c] = F
      /\ \A e \in Classes \ {c} : K.partial[e] = H.partial[e] /\ K.full[e] = H.full[e]
  <2> DEFINE p == [H.partial EXCEPT ![c] = P]
             f == [H.full EXCEPT ![c] = F]
             L == [H EXCEPT !.partial = p, !.full = f, !.cells = n]
  <2>1. /\ p \in [Classes -> Seq(Nat)] /\ f \in [Classes -> Seq(Nat)] /\ p[c] = P /\ f[c] = F
        /\ \A e \in Classes \ {c} : p[e] = H.partial[e] /\ f[e] = H.full[e]
    <3>1. H.partial \in [Classes -> Seq(Nat)] /\ H.full \in [Classes -> Seq(Nat)]
      BY <1>1 DEF HeapRec
    <3> QED
      BY <1>1, <3>1
  <2>2. K = L
    BY <1>1 DEF Relists, HeapRec
  <2> HIDE DEF p, f
  <2>3. /\ L \in HeapRec /\ L.lo = H.lo /\ L.hi = H.hi /\ L.validate = H.validate /\ L.scb = H.scb
        /\ L.arenas = H.arenas /\ L.free = H.free /\ L.slabs = H.slabs /\ L.cells = n
        /\ L.partial = p /\ L.full = f
    BY <1>1, <2>1 DEF HeapRec
  <2> QED
    BY <2>1, <2>2, <2>3 DEF SameDesc
<1> HIDE DEF K
<1>4. /\ S = [s \in DOMAIN S |-> S[s]] /\ DOMAIN S = DOMAIN m.slab /\ S[t] = r
      /\ \A s \in DOMAIN m.slab \ {t} : S[s] = m.slab[s]
  <2>1. m.slab = [s \in DOMAIN m.slab |-> m.slab[s]]
    BY DEF Placed, Memory
  <2> QED
    BY <2>1
<1> HIDE DEF S
<1>5. \A s \in DOMAIN S : SlabLike(m.slab[s], S[s])
  BY <1>4, SlabIsLike
<1>6. SameDesc(K, m.heap[h])
  BY <1>3 DEF H
<1>7. Changed(m, k, h, K, S)
  BY <1>1, <1>3, <1>4, <1>5, <1>6, Change
<1> HIDE DEF k
<1>8. /\ k.block = m.block /\ k.arena = m.arena /\ k.slab = S /\ k.heap[h] = K
      /\ \A j \in DOMAIN m.heap \ {h} : k.heap[j] = m.heap[j]
      /\ Placed(k) /\ SameHeaps(m, k) /\ BlockUses(k) = BlockUses(m)
      /\ \A s \in DOMAIN m.slab : \A i : CellUse(k, s, i) = CellUse(m, s, i)
  BY <1>7 DEF Changed
<1>9. r.heap = h /\ r.cls = c /\ r.total = m.slab[t].total
  BY DEF SlabLike, h, c
<1>10. Relisted(m, k, t, r, P, F, n)
  BY <1>3, <1>4, <1>8, <1>9, Zenon DEF Relisted, h, c, H, SameDesc
<1> QED
  BY <1>2, <1>10

CellsIn(m, h) == {u \in CellUses(m) : u.heap = h}

(* The class lists are right again when they say what became of t.         *)
LEMMA ListsTurn ==
  ASSUME NEW m, NEW t \in DOMAIN m.slab, NEW k, NEW r, NEW P, NEW F, NEW n,
         Relisted(m, k, t, r, P, F, n), m.slab[t].heap \in DOMAIN m.heap, m.slab[t].cls \in Classes,
         NEW X, X \subseteq {t}, NEW Y, Y \subseteq {t}, ListsOK(m, X), Once(P), Once(F),
         ToSet(P) = (Roomy(m, m.slab[t].heap, m.slab[t].cls) \ {t})
                    \cup (IF r.free # 0 /\ t \notin Y THEN {t} ELSE {}),
         ToSet(F) = (Full(m, m.slab[t].heap, m.slab[t].cls) \ {t})
                    \cup (IF r.free = 0 /\ t \notin Y THEN {t} ELSE {}),
         n = Cardinality(CellsIn(k, m.slab[t].heap)),
         \A j : j # m.slab[t].heap => CellsIn(k, j) = CellsIn(m, j)
  PROVE  ListsOK(k, Y)
<1> DEFINE h == m.slab[t].heap
           c == m.slab[t].cls
<1>1. /\ DOMAIN k.heap = DOMAIN m.heap
      /\ DOMAIN k.slab = DOMAIN m.slab /\ k.slab[t] = r
      /\ \A s \in DOMAIN m.slab \ {t} : k.slab[s] = m.slab[s]
      /\ r.heap = h /\ r.cls = c
      /\ \A j \in DOMAIN m.heap \ {h} : k.heap[j] = m.heap[j]
      /\ k.heap[h].partial[c] = P /\ k.heap[h].full[c] = F
      /\ \A e \in Classes \ {c} : /\ k.heap[h].partial[e] = m.heap[h].partial[e]
                                  /\ k.heap[h].full[e] = m.heap[h].full[e]
      /\ k.heap[h].slabs = m.heap[h].slabs /\ k.heap[h].cells = n
  BY Zenon DEF Relisted, SameHeaps
<1>2. h \in DOMAIN m.heap /\ c \in Classes
  OBVIOUS
<1>3. /\ ToSet(P) = (Roomy(m, h, c) \ {t}) \cup (IF r.free # 0 /\ t \notin Y THEN {t} ELSE {})
      /\ ToSet(F) = (Full(m, h, c) \ {t}) \cup (IF r.free = 0 /\ t \notin Y THEN {t} ELSE {})
      /\ n = Cardinality(CellsIn(k, h))
      /\ \A j : j # h => CellsIn(k, j) = CellsIn(m, j)
      /\ m.slab[t].heap = h /\ m.slab[t].cls = c
  OBVIOUS
<1> HIDE DEF h, c
<1>4. \A j : SlabsOf(k, j) = SlabsOf(m, j)
  BY <1>1, <1>3 DEF SlabsOf
<1>5. \A j, e : j # h \/ e # c => /\ Roomy(k, j, e) \ Y = Roomy(m, j, e) \ X
                                  /\ Full(k, j, e) \ Y = Full(m, j, e) \ X
  <2>1. \A j, e : j # h \/ e # c => /\ Roomy(k, j, e) = Roomy(m, j, e) /\ t \notin Roomy(m, j, e)
                                    /\ Full(k, j, e) = Full(m, j, e) /\ t \notin Full(m, j, e)
    BY <1>1, <1>3 DEF Roomy, Full, SlabsOf
  <2> QED
    BY <2>1
<1>6. /\ Roomy(k, h, c) = (Roomy(m, h, c) \ {t}) \cup (IF r.free # 0 THEN {t} ELSE {})
      /\ Full(k, h, c) = (Full(m, h, c) \ {t}) \cup (IF r.free = 0 THEN {t} ELSE {})
  BY <1>1, <1>3 DEF Roomy, Full, SlabsOf
<1>7. ToSet(P) = Roomy(k, h, c) \ Y /\ ToSet(F) = Full(k, h, c) \ Y
  BY <1>3, <1>6
<1>8. ASSUME NEW j \in DOMAIN m.heap
      PROVE  /\ \A e \in Classes :
                  /\ Once(m.heap[j].partial[e]) /\ ToSet(m.heap[j].partial[e]) = Roomy(m, j, e) \ X
                  /\ Once(m.heap[j].full[e]) /\ ToSet(m.heap[j].full[e]) = Full(m, j, e) \ X
             /\ m.heap[j].slabs = Cardinality(SlabsOf(m, j))
             /\ m.heap[j].cells = Cardinality(CellsIn(m, j))
  BY DEF ListsOK, CellsIn
<1>9. ASSUME NEW j \in DOMAIN m.heap
      PROVE  /\ \A e \in Classes :
                  /\ Once(k.heap[j].partial[e]) /\ ToSet(k.heap[j].partial[e]) = Roomy(k, j, e) \ Y
                  /\ Once(k.heap[j].full[e]) /\ ToSet(k.heap[j].full[e]) = Full(k, j, e) \ Y
             /\ k.heap[j].slabs = Cardinality(SlabsOf(k, j))
             /\ k.heap[j].cells = Cardinality(CellsIn(k, j))
  <2>1. CASE j # h
    <3>1. k.heap[j] = m.heap[j]
      BY <1>1, <2>1
    <3>2. ASSUME NEW e \in Classes
          PROVE  /\ Once(k.heap[j].partial[e]) /\ ToSet(k.heap[j].partial[e]) = Roomy(k, j, e) \ Y
                 /\ Once(k.heap[j].full[e]) /\ ToSet(k.heap[j].full[e]) = Full(k, j, e) \ Y
      <4>1. Roomy(k, j, e) \ Y = Roomy(m, j, e) \ X /\ Full(k, j, e) \ Y = Full(m, j, e) \ X
        BY <1>5, <2>1
      <4>2. /\ Once(m.heap[j].partial[e]) /\ ToSet(m.heap[j].partial[e]) = Roomy(m, j, e) \ X
            /\ Once(m.heap[j].full[e]) /\ ToSet(m.heap[j].full[e]) = Full(m, j, e) \ X
        BY <1>8
      <4> QED
        BY <3>1, <4>1, <4>2
    <3>3. /\ k.heap[j].slabs = Cardinality(SlabsOf(k, j))
          /\ k.heap[j].cells = Cardinality(CellsIn(k, j))
      BY <1>3, <1>4, <1>8, <2>1, <3>1
    <3> QED
      BY <3>2, <3>3
  <2>2. CASE j = h
    <3>1. ASSUME NEW e \in Classes
          PROVE  /\ Once(k.heap[j].partial[e]) /\ ToSet(k.heap[j].partial[e]) = Roomy(k, j, e) \ Y
                 /\ Once(k.heap[j].full[e]) /\ ToSet(k.heap[j].full[e]) = Full(k, j, e) \ Y
      <4>1. CASE e = c
        BY <1>1, <1>7, <2>2, <4>1
      <4>2. CASE e # c
        <5>1. Roomy(k, j, e) \ Y = Roomy(m, j, e) \ X /\ Full(k, j, e) \ Y = Full(m, j, e) \ X
          BY <1>5, <4>2
        <5>2. /\ Once(m.heap[j].partial[e]) /\ ToSet(m.heap[j].partial[e]) = Roomy(m, j, e) \ X
              /\ Once(m.heap[j].full[e]) /\ ToSet(m.heap[j].full[e]) = Full(m, j, e) \ X
          BY <1>8
        <5>3. /\ k.heap[j].partial[e] = m.heap[j].partial[e]
              /\ k.heap[j].full[e] = m.heap[j].full[e]
          BY <1>1, <2>2, <4>2
        <5> QED
          BY <5>1, <5>2, <5>3
      <4> QED
        BY <4>1, <4>2
    <3> QED
      BY <1>1, <1>3, <1>4, <1>8, <2>2, <3>1
  <2> QED
    BY <2>1, <2>2
<1>10. \A j \in DOMAIN k.heap : j \in DOMAIN m.heap
  BY <1>1
<1> QED
  BY <1>9, <1>10, Zenon DEF ListsOK, CellsIn

(* What the class lists and the counts say, one by one.                    *)
LEMMA ListsFacts ==
  ASSUME NEW m, NEW X, ListsOK(m, X), NEW h \in DOMAIN m.heap
  PROVE  /\ \A c \in Classes :
              /\ Once(m.heap[h].partial[c]) /\ ToSet(m.heap[h].partial[c]) = Roomy(m, h, c) \ X
              /\ Once(m.heap[h].full[c]) /\ ToSet(m.heap[h].full[c]) = Full(m, h, c) \ X
         /\ m.heap[h].slabs = Cardinality(SlabsOf(m, h))
         /\ m.heap[h].cells = Cardinality(CellsIn(m, h))
  BY DEF ListsOK, CellsIn

(* A heap has finitely many live cells.                                    *)
LEMMA CellsInFinite ==
  ASSUME NEW m, Placed(m), NEW h
  PROVE  IsFiniteSet(CellsIn(m, h))
<1>1. CellsIn(m, h) \subseteq CellUses(m) /\ IsFiniteSet(CellUses(m))
  BY CellsFinite DEF CellsIn
<1> QED
  BY <1>1, FS_Subset

(* A cell that leaves its free list is a pointer in use more, and one that *)
(* joins it a pointer in use less.                                         *)
LEMMA CellIsUse ==
  ASSUME NEW m, Placed(m), NEW t \in DOMAIN m.slab, NEW i \in 0 .. m.slab[t].total - 1
  PROVE  LET u == CellUse(m, t, i)
         IN  /\ u.p = CellAt(m, t, i) /\ u.n = CellSz[m.slab[t].cls] /\ u.heap = m.slab[t].heap
             /\ u \notin BlockUses(m)
             /\ u \in CellUses(m) <=> i \in LiveIn(m, t)
             /\ \A s \in DOMAIN m.slab : \A j \in LiveIn(m, s) :
                  CellUse(m, s, j) = u => s = t /\ j = i
<1> DEFINE u == CellUse(m, t, i)
<1>1. u.p = CellAt(m, t, i) /\ u.n = CellSz[m.slab[t].cls] /\ u.heap = m.slab[t].heap
  BY DEF CellUse, Use
<1>2. SlabFromPtr(m, u.p) = t /\ CellIndex(m, t, u.p) = i /\ t # Null
  <2>1. t # Null
    BY SlabPlace
  <2> HIDE DEF u
  <2> QED
    BY <1>1, <2>1, CellPtr
<1> HIDE DEF u
<1>3. u \notin BlockUses(m)
  BY <1>2, BlockUsed, BlockUseIs
<1>4. ASSUME NEW s \in DOMAIN m.slab, NEW j \in LiveIn(m, s), CellUse(m, s, j) = u
      PROVE  s = t /\ j = i
  BY <1>2, <1>4, CellUseIs
<1>5. u \in CellUses(m) <=> i \in LiveIn(m, t)
  BY <1>4, CellUsed DEF u
<1> QED
  BY <1>1, <1>3, <1>4, <1>5 DEF u

(* A cell taken off its free list.                                         *)
LEMMA CellGain ==
  ASSUME NEW m, Placed(m), NEW t \in DOMAIN m.slab, NEW k, NEW r, NEW P, NEW F, NEW n,
         Relisted(m, k, t, r, P, F, n), NEW i, i \in ToSet(m.slab[t].list),
         ToSet(r.list) = ToSet(m.slab[t].list) \ {i}
  PROVE  LET u == CellUse(m, t, i)
         IN  /\ u \notin Uses(m) /\ u \notin CellUses(m) /\ CellUses(k) = CellUses(m) \cup {u}
             /\ Uses(k) = Uses(m) \cup {u}
             /\ u.p = CellAt(m, t, i) /\ u.n = CellSz[m.slab[t].cls] /\ u.heap = m.slab[t].heap
<1> DEFINE u == CellUse(m, t, i)
<1>1. i \in 0 .. m.slab[t].total - 1
  BY DEF Placed, SlabsOK
<1>2. i \notin LiveIn(m, t)
  BY DEF LiveIn
<1>3. /\ u \notin BlockUses(m) /\ u \notin CellUses(m)
      /\ u.p = CellAt(m, t, i) /\ u.n = CellSz[m.slab[t].cls] /\ u.heap = m.slab[t].heap
  BY <1>1, <1>2, CellIsUse
<1>4. /\ DOMAIN k.slab = DOMAIN m.slab /\ k.slab[t] = r /\ r.total = m.slab[t].total
      /\ \A s \in DOMAIN m.slab \ {t} : k.slab[s] = m.slab[s]
      /\ \A s \in DOMAIN m.slab : \A j : CellUse(k, s, j) = CellUse(m, s, j)
      /\ BlockUses(k) = BlockUses(m)
  BY DEF Relisted
<1>5. LiveIn(k, t) = LiveIn(m, t) \cup {i} /\ \A s \in DOMAIN m.slab \ {t} : LiveIn(k, s) = LiveIn(m, s)
  BY <1>1, <1>4 DEF LiveIn
<1>6. \A v : v \in CellUses(k) <=> v \in CellUses(m) \/ v = u
  BY <1>4, <1>5, CellUsed
<1> HIDE DEF u
<1>7. CellUses(k) = CellUses(m) \cup {u}
  BY <1>6
<1> QED
  BY <1>3, <1>4, <1>7 DEF u, Uses

(* A cell put on its free list.                                            *)
LEMMA CellLoss ==
  ASSUME NEW m, Placed(m), NEW t \in DOMAIN m.slab, NEW k, NEW r, NEW P, NEW F, NEW n,
         Relisted(m, k, t, r, P, F, n), NEW i \in LiveIn(m, t),
         ToSet(r.list) = ToSet(m.slab[t].list) \cup {i}
  PROVE  LET u == CellUse(m, t, i)
         IN  /\ u \in Uses(m) /\ u \in CellUses(m) /\ CellUses(k) = CellUses(m) \ {u}
             /\ Uses(k) = Uses(m) \ {u}
<1> DEFINE u == CellUse(m, t, i)
<1>1. i \in 0 .. m.slab[t].total - 1
  BY DEF LiveIn
<1>3. /\ u \notin BlockUses(m) /\ u \in CellUses(m)
      /\ \A s \in DOMAIN m.slab : \A j \in LiveIn(m, s) : CellUse(m, s, j) = u => s = t /\ j = i
  BY <1>1, CellIsUse
<1>4. /\ DOMAIN k.slab = DOMAIN m.slab /\ k.slab[t] = r /\ r.total = m.slab[t].total
      /\ \A s \in DOMAIN m.slab \ {t} : k.slab[s] = m.slab[s]
      /\ \A s \in DOMAIN m.slab : \A j : CellUse(k, s, j) = CellUse(m, s, j)
      /\ BlockUses(k) = BlockUses(m)
  BY DEF Relisted
<1>5. LiveIn(k, t) = LiveIn(m, t) \ {i} /\ \A s \in DOMAIN m.slab \ {t} : LiveIn(k, s) = LiveIn(m, s)
  BY <1>1, <1>4 DEF LiveIn
<1>6. \A v : v \in CellUses(k) <=> v \in CellUses(m) /\ v # u
  <2> HIDE DEF u
  <2>1. \A v : v \in CellUses(k) <=> \E s \in DOMAIN m.slab : \E j \in LiveIn(k, s) : v = CellUse(m, s, j)
    BY <1>4, CellUsed
  <2>2. \A v : v \in CellUses(m) <=> \E s \in DOMAIN m.slab : \E j \in LiveIn(m, s) : v = CellUse(m, s, j)
    BY CellUsed
  <2>3. \A s \in DOMAIN m.slab : \A j : j \in LiveIn(k, s) <=> j \in LiveIn(m, s) /\ ~ (s = t /\ j = i)
    BY <1>5
  <2> QED
    BY <1>3, <2>1, <2>2, <2>3 DEF u
<1> HIDE DEF u
<1>7. CellUses(k) = CellUses(m) \ {u}
  BY <1>6
<1> QED
  BY <1>3, <1>4, <1>7 DEF u, Uses
-----------------------------------------------------------------------------
(* A slab on no list yet becomes the one partial slab of its class.        *)
LEMMA SlabListed ==
  ASSUME NEW m, Good(m), NEW h \in DOMAIN m.heap, NEW c \in Classes, m.heap[h].partial[c] = <<>>,
         NEW t, NEW k, NewSlab(m, k, h, c, t)
  PROVE  LET l == [k EXCEPT !.heap[h].partial[c] = <<t>>]
         IN  /\ Good(l) /\ SameHeaps(m, l) /\ Uses(l) = Uses(m) /\ t \in Roomy(l, h, c)
             /\ CellUses(l) = CellUses(m)
             /\ NoEmpty(k, {t}) => NoEmpty(l, {t})
<1> DEFINE H == k.heap[h]
           r == k.slab[t]
           l == TilePut(k, t, r, <<t>>, H.full[c], H.cells)
<1>1. /\ Placed(k) /\ SameHeaps(m, k) /\ Uses(k) = Uses(m) /\ t \in DOMAIN k.slab
      /\ r.heap = h /\ r.cls = c /\ r.free # 0 /\ H.partial = m.heap[h].partial /\ ListsOK(k, {t})
      /\ h \in DOMAIN k.heap /\ CellUses(k) = CellUses(m)
  BY DEF NewSlab, SameHeaps
<1>2. /\ H \in HeapRec /\ H.full[c] \in Seq(Nat) /\ H.cells \in Nat /\ t \in Nat
      /\ H.partial[c] = <<>>
  BY <1>1, Types DEF Placed
<1>3. l = [k EXCEPT !.heap[h].partial[c] = <<t>>]
  <2>1. k \in [heap : {k.heap}, block : {k.block}, arena : {k.arena}, slab : {k.slab}]
    BY <1>1 DEF Placed, Memory
  <2>2. k.slab = [s \in DOMAIN k.slab |-> k.slab[s]]
    BY <1>1 DEF Placed, Memory
  <2>3. [k.slab EXCEPT ![t] = r] = k.slab
    BY <1>1, <2>2
  <2>4. Relists(H, c, <<t>>, H.full[c], H.cells) = [H EXCEPT !.partial[c] = <<t>>]
    <3>1. H.full \in [Classes -> Seq(Nat)] /\ H.partial \in [Classes -> Seq(Nat)]
      BY <1>2 DEF HeapRec
    <3>2. [H.full EXCEPT ![c] = H.full[c]] = H.full
      BY <3>1
    <3> QED
      BY <1>2, <3>2 DEF Relists, HeapRec
  <2>5. l = Put(k, h, [H EXCEPT !.partial[c] = <<t>>], k.arena, k.slab)
    BY <1>1, <2>3, <2>4 DEF TilePut
  <2> QED
    BY <2>1, <2>5 DEF Put
<1>4. SlabLike(k.slab[t], r)
  BY <1>1, SlabIsLike
<1>5. <<t>> \in Seq(Nat) /\ ToSet(<<t>>) = {t} /\ Once(<<t>>)
  BY <1>2, SingleSeq
<1> DEFINE P == <<t>>
           F == H.full[c]
           n == H.cells
<1>6. /\ Relisted(k, l, t, r, P, F, n) /\ P \in Seq(Nat) /\ ToSet(P) = {t} /\ Once(P)
      /\ F = k.heap[h].full[c] /\ n = k.heap[h].cells
  BY <1>1, <1>2, <1>4, <1>5, TileChange, Zenon
<1>7. /\ CellUses(l) = CellUses(k) /\ Uses(l) = Uses(k)
  <2>1. \A s \in DOMAIN k.slab : l.slab[s] = k.slab[s]
    BY <1>6, Zenon DEF Relisted
  <2>2. DOMAIN l.slab = DOMAIN k.slab /\ BlockUses(l) = BlockUses(k)
        /\ \A s \in DOMAIN k.slab : \A i : CellUse(l, s, i) = CellUse(k, s, i)
    BY <1>6, Zenon DEF Relisted
  <2> HIDE DEF l
  <2>3. \A s \in DOMAIN k.slab : LiveIn(l, s) = LiveIn(k, s)
    BY <2>1 DEF LiveIn
  <2>4. \A u : u \in CellUses(l) <=> u \in CellUses(k)
    BY <2>2, <2>3, CellUsed
  <2>5. CellUses(l) = CellUses(k)
    BY <2>4
  <2> QED
    BY <2>2, <2>5 DEF Uses
<1> HIDE DEF l, P, F, n
<1>8. ListsOK(l, {})
  <2>1. /\ ToSet(k.heap[h].partial[c]) = Roomy(k, h, c) \ {t}
        /\ Once(k.heap[h].full[c]) /\ ToSet(k.heap[h].full[c]) = Full(k, h, c) \ {t}
        /\ k.heap[h].cells = Cardinality(CellsIn(k, h))
    BY <1>1, ListsFacts
  <2>2. Roomy(k, h, c) \ {t} = {} 
    BY <1>2, <2>1, EmptyList
  <2>3. /\ ToSet(P) = (Roomy(k, h, c) \ {t}) \cup (IF r.free # 0 /\ t \notin {} THEN {t} ELSE {})
        /\ ToSet(F) = (Full(k, h, c) \ {t}) \cup (IF r.free = 0 /\ t \notin {} THEN {t} ELSE {})
    BY <1>1, <1>6, <2>1, <2>2
  <2>4. /\ n = Cardinality(CellsIn(l, h)) /\ Once(F)
        /\ \A j : CellsIn(l, j) = CellsIn(k, j)
    BY <1>6, <1>7, <2>1 DEF CellsIn
  <2>5. k.slab[t].heap = h /\ k.slab[t].cls = c
    BY <1>1
  <2> HIDE DEF r, H
  <2> QED
    BY <1>1, <1>6, <2>3, <2>4, <2>5, ListsTurn
<1>9. Good(l) /\ SameHeaps(k, l)
  BY <1>6, <1>8, Zenon DEF Relisted, Good
<1>10. t \in Roomy(l, h, c)
  BY <1>1, <1>6 DEF Relisted, Roomy, SlabsOf
<1>11. NoEmpty(k, {t}) => NoEmpty(l, {t})
  BY <1>6, Zenon DEF Relisted, NoEmpty
<1>12. SameHeaps(m, l)
  BY <1>1, <1>9, SameTrans
<1> QED
  BY <1>1, <1>3, <1>7, <1>9, <1>10, <1>11, <1>12

(* What a request for n of the heap h leaves: nothing that was in use is   *)
(* disturbed, and a pointer to at least n is in use in addition, or none.  *)
Sound(m, k) == Good(k) /\ SameHeaps(m, k) /\ (NoEmpty(m, {}) => NoEmpty(k, {}))
Gives(m, o, h, n) ==
  \E u : /\ u.p = o.p /\ u.n >= n /\ u.heap = h
         /\ u \notin Uses(m) /\ Uses(o.m) = Uses(m) \cup {u}
Served(m, o, h, n) ==
  /\ Sound(m, o.m) /\ CellUses(m) \subseteq CellUses(o.m)
  /\ IF o.p = Null THEN Uses(o.m) = Uses(m) ELSE Gives(m, o, h, n)

(* The head of a free list is given out.                                   *)
LEMMA CellPopped ==
  ASSUME NEW m, Good(m), NEW h \in DOMAIN m.heap, NEW c \in Classes, NEW t \in Roomy(m, h, c)
  PROVE  LET o == PopCell(m, h, c, t)
         IN  /\ Good(o.m) /\ SameHeaps(m, o.m) /\ (NoEmpty(m, {t}) => NoEmpty(o.m, {}))
             /\ o.p # Null /\ Gives(m, o, h, CellSz[c]) /\ CellUses(m) \subseteq CellUses(o.m)
<1> DEFINE H == m.heap[h]
           s == m.slab[t]
           x == s.free - 1
           n == H.cells + 1
           r == [s EXCEPT !.list = Tail(@), !.free = x]
           i == Head(s.list)
           P == IF x # 0 THEN H.partial[c] ELSE RemoveFirst(H.partial[c], t)
           F == IF x # 0 THEN H.full[c] ELSE <<t>> \o H.full[c]
           k == TilePut(m, t, r, P, F, n)
<1>0. Placed(m) /\ ListsOK(m, {}) /\ Memory(m)
  BY DEF Good, Placed
<1>1. t \in DOMAIN m.slab /\ s.heap = h /\ s.cls = c /\ s.free # 0
  BY DEF Roomy, SlabsOf
<1>2. /\ s \in SlabRec /\ t \in Nat /\ H \in HeapRec /\ H.partial[c] \in Seq(Nat) /\ H.full[c] \in Seq(Nat)
      /\ H.cells \in Nat /\ s.list \in Seq(Nat) /\ s.free \in Nat /\ s.total \in Nat
  BY <1>0, <1>1, Types
<1>3. /\ s.free = Len(s.list) /\ Once(s.list) /\ ToSet(s.list) \subseteq 0 .. s.total - 1
      /\ s.free <= s.total
  BY <1>0, <1>1, SlabCount DEF Placed, SlabsOK
<1>4. /\ Once(H.partial[c]) /\ ToSet(H.partial[c]) = Roomy(m, h, c)
      /\ Once(H.full[c]) /\ ToSet(H.full[c]) = Full(m, h, c)
      /\ H.cells = Cardinality(CellsIn(m, h))
  <2>1. /\ Once(H.partial[c]) /\ ToSet(H.partial[c]) = Roomy(m, h, c) \ {}
        /\ Once(H.full[c]) /\ ToSet(H.full[c]) = Full(m, h, c) \ {}
        /\ H.cells = Cardinality(CellsIn(m, h))
    BY <1>0 DEF ListsOK, CellsIn
  <2> QED
    BY <2>1
<1>5. x \in Nat /\ n \in Nat /\ x < s.total
  BY <1>1, <1>2, <1>3
<1>6. PopCell(m, h, c, t) = Outcome(k, CellAt(m, t, i))
  <2>1. m \in [heap : {m.heap}, block : {m.block}, arena : {m.arena}, slab : {m.slab}]
    BY <1>0 DEF Memory
  <2>2. m.slab = [z \in DOMAIN m.slab |-> m.slab[z]] /\ m.heap = [z \in DOMAIN m.heap |-> m.heap[z]]
    BY <1>0 DEF Memory
  <2> DEFINE K == [H EXCEPT !.cells = n]
             S == [m.slab EXCEPT ![t] = r]
             q == Put(m, h, K, m.arena, S)
             popped == [m EXCEPT !.slab[t].list = Tail(@), !.slab[t].free = @ - 1, !.heap[h].cells = @ + 1]
  <2>3. q = popped
    <3>1. [m.slab EXCEPT ![t].list = Tail(@), ![t].free = @ - 1] = S
      BY <1>1, <1>2, <2>2 DEF SlabRec
    <3>2. [m.heap EXCEPT ![h].cells = @ + 1] = [m.heap EXCEPT ![h] = K]
      BY <2>2
    <3>3. popped = [m EXCEPT !.heap = [m.heap EXCEPT ![h].cells = @ + 1],
                             !.slab = [m.slab EXCEPT ![t].list = Tail(@), ![t].free = @ - 1]]
      BY <2>1
    <3>4. q = [m EXCEPT !.heap = [m.heap EXCEPT ![h] = K], !.slab = S]
      BY <2>1 DEF Put
    <3> QED
      BY <3>1, <3>2, <3>3, <3>4
  <2>4. S[t] = r /\ r.free = x
    BY <1>1, <1>2 DEF SlabRec
  <2>5. q.slab[t].free = x
    BY <2>1, <2>4 DEF Put
  <2>6. PopCell(m, h, c, t) = Outcome(IF x # 0 THEN q
                                      ELSE [q EXCEPT !.heap[h].partial[c] = RemoveFirst(@, t),
                                                     !.heap[h].full[c] = <<t>> \o @],
                                      CellAt(m, t, i))
    <3>1. PopCell(m, h, c, t) = Outcome(IF popped.slab[t].free # 0 THEN popped
                                        ELSE [popped EXCEPT !.heap[h].partial[c] = RemoveFirst(@, t),
                                                            !.heap[h].full[c] = <<t>> \o @],
                                        CellAt(m, t, i))
      BY DEF PopCell
    <3> HIDE DEF popped, q
    <3> QED
      BY <2>3, <2>5, <3>1
  <2> HIDE DEF n, x, r, i, S
  <2>7. H.full \in [Classes -> Seq(Nat)] /\ H.partial \in [Classes -> Seq(Nat)]
    BY <1>2 DEF HeapRec
  <2>8. CASE x # 0
    <3>1. [H.partial EXCEPT ![c] = H.partial[c]] = H.partial /\ [H.full EXCEPT ![c] = H.full[c]] = H.full
      BY <2>7
    <3>2. Relists(H, c, H.partial[c], H.full[c], n) = K
      BY <1>2, <3>1, Zenon DEF Relists, HeapRec
    <3>3. q = TilePut(m, t, r, P, F, n)
      BY <1>1, <2>8, <3>2 DEF TilePut, S
    <3> QED
      BY <2>6, <2>8, <3>3
  <2>9. CASE x = 0
    <3> DEFINE p == RemoveFirst(H.partial[c], t)
               f == <<t>> \o H.full[c]
               L == Relists(H, c, p, f, n)
    <3>1. q.heap = [m.heap EXCEPT ![h] = K] /\ q.heap[h] = K /\ K.partial = H.partial /\ K.full = H.full
      BY <1>2, <2>1, <2>2 DEF Put, HeapRec
    <3>2. [q EXCEPT !.heap[h].partial[c] = RemoveFirst(@, t), !.heap[h].full[c] = <<t>> \o @]
           = [q EXCEPT !.heap[h].partial[c] = p, !.heap[h].full[c] = f]
      BY <3>1
    <3> HIDE DEF p, f
    <3>3. [q EXCEPT !.heap[h].partial[c] = p, !.heap[h].full[c] = f] = Put(m, h, L, m.arena, S)
      <4>1. [q.heap EXCEPT ![h].partial[c] = p, ![h].full[c] = f] = [m.heap EXCEPT ![h] = L]
        <5>1. [K EXCEPT !.partial[c] = p, !.full[c] = f] = L
          BY <1>2 DEF Relists, HeapRec
        <5>2. [q.heap EXCEPT ![h].partial[c] = p, ![h].full[c] = f]
               = [q.heap EXCEPT ![h] = [K EXCEPT !.partial[c] = p, !.full[c] = f]]
          <6> DEFINE g == q.heap
          <6>1. g = [z \in DOMAIN g |-> g[z]] /\ g[h] = K /\ h \in DOMAIN g
            BY <2>2, <3>1
          <6> HIDE DEF g, K
          <6>2. [g EXCEPT ![h].partial[c] = p, ![h].full[c] = f]
                 = [g EXCEPT ![h] = [K EXCEPT !.partial[c] = p, !.full[c] = f]]
            BY <6>1
          <6> QED
            BY <6>2 DEF g
        <5>3. [q.heap EXCEPT ![h] = L] = [m.heap EXCEPT ![h] = L]
          BY <2>2, <3>1
        <5> QED
          BY <5>1, <5>2, <5>3
      <4> DEFINE y == [q.heap EXCEPT ![h].partial[c] = p, ![h].full[c] = f]
                 w == [m.heap EXCEPT ![h] = L]
      <4>2. q = [m EXCEPT !.heap = q.heap, !.slab = S]
        BY <2>1 DEF Put
      <4>3. [q EXCEPT !.heap[h].partial[c] = p, !.heap[h].full[c] = f] = [q EXCEPT !.heap = y]
        <5>1. q \in [heap : {q.heap}, block : {m.block}, arena : {m.arena}, slab : {S}]
          BY <2>1 DEF Put
        <5> HIDE DEF q, S
        <5> DEFINE y1 == [q.heap EXCEPT ![h].partial[c] = p]
                   z1 == [q EXCEPT !.heap = y1]
                   y2 == [y1 EXCEPT ![h].full[c] = f]
        <5>2. z1.heap = y1
          BY <5>1
        <5>3. [q EXCEPT !.heap[h].partial[c] = p, !.heap[h].full[c] = f] = [z1 EXCEPT !.heap[h].full[c] = f]
          OBVIOUS
        <5> HIDE DEF y1
        <5>4. [z1 EXCEPT !.heap[h].full[c] = f] = [z1 EXCEPT !.heap = y2]
          <6> HIDE DEF z1
          <6> QED
            BY <5>2
        <5> HIDE DEF y2
        <5>5. [z1 EXCEPT !.heap = y2] = [q EXCEPT !.heap = y2]
          BY <5>1
        <5>6. y2 = y
          BY DEF y1, y2
        <5> HIDE DEF y, z1
        <5> QED
          BY <5>3, <5>4, <5>5, <5>6
      <4>4. Put(m, h, L, m.arena, S) = [m EXCEPT !.heap = w, !.slab = S]
        BY <2>1 DEF Put
      <4>5. y = w
        BY <4>1
      <4> HIDE DEF y, w, S
      <4>6. [q EXCEPT !.heap = y] = [m EXCEPT !.heap = y, !.slab = S]
        BY <2>1, <4>2
      <4> HIDE DEF q
      <4> QED
        BY <4>3, <4>4, <4>5, <4>6
    <3>4. P = p /\ F = f
      BY <2>9 DEF p, f
    <3>5. Put(m, h, L, m.arena, S) = k
      BY <1>1, <3>4 DEF TilePut, S
    <3> QED
      BY <2>6, <2>9, <3>2, <3>3, <3>5, Zenon
  <2> QED
    BY <2>8, <2>9
<1>7. s.list # <<>>
  BY <1>1, <1>2, <1>3, SeqSet
<1>8. /\ i \in ToSet(s.list) /\ Tail(s.list) \in Seq(Nat) /\ Len(Tail(s.list)) = x
      /\ Once(Tail(s.list)) /\ ToSet(Tail(s.list)) = ToSet(s.list) \ {i}
  BY <1>2, <1>3, <1>7, TailSet
<1>9. /\ r \in SlabRec /\ r.heap = h /\ r.cls = c /\ r.total = s.total /\ r.arena = s.arena
      /\ r.free = x /\ r.list = Tail(s.list)
  <2> DEFINE y == Tail(s.list)
             z == [s EXCEPT !.list = y, !.free = x]
  <2>1. y \in Seq(Nat) /\ x \in Nat
    BY <1>5, <1>8
  <2> HIDE DEF x, y
  <2>2. /\ z \in SlabRec /\ z.heap = s.heap /\ z.cls = s.cls /\ z.total = s.total /\ z.arena = s.arena
        /\ z.free = x /\ z.list = y
    BY <1>2, <2>1 DEF SlabRec
  <2> QED
    BY <1>1, <2>2 DEF y
<1> HIDE DEF r, i, x
<1>10. SlabLike(m.slab[t], r)
  BY <1>1, <1>3, <1>8, <1>9 DEF SlabLike
<1>11. /\ P \in Seq(Nat) /\ Once(P)
       /\ ToSet(P) = (Roomy(m, h, c) \ {t}) \cup (IF r.free # 0 /\ t \notin {} THEN {t} ELSE {})
  <2>1. CASE x # 0
    BY <1>2, <1>4, <1>9, <2>1
  <2>2. CASE x = 0
    <3>1. t \in ToSet(H.partial[c])
      BY <1>4
    <3> DEFINE L == H.partial[c]
    <3>2. L \in Seq(Nat) /\ t \in ToSet(L) /\ Once(L) /\ ToSet(L) = Roomy(m, h, c)
      BY <1>2, <1>4, <3>1
    <3> HIDE DEF L
    <3>3. /\ RemoveFirst(L, t) \in Seq(Nat) /\ Once(RemoveFirst(L, t))
          /\ ToSet(RemoveFirst(L, t)) = ToSet(L) \ {t}
      BY <3>2, UnlinkSet
    <3>4. P = RemoveFirst(L, t)
      BY <2>2 DEF L
    <3> QED
      BY <1>9, <2>2, <3>2, <3>3, <3>4
  <2> QED
    BY <2>1, <2>2
<1>12. /\ F \in Seq(Nat) /\ Once(F)
       /\ ToSet(F) = (Full(m, h, c) \ {t}) \cup (IF r.free = 0 /\ t \notin {} THEN {t} ELSE {})
  <2>0. t \notin Full(m, h, c)
    BY <1>1 DEF Full
  <2>1. CASE x # 0
    BY <1>2, <1>4, <1>9, <2>0, <2>1
  <2>2. CASE x = 0
    <3> DEFINE L == H.full[c]
    <3>2. L \in Seq(Nat) /\ Once(L) /\ ToSet(L) = Full(m, h, c)
      BY <1>2, <1>4
    <3> HIDE DEF L
    <3>3. <<t>> \o L \in Seq(Nat) /\ ToSet(<<t>> \o L) = {t} \cup ToSet(L) /\ Once(<<t>> \o L)
      BY <1>2, <2>0, <3>2, ConsSet
    <3>4. F = <<t>> \o L
      BY <2>2 DEF L
    <3>5. r.free = 0
      BY <1>9, <2>2
    <3>6. (Full(m, h, c) \ {t}) \cup (IF r.free = 0 /\ t \notin {} THEN {t} ELSE {}) = {t} \cup ToSet(L)
      BY <2>0, <3>2, <3>5
    <3> HIDE DEF F
    <3> QED
      BY <3>3, <3>4, <3>6, Zenon
  <2> QED
    BY <2>1, <2>2
<1> HIDE DEF P, F
<1>13. Relisted(m, k, t, r, P, F, n)
  BY <1>0, <1>1, <1>5, <1>10, <1>11, <1>12, TileChange
<1>14. n = H.cells + 1
  OBVIOUS
<1> HIDE DEF k, n
<1> DEFINE u == CellUse(m, t, i)
<1>15. /\ u \notin Uses(m) /\ u \notin CellUses(m) /\ CellUses(k) = CellUses(m) \cup {u}
       /\ Uses(k) = Uses(m) \cup {u}
       /\ u.p = CellAt(m, t, i) /\ u.n = CellSz[c] /\ u.heap = h
  <2>1. ToSet(r.list) = ToSet(m.slab[t].list) \ {i} /\ i \in ToSet(m.slab[t].list)
    BY <1>8, <1>9
  <2> QED
    BY <1>0, <1>1, <1>13, <2>1, CellGain
<1>16. u.p # Null
  <2>1. i \in 0 .. m.slab[t].total - 1
    BY <1>3, <1>8
  <2>2. CellAt(m, t, i) \in Nat /\ t < CellAt(m, t, i)
    BY <1>0, <1>1, <2>1, CellPtr
  <2> QED
    BY <1>2, <1>15, <2>2 DEF Null
<1> HIDE DEF u
<1>17. ListsOK(k, {})
  <2>1. n = Cardinality(CellsIn(k, h))
    <3>1. CellsIn(k, h) = CellsIn(m, h) \cup {u} /\ u \notin CellsIn(m, h)
      BY <1>15 DEF CellsIn
    <3>2. IsFiniteSet(CellsIn(m, h))
      BY <1>0, CellsInFinite
    <3>3. Cardinality(CellsIn(m, h) \cup {u}) = Cardinality(CellsIn(m, h)) + 1
      BY <3>1, <3>2, FS_AddElement
    <3> QED
      BY <1>4, <1>14, <3>1, <3>3
  <2>2. \A j : j # h => CellsIn(k, j) = CellsIn(m, j)
    BY <1>15 DEF CellsIn
  <2>3. m.slab[t].heap = h /\ m.slab[t].cls = c /\ t \in DOMAIN m.slab
    BY <1>1
  <2>4. /\ Once(P) /\ Once(F)
        /\ ToSet(P) = (Roomy(m, h, c) \ {t}) \cup (IF r.free # 0 /\ t \notin {} THEN {t} ELSE {})
        /\ ToSet(F) = (Full(m, h, c) \ {t}) \cup (IF r.free = 0 /\ t \notin {} THEN {t} ELSE {})
    BY <1>11, <1>12
  <2>5. ListsOK(m, {}) /\ {} \subseteq {t}
    BY <1>0
  <2> HIDE DEF s, H
  <2> QED
    BY <1>13, <2>1, <2>2, <2>3, <2>4, <2>5, ListsTurn
<1>18. Good(k) /\ SameHeaps(m, k)
  BY <1>13, <1>17, Zenon DEF Relisted, Good
<1>19. ASSUME NoEmpty(m, {t}) PROVE NoEmpty(k, {})
  <2>1. /\ DOMAIN k.slab = DOMAIN m.slab /\ k.slab[t] = r /\ k.arena = m.arena
        /\ \A z \in DOMAIN m.slab \ {t} : k.slab[z] = m.slab[z]
    BY <1>13 DEF Relisted
  <2>2. r.free < r.total
    BY <1>5, <1>9
  <2> QED
    BY <1>19, <2>1, <2>2 DEF NoEmpty
<1>20. PopCell(m, h, c, t).m = k /\ PopCell(m, h, c, t).p = u.p
  BY <1>6, <1>15 DEF Outcome
<1>21. \A v : CellSz[c] <= CellSz[c]
  BY Consts
<1>22. Gives(m, PopCell(m, h, c, t), h, CellSz[c])
  BY <1>15, <1>20, <1>21 DEF Gives
<1>23. CellUses(m) \subseteq CellUses(k)
  BY <1>15
<1> QED
  BY <1>16, <1>18, <1>19, <1>20, <1>22, <1>23

(* Two sound steps are a sound step.                                       *)
LEMMA SoundTrans ==
  ASSUME NEW m, NEW k, NEW l, Sound(m, k), Sound(k, l)
  PROVE  Sound(m, l)
  BY SameTrans DEF Sound

(* A request served after a step that disturbs nothing in use.             *)
LEMMA ServedAfter ==
  ASSUME NEW m, NEW k, Sound(m, k), Uses(k) = Uses(m), CellUses(m) \subseteq CellUses(k), NEW o, NEW h, NEW n, Served(k, o, h, n)
  PROVE  Served(m, o, h, n)
  BY SoundTrans DEF Served, Gives

(* A quiet step is sound.                                                  *)
LEMMA QuietSound ==
  ASSUME NEW m, Good(m), NEW k, Quiet(m, k)
  PROVE  Sound(m, k) /\ Uses(k) = Uses(m) /\ CellUses(k) = CellUses(m)
  BY DEF Good, Quiet, Keeps, Sound

(* The class of a small request has cells large enough.                    *)
LEMMA ClassServes ==
  ASSUME NEW n \in 1 .. SoaMax
  PROVE  SizeToClass(n) \in Classes /\ CellSz[SizeToClass(n)] >= n
<1> DEFINE S == {c \in Classes : CellSz[c] >= n}
<1>1. Len(CellSz) \in Classes /\ CellSz[Len(CellSz)] = SoaMax /\ SoaMax \in Nat
  BY Consts
<1>2. S # {}
  BY <1>1
<1>3. S \in SUBSET Nat
  BY Consts
<1> HIDE DEF S
<1>4. Min(S) \in S
  BY <1>2, <1>3, MinNat
<1> QED
  BY <1>4 DEF SizeToClass, S

(* What is in use is of a heap there is.                                   *)
LEMMA UseTypes ==
  ASSUME NEW m, Placed(m), NEW u \in Uses(m)
  PROVE  u.p \in Nat /\ u.n \in Nat \ {0} /\ u.heap \in DOMAIN m.heap
<1>1. CASE u \in CellUses(m)
  <2>1. PICK t \in DOMAIN m.slab : \E i \in LiveIn(m, t) : u = CellUse(m, t, i)
    BY <1>1, CellUsed
  <2>2. PICK i \in LiveIn(m, t) : u = CellUse(m, t, i)
    BY <2>1
  <2> QED
    BY <2>2, CellUseIs, SlabPlace
<1>2. CASE u \in BlockUses(m)
  <2>1. PICK b \in DOMAIN m.block : u = BlockUse(m, b)
    BY <1>2, BlockUsed
  <2> QED
    BY <2>1, BlockUseIs DEF Placed, BlocksOK
<1> QED
  BY <1>1, <1>2 DEF Uses

(* __HeapSoaAlloc                                                          *)
LEMMA SoaServes ==
  ASSUME NEW m, Good(m), NEW h \in DOMAIN m.heap, NEW n \in 1 .. SoaMax
  PROVE  Served(m, SoaAlloc(m, h, n), h, n)
<1> DEFINE c == SizeToClass(n)
           s == ScbGetOrCreate(m, h)
           x == SlabCreate(s.m, h, c)
           L == [x EXCEPT !.m.heap[h].partial[c] = <<x.p>>]
           head == Head(s.m.heap[h].partial[c])
<1>1. c \in Classes /\ CellSz[c] >= n /\ CellSz[c] \in Nat /\ n \in Nat
  BY ClassServes, Consts
<1>2. SoaAlloc(m, h, n) =
        IF s.p = Null THEN s
        ELSE IF s.m.heap[h].partial[c] # <<>> THEN
               IF head = Null THEN Outcome(s.m, head) ELSE PopCell(s.m, h, c, head)
        ELSE IF x.p = Null THEN x
        ELSE IF L.p = Null THEN L ELSE PopCell(L.m, h, c, L.p)
  <2> DEFINE w == Outcome(s.m, head)
             u == IF s.m.heap[h].partial[c] # <<>> THEN w ELSE IF x.p = Null THEN x ELSE L
             v == IF s.p = Null THEN s ELSE u
  <2>1. SoaAlloc(m, h, n) = IF v.p = Null THEN v ELSE PopCell(v.m, h, c, v.p)
    BY Zenon DEF SoaAlloc, Then
  <2>2. w.p = head /\ w.m = s.m /\ w = Outcome(s.m, head)
    BY DEF Outcome
  <2> HIDE DEF s, x, L, head, c, w
  <2>3. CASE s.p = Null
    BY <2>1, <2>3
  <2>4. CASE s.p # Null /\ s.m.heap[h].partial[c] # <<>>
    BY <2>1, <2>2, <2>4
  <2>5. CASE s.p # Null /\ ~ (s.m.heap[h].partial[c] # <<>>) /\ x.p = Null
    BY <2>1, <2>5
  <2>6. CASE s.p # Null /\ ~ (s.m.heap[h].partial[c] # <<>>) /\ x.p # Null
    BY <2>1, <2>6
  <2> QED
    BY <2>3, <2>4, <2>5, <2>6, Zenon
<1> HIDE DEF c
<1>3. \/ s.p = Null /\ s.m = m
      \/ s.p # Null /\ Quiet(m, s.m)
  BY ScbIsQuiet DEF Good
<1> DEFINE k == s.m
<1>4. CASE s.p = Null
  <2>1. Sound(m, m)
    BY DEF Sound, SameHeaps
  <2> QED
    BY <1>2, <1>3, <1>4, <2>1 DEF Served
<1>5. ASSUME s.p # Null
      PROVE  /\ Sound(m, k) /\ Uses(k) = Uses(m) /\ CellUses(k) = CellUses(m)
             /\ Good(k) /\ h \in DOMAIN k.heap
  <2> HIDE DEF s
  <2>1. Sound(m, k) /\ Uses(k) = Uses(m) /\ CellUses(k) = CellUses(m)
    BY <1>3, <1>5, QuietSound
  <2> QED
    BY <2>1 DEF Sound, SameHeaps
<1>6. ASSUME NEW l, Good(l), SameHeaps(m, l), Uses(l) = Uses(m), CellUses(l) = CellUses(m),
             NEW t \in Roomy(l, h, c), NoEmpty(m, {}) => NoEmpty(l, {t})
      PROVE  Served(m, PopCell(l, h, c, t), h, n)
  <2> DEFINE o == PopCell(l, h, c, t)
  <2>1. Good(l) /\ SameHeaps(m, l) /\ h \in DOMAIN l.heap
    BY <1>6 DEF Sound, SameHeaps
  <2>2. /\ Good(o.m) /\ SameHeaps(l, o.m) /\ (NoEmpty(l, {t}) => NoEmpty(o.m, {}))
        /\ o.p # Null /\ Gives(l, o, h, CellSz[c]) /\ CellUses(l) \subseteq CellUses(o.m)
    BY <1>1, <2>1, CellPopped
  <2> HIDE DEF o
  <2>3. Sound(m, o.m)
    BY <1>6, <2>1, <2>2, SameTrans DEF Sound
  <2>4. PICK u : /\ u.p = o.p /\ u.n >= CellSz[c] /\ u.heap = h
                 /\ u \notin Uses(l) /\ Uses(o.m) = Uses(l) \cup {u}
    BY <2>2 DEF Gives
  <2>5. Gives(m, o, h, n)
    <3>1. u.n >= n
      <4>1. u \in CellUses(o.m) \/ u \in BlockUses(o.m)
        BY <2>4 DEF Uses
      <4>2. u.n \in Nat
        BY <2>2, <4>1, UseTypes DEF Good, Uses
      <4> QED
        BY <1>1, <2>4, <4>2
    <3> QED
      BY <1>6, <2>4, <3>1 DEF Gives
  <2> QED
    BY <1>6, <2>2, <2>3, <2>5 DEF Served, o
<1>7. CASE s.p # Null /\ k.heap[h].partial[c] # <<>>
  <2>1. /\ Sound(m, k) /\ Uses(k) = Uses(m) /\ CellUses(k) = CellUses(m)
        /\ Good(k) /\ h \in DOMAIN k.heap
    BY <1>5, <1>7
  <2>a. Placed(k) /\ Memory(k) /\ ListsOK(k, {})
    BY <2>1 DEF Good, Placed
  <2>b. k.heap[h].partial[c] \in Seq(Nat)
    BY <1>1, <2>1, <2>a, Types
  <2>c. ToSet(k.heap[h].partial[c]) = Roomy(k, h, c) \ {}
    BY <1>1, <2>1, <2>a DEF ListsOK
  <2>2. ToSet(k.heap[h].partial[c]) = Roomy(k, h, c) /\ k.heap[h].partial[c] \in Seq(Nat)
    BY <2>b, <2>c
  <2>3. head \in Roomy(k, h, c)
    BY <1>7, <2>2, TailSet
  <2>4. head # Null
    BY <2>1, <2>3, SlabPlace DEF Roomy, SlabsOf, Good
  <2>5. SoaAlloc(m, h, n) = PopCell(k, h, c, head)
    BY <1>2, <1>7, <2>4
  <2>6. NoEmpty(m, {}) => NoEmpty(k, {head})
    <3> HIDE DEF k, head
    <3> QED
      BY <2>1 DEF Sound, NoEmpty
  <2> HIDE DEF k, head, L
  <2> QED
    BY <1>6, <2>1, <2>3, <2>5, <2>6 DEF Sound
<1>8. CASE s.p # Null /\ k.heap[h].partial[c] = <<>>
  <2>1. /\ Sound(m, k) /\ Uses(k) = Uses(m) /\ CellUses(k) = CellUses(m)
        /\ Good(k) /\ h \in DOMAIN k.heap
    BY <1>5, <1>8
  <2> HIDE DEF s
  <2>2. /\ x = Outcome(x.m, x.p) \/ (x.p = Null /\ x.m = k)
        /\ \/ x.p = Null /\ x.m = k
           \/ /\ x.p # Null /\ NewSlab(k, x.m, h, c, x.p)
              /\ NoEmpty(k, {}) => NoEmpty(x.m, {x.p})
    BY <1>1, <2>1, SlabCreated
  <2> HIDE DEF x
  <2>3. CASE x.p = Null
    <3>1. SoaAlloc(m, h, n) = x
      BY <1>2, <1>8, <2>3
    <3>2. x.m = k
      BY <2>2, <2>3
    <3> HIDE DEF k
    <3> QED
      BY <2>1, <2>3, <3>1, <3>2 DEF Served
  <2>4. CASE x.p # Null
    <3> DEFINE t == x.p
               l == [x.m EXCEPT !.heap[h].partial[c] = <<t>>]
    <3>1. L = Outcome(l, t)
      BY <2>2, <2>4 DEF Outcome
    <3>2. /\ Good(l) /\ SameHeaps(k, l) /\ Uses(l) = Uses(k) /\ t \in Roomy(l, h, c)
          /\ CellUses(l) = CellUses(k)
          /\ NoEmpty(x.m, {t}) => NoEmpty(l, {t})
      BY <1>1, <1>8, <2>1, <2>2, <2>4, SlabListed
    <3> HIDE DEF l
    <3>3. L.m = l /\ L.p = t
      BY <3>1 DEF Outcome
    <3>4. SoaAlloc(m, h, n) = PopCell(l, h, c, t)
      BY <1>2, <1>8, <2>4, <3>3
    <3>5. SameHeaps(m, l) /\ Uses(l) = Uses(m) /\ CellUses(l) = CellUses(m)
      BY <2>1, <3>2, SameTrans DEF Sound
    <3>6. NoEmpty(m, {}) => NoEmpty(l, {t})
      BY <2>1, <2>2, <2>4, <3>2 DEF Sound
    <3> HIDE DEF k, L
    <3> QED
      BY <1>6, <3>2, <3>3, <3>4, <3>5, <3>6
  <2> QED
    BY <2>3, <2>4
<1> QED
  BY <1>4, <1>7, <1>8

(* _HeapAlloc of what the small pool does not serve.                       *)
LEMMA BlockServes ==
  ASSUME NEW m, Good(m), NEW h \in DOMAIN m.heap, NEW n \in Nat \ {0}
  PROVE  Served(m, Carve(m, h, n), h, n)
<1> DEFINE o == Carve(m, h, n)
<1>1. \/ o = Outcome(m, Null)
      \/ /\ o = Outcome(o.m, o.p)
         /\ \E b, s : o.p = b + 1 /\ s >= n + 1 /\ Took(m, o.m, h, b, s)
  BY CarveTakes DEF Good
<1> HIDE DEF o
<1>2. CASE o = Outcome(m, Null)
  <2>1. o.m = m /\ o.p = Null
    BY <1>2 DEF Outcome
  <2>2. Sound(m, m)
    BY DEF Sound, SameHeaps
  <2> QED
    BY <2>1, <2>2 DEF Served, o
<1>3. CASE o # Outcome(m, Null)
  <2>1. PICK b, s : o.p = b + 1 /\ s >= n + 1 /\ Took(m, o.m, h, b, s)
    BY <1>1, <1>3
  <2> DEFINE k == o.m
             u == BlockUse(k, b)
  <2> HIDE DEF k
  <2>2. /\ Keeps(m, k) /\ SameHeaps(m, k) /\ b \in Nat /\ s \in Nat
        /\ u = Use(b + 1, s - 1, h) /\ u \notin Uses(m) /\ Uses(k) = Uses(m) \cup {u}
    BY <2>1, TookFacts DEF Good, k
  <2>3. Sound(m, k)
    BY <2>2 DEF Keeps, Sound, Good
  <2>4. u.p = o.p /\ u.n = s - 1 /\ u.heap = h
    BY <2>1, <2>2 DEF Use
  <2> HIDE DEF u
  <2>5. Gives(m, o, h, n)
    BY <2>1, <2>2, <2>4 DEF Gives, k
  <2>6. o.p # Null
    BY <2>1, <2>2 DEF Null
  <2> QED
    BY <2>2, <2>3, <2>5, <2>6 DEF Served, Keeps, k, o
<1> QED
  BY <1>2, <1>3

(* _HeapAlloc                                                              *)
LEMMA HeapServes ==
  ASSUME NEW m, Good(m), NEW h \in DOMAIN m.heap, NEW n \in Nat \ {0}
  PROVE  Served(m, HeapAlloc(m, h, n), h, n)
<1> DEFINE o == SoaAlloc(m, h, n)
<1>1. Passes(m, h)
  BY GoodValid
<1>2. CASE n \in 1 .. SoaMax
  <2>1. HeapAlloc(m, h, n) = IF o.p = Null THEN Carve(o.m, h, n) ELSE o
    BY <1>1, <1>2 DEF HeapAlloc
  <2>2. Served(m, o, h, n)
    BY <1>2, SoaServes
  <2> HIDE DEF o
  <2>3. CASE o.p = Null
    <3> DEFINE k == o.m
    <3>1. Sound(m, k) /\ Uses(k) = Uses(m) /\ CellUses(m) \subseteq CellUses(k)
      BY <2>2, <2>3 DEF Served
    <3>2. Good(k) /\ h \in DOMAIN k.heap
      BY <3>1 DEF Sound, SameHeaps
    <3> HIDE DEF k
    <3>3. Served(m, Carve(k, h, n), h, n)
      BY <3>1, <3>2, BlockServes, ServedAfter
    <3> QED
      BY <2>1, <2>3, <3>3 DEF k
  <2>4. CASE o.p # Null
    BY <2>1, <2>2, <2>4
  <2> QED
    BY <2>3, <2>4
<1>3. CASE n \notin 1 .. SoaMax
  <2>1. HeapAlloc(m, h, n) = Carve(m, h, n)
    BY <1>1, <1>3 DEF HeapAlloc, Outcome
  <2> QED
    BY <2>1, BlockServes
<1> QED
  BY <1>2, <1>3
-----------------------------------------------------------------------------
(* The lists of a heap whose record was replaced, replaced again.          *)
SetHeap(m, h, K) == [m EXCEPT !.heap[h] = K]
SetPartial(K, c, p) == [K EXCEPT !.partial[c] = p]
SetFull(K, c, f) == [K EXCEPT !.full[c] = f]

(* The record of a heap replaced twice.                                    *)
LEMMA PutAgain ==
  ASSUME NEW m, Memory(m), NEW h \in DOMAIN m.heap, NEW A, NEW S, NEW L, NEW G
  PROVE  /\ Put(m, h, L, A, S).heap[h] = L
         /\ SetHeap(Put(m, h, L, A, S), h, G) = Put(m, h, G, A, S)
<1>1. /\ m \in [heap : {m.heap}, block : {m.block}, arena : {m.arena}, slab : {m.slab}]
      /\ m.heap = [z \in DOMAIN m.heap |-> m.heap[z]]
  BY DEF Memory
<1> DEFINE g == [m.heap EXCEPT ![h] = L]
           g1 == [m.heap EXCEPT ![h] = G]
           y == [m EXCEPT !.heap = g, !.arena = A, !.slab = S]
<1>2. g[h] = L /\ [g EXCEPT ![h] = G] = g1
  BY <1>1
<1>3. Put(m, h, L, A, S) = y /\ Put(m, h, G, A, S) = [m EXCEPT !.heap = g1, !.arena = A, !.slab = S]
  BY <1>1 DEF Put
<1> HIDE DEF g, g1
<1>4. y.heap = g /\ y.slab = S /\ y.arena = A
  BY <1>1
<1>5. SetHeap(y, h, G) = [y EXCEPT !.heap = [g EXCEPT ![h] = G]]
  <2> HIDE DEF y
  <2> QED
    BY <1>4 DEF SetHeap
<1>6. [y EXCEPT !.heap = g1] = [m EXCEPT !.heap = g1, !.arena = A, !.slab = S]
  BY <1>1
<1> HIDE DEF y
<1> QED
  BY <1>2, <1>3, <1>4, <1>5, <1>6

(* The lists of a class replaced twice.                                    *)
LEMMA RelistsAgain ==
  ASSUME NEW H \in HeapRec, NEW c \in Classes, NEW P, NEW F, NEW n, NEW p, NEW f
  PROVE  LET K == Relists(H, c, P, F, n)
         IN  /\ K.partial[c] = P /\ K.full[c] = F
             /\ SetPartial(K, c, p) = Relists(H, c, p, F, n)
             /\ SetFull(K, c, f) = Relists(H, c, P, f, n)
<1>1. H.full \in [Classes -> Seq(Nat)] /\ H.partial \in [Classes -> Seq(Nat)]
  BY DEF HeapRec
<1> DEFINE p1 == [H.partial EXCEPT ![c] = P]
           p2 == [H.partial EXCEPT ![c] = p]
           f1 == [H.full EXCEPT ![c] = F]
           f2 == [H.full EXCEPT ![c] = f]
           L == [H EXCEPT !.partial = p1, !.full = f1, !.cells = n]
<1>2. [p1 EXCEPT ![c] = p] = p2 /\ p1[c] = P /\ [f1 EXCEPT ![c] = f] = f2 /\ f1[c] = F
  BY <1>1
<1>3. /\ Relists(H, c, P, F, n) = L
      /\ Relists(H, c, p, F, n) = [H EXCEPT !.partial = p2, !.full = f1, !.cells = n]
      /\ Relists(H, c, P, f, n) = [H EXCEPT !.partial = p1, !.full = f2, !.cells = n]
  BY DEF Relists, HeapRec
<1> HIDE DEF p1, p2, f1, f2
<1>4. L.partial = p1 /\ L.full = f1
  BY DEF HeapRec
<1>5. SetPartial(L, c, p) = [L EXCEPT !.partial = p2] /\ SetFull(L, c, f) = [L EXCEPT !.full = f2]
  <2> HIDE DEF L
  <2> QED
    BY <1>2, <1>4 DEF SetPartial, SetFull
<1>6. /\ [L EXCEPT !.partial = p2] = [H EXCEPT !.partial = p2, !.full = f1, !.cells = n]
      /\ [L EXCEPT !.full = f2] = [H EXCEPT !.partial = p1, !.full = f2, !.cells = n]
  BY DEF HeapRec
<1> HIDE DEF L
<1> QED
  BY <1>2, <1>3, <1>4, <1>5, <1>6

(* What a change of a tile and of its class's lists leaves, changed again. *)
Grown(s, i) == [s EXCEPT !.list = <<i>> \o @, !.free = @ + 1]

(* PushCell replaces a free list and a count.                              *)
LEMMA PushIs ==
  ASSUME NEW m, Memory(m), NEW t \in DOMAIN m.slab, NEW h \in DOMAIN m.heap, h = m.slab[t].heap,
         NEW c \in Classes, c = m.slab[t].cls, NEW i, NEW H, H = m.heap[h]
  PROVE  PushCell(m, h, t, i)
           = TilePut(m, t, Grown(m.slab[t], i), H.partial[c], H.full[c], H.cells - 1)
<1> DEFINE s == m.slab[t]
           r == Grown(s, i)
           S == [m.slab EXCEPT ![t] = r]
           K == [H EXCEPT !.cells = H.cells - 1]
           G == [m.heap EXCEPT ![h] = K]
           pushed == PushCell(m, h, t, i)
           R == Relists(H, c, H.partial[c], H.full[c], H.cells - 1)
<1>0. /\ m \in [heap : {m.heap}, block : {m.block}, arena : {m.arena}, slab : {m.slab}]
      /\ m.heap = [z \in DOMAIN m.heap |-> m.heap[z]] /\ m.slab = [z \in DOMAIN m.slab |-> m.slab[z]]
      /\ m.slab[t] \in SlabRec /\ H \in HeapRec
  BY DEF Memory
<1>1. [m.slab EXCEPT ![t].list = <<i>> \o @, ![t].free = @ + 1] = S
  BY <1>0 DEF SlabRec, Grown
<1>2. pushed = [m EXCEPT !.heap = [m.heap EXCEPT ![h].cells = @ - 1],
                         !.slab = [m.slab EXCEPT ![t].list = <<i>> \o @, ![t].free = @ + 1]]
  BY <1>0 DEF PushCell
<1>3. [m.heap EXCEPT ![h].cells = @ - 1] = G
  BY <1>0
<1>4. Put(m, h, K, m.arena, S) = [m EXCEPT !.heap = G, !.slab = S]
  <2> HIDE DEF K, S
  <2> QED
    BY <1>0 DEF Put
<1>5. R = K
  <2>1. H.full \in [Classes -> Seq(Nat)] /\ H.partial \in [Classes -> Seq(Nat)]
    BY <1>0 DEF HeapRec
  <2>2. [H.full EXCEPT ![c] = H.full[c]] = H.full /\ [H.partial EXCEPT ![c] = H.partial[c]] = H.partial
    BY <2>1, Zenon
  <2> DEFINE n == H.cells - 1
  <2> HIDE DEF n
  <2>3. [H EXCEPT !.partial = H.partial, !.full = H.full, !.cells = n] = [H EXCEPT !.cells = n]
    BY <1>0, Zenon DEF HeapRec
  <2>4. Relists(H, c, H.partial[c], H.full[c], n) = [H EXCEPT !.cells = n]
    BY <2>2, <2>3, Zenon DEF Relists
  <2> QED
    BY <2>4 DEF n
<1>6. TilePut(m, t, r, H.partial[c], H.full[c], H.cells - 1) = Put(m, h, R, m.arena, S)
  BY DEF TilePut
<1> HIDE DEF pushed, G, S, K, R
<1>7. pushed = [m EXCEPT !.heap = G, !.slab = S]
  BY <1>1, <1>2, <1>3
<1> QED
  BY <1>4, <1>5, <1>6, <1>7 DEF pushed

(* Relist and Unlist replace the lists of a class.                         *)
LEMMA ListsAgain ==
  ASSUME NEW m, Memory(m), NEW t \in DOMAIN m.slab, NEW h \in DOMAIN m.heap, h = m.slab[t].heap,
         NEW c \in Classes, c = m.slab[t].cls, NEW r, NEW P, NEW F, NEW n
  PROVE  LET q == TilePut(m, t, r, P, F, n)
         IN  /\ Relist(q, h, t, c) = TilePut(m, t, r, <<t>> \o P, RemoveFirst(F, t), n)
             /\ Unlist(q, h, t, c) = TilePut(m, t, r, RemoveFirst(P, t), F, n)
<1> DEFINE H == m.heap[h]
           S == [m.slab EXCEPT ![t] = r]
           T(p, f) == Put(m, h, Relists(H, c, p, f, n), m.arena, S)
           q == T(P, F)
           f1 == RemoveFirst(F, t)
           q1 == T(P, f1)
           p1 == RemoveFirst(P, t)
<1>0. H \in HeapRec
  BY DEF Memory
<1>1. \A p, f : TilePut(m, t, r, p, f, n) = T(p, f)
  BY DEF TilePut
<1>2. \A p, f : /\ T(p, f).heap[h] = Relists(H, c, p, f, n)
                /\ \A G : SetHeap(T(p, f), h, G) = Put(m, h, G, m.arena, S)
  <2> HIDE DEF S, H
  <2> QED
    BY PutAgain
<1>3. \A p, f, x : LET K == Relists(H, c, p, f, n)
                   IN  /\ K.partial[c] = p /\ K.full[c] = f
                       /\ SetPartial(K, c, x) = Relists(H, c, x, f, n)
                       /\ SetFull(K, c, x) = Relists(H, c, p, x, n)
  <2> HIDE DEF H
  <2> QED
    BY <1>0, RelistsAgain
<1> DEFINE GetP(y) == y.heap[h].partial[c]
           GetF(y) == y.heap[h].full[c]
           PutP(y, x) == SetHeap(y, h, SetPartial(y.heap[h], c, x))
           PutF(y, x) == SetHeap(y, h, SetFull(y.heap[h], c, x))
           w == <<t>> \o P
<1>4. \A p, f, x : /\ GetP(T(p, f)) = p /\ GetF(T(p, f)) = f
                   /\ PutP(T(p, f), x) = T(x, f) /\ PutF(T(p, f), x) = T(p, x)
  <2> SUFFICES ASSUME NEW p, NEW f, NEW x
               PROVE  /\ GetP(T(p, f)) = p /\ GetF(T(p, f)) = f
                      /\ PutP(T(p, f), x) = T(x, f) /\ PutF(T(p, f), x) = T(p, x)
    OBVIOUS
  <2> DEFINE K == Relists(H, c, p, f, n)
             y == T(p, f)
  <2> HIDE DEF S, H
  <2>1. y.heap[h] = K
    BY <1>2
  <2>4. \A G : SetHeap(y, h, G) = Put(m, h, G, m.arena, S)
    BY <1>2
  <2>2. /\ K.partial[c] = p /\ K.full[c] = f
        /\ SetPartial(K, c, x) = Relists(H, c, x, f, n) /\ SetFull(K, c, x) = Relists(H, c, p, x, n)
    BY <1>3
  <2> HIDE DEF K, y
  <2>3. GetP(y) = p /\ GetF(y) = f /\ PutP(y, x) = T(x, f) /\ PutF(y, x) = T(p, x)
    BY <2>1, <2>2, <2>4, Zenon
  <2> HIDE DEF GetP, GetF, PutP, PutF
  <2> QED
    BY <2>3, Zenon DEF y
<1>5. \A y : Unlist(y, h, t, c) = SetHeap(y, h, SetPartial(y.heap[h], c, RemoveFirst(y.heap[h].partial[c], t)))
  BY DEF Unlist, SetHeap, SetPartial
<1> DEFINE Z(y) == SetHeap(y, h, SetFull(y.heap[h], c, RemoveFirst(y.heap[h].full[c], t)))
           W(z) == SetHeap(z, h, SetPartial(z.heap[h], c, <<t>> \o z.heap[h].partial[c]))
<1>6. ASSUME NEW y, Z(y).heap[h].partial[c] = y.heap[h].partial[c]
      PROVE  Relist(y, h, t, c) = W(Z(y))
  <2> DEFINE z == Z(y)
  <2> DEFINE f == RemoveFirst(y.heap[h].full[c], t)
             y1 == [y EXCEPT !.heap[h].full[c] = f]
  <2>0. Relist(y, h, t, c) = [y EXCEPT !.heap[h].full[c] = f, !.heap[h].partial[c] = <<t>> \o @]
    BY DEF Relist
  <2>2. y1 = z
    BY <1>6 DEF SetHeap, SetFull
  <2>1. Relist(y, h, t, c) = [y1 EXCEPT !.heap[h].partial[c] = <<t>> \o y1.heap[h].partial[c]]
    <3> HIDE DEF f
    <3>1. y1.heap[h].partial[c] = y.heap[h].partial[c]
      BY <1>6, <2>2, Zenon
    <3>2. [y EXCEPT !.heap[h].full[c] = f, !.heap[h].partial[c] = <<t>> \o @]
            = [y1 EXCEPT !.heap[h].partial[c] = <<t>> \o y1.heap[h].partial[c]]
      BY <3>1
    <3> HIDE DEF y1
    <3> QED
      BY <2>0, <3>2, Zenon
  <2> HIDE DEF y1, f, z
  <2>3. [z EXCEPT !.heap[h].partial[c] = <<t>> \o z.heap[h].partial[c]]
          = SetHeap(z, h, SetPartial(z.heap[h], c, <<t>> \o z.heap[h].partial[c]))
    BY DEF SetHeap, SetPartial
  <2> QED
    BY <2>1, <2>2, <2>3, Zenon DEF z
<1> HIDE DEF T
<1> HIDE DEF GetP, GetF, PutP, PutF, p1, f1, w
<1>12. GetP(q) = P /\ GetF(q) = F /\ PutP(q, p1) = T(p1, F) /\ PutF(q, f1) = q1
  BY <1>4
<1>13. GetP(q1) = P /\ PutP(q1, w) = T(w, f1)
  BY <1>4
<1> HIDE DEF q, q1
<1>9. /\ q.heap[h].partial[c] = P /\ q.heap[h].full[c] = F
      /\ SetHeap(q, h, SetPartial(q.heap[h], c, p1)) = T(p1, F)
      /\ SetHeap(q, h, SetFull(q.heap[h], c, f1)) = q1
  BY <1>12, Zenon DEF GetP, GetF, PutP, PutF
<1>10. /\ q1.heap[h].partial[c] = P
       /\ SetHeap(q1, h, SetPartial(q1.heap[h], c, <<t>> \o P)) = T(<<t>> \o P, f1)
  BY <1>13, Zenon DEF GetP, PutP, w
<1> USE DEF p1, f1
<1> HIDE DEF q, q1
<1>7. Unlist(q, h, t, c) = T(p1, F)
  <2>1. Unlist(q, h, t, c) = SetHeap(q, h, SetPartial(q.heap[h], c, RemoveFirst(q.heap[h].partial[c], t)))
    BY <1>5, Zenon
  <2> QED
    BY <1>9, <2>1, Zenon
<1>8. Relist(q, h, t, c) = T(<<t>> \o P, f1)
  <2>2. q1 = SetHeap(q, h, SetFull(q.heap[h], c, RemoveFirst(q.heap[h].full[c], t)))
    BY <1>9, Zenon
  <2>4. q1.heap[h].partial[c] = P
    BY <1>10, Zenon
  <2>5. q.heap[h].partial[c] = P
    BY <1>9, Zenon
  <2>3. Relist(q, h, t, c) = SetHeap(q1, h, SetPartial(q1.heap[h], c, <<t>> \o q1.heap[h].partial[c]))
    <3>1. q1.heap[h].partial[c] = q.heap[h].partial[c]
      BY <2>4, <2>5
    <3>2. q1 = Z(q)
      BY <2>2
    <3>3. W(q1) = SetHeap(q1, h, SetPartial(q1.heap[h], c, <<t>> \o q1.heap[h].partial[c]))
      OBVIOUS
    <3> HIDE DEF H, f1, Z, W
    <3> QED
      BY <1>6, <3>1, <3>2, <3>3, Zenon
  <2> QED
    BY <1>10, <2>3, <2>4, Zenon
<1> QED
  BY <1>1, <1>7, <1>8, Zenon DEF q

(* A live cell goes back on its free list: a slab that was full is partial *)
(* again, and one without a live cell leaves the lists and is released.    *)
Returned(m, k, t, i) ==
  /\ Placed(k) /\ SameHeaps(m, k) /\ k.arena = m.arena /\ k.block = m.block
  /\ Uses(k) = Uses(m) \ {CellUse(m, t, i)} /\ DOMAIN k.slab = DOMAIN m.slab
  /\ \A s \in DOMAIN m.slab \ {t} : k.slab[s] = m.slab[s]
  /\ k.slab[t].heap = m.slab[t].heap /\ k.slab[t].total = m.slab[t].total
  /\ k.slab[t].arena = m.slab[t].arena

(* The slab stays, or is off its list and released.                        *)
Settled(k, o, h, t, p) ==
  \/ o = Outcome(k, p) /\ ListsOK(k, {}) /\ k.slab[t].free < k.slab[t].total
  \/ o = Outcome(SlabRelease(k, h, t), p) /\ ListsOK(k, {t}) /\ k.slab[t].free = k.slab[t].total

(* __HeapSoaFree up to the release of an empty slab.                       *)
LEMMA CellReturned ==
  ASSUME NEW m, Good(m), NEW t \in DOMAIN m.slab, NEW i \in LiveIn(m, t), NEW p,
         p = CellAt(m, t, i), NEW h, h = m.slab[t].heap, NEW tag
  PROVE  \E k : Returned(m, k, t, i) /\ Settled(k, SoaFree(m, h, t, p, tag), h, t, p)
<1> DEFINE s == m.slab[t]
           c == s.cls
           H == m.heap[h]
           x == s.free + 1
           n == H.cells - 1
           list == <<i>> \o s.list
           r == [s EXCEPT !.list = list, !.free = x]
           P0 == IF s.free = 0 THEN <<t>> \o H.partial[c] ELSE H.partial[c]
           F == IF s.free = 0 THEN RemoveFirst(H.full[c], t) ELSE H.full[c]
           P == IF x = s.total THEN RemoveFirst(P0, t) ELSE P0
           k == TilePut(m, t, r, P, F, n)
           l == TilePut(m, t, r, P0, F, n)
           Y == IF x = s.total THEN {t} ELSE {}
           o == SoaFree(m, h, t, p, tag)
<1>0. Placed(m) /\ ListsOK(m, {}) /\ Memory(m)
  BY DEF Good, Placed
<1>1. h \in DOMAIN m.heap /\ c \in Classes
  BY <1>0, SlabPlace
<1>2. /\ s \in SlabRec /\ t \in Nat /\ H \in HeapRec /\ H.partial[c] \in Seq(Nat) /\ H.full[c] \in Seq(Nat)
      /\ H.cells \in Nat /\ s.list \in Seq(Nat) /\ s.free \in Nat /\ s.total \in Nat
  BY <1>0, <1>1, Types
<1>3. /\ s.free = Len(s.list) /\ Once(s.list) /\ ToSet(s.list) \subseteq 0 .. s.total - 1
      /\ i \in 0 .. s.total - 1 /\ i \notin ToSet(s.list) /\ i \in Nat
  BY <1>0 DEF Placed, SlabsOK, LiveIn
<1>4. /\ Once(H.partial[c]) /\ ToSet(H.partial[c]) = Roomy(m, h, c)
      /\ Once(H.full[c]) /\ ToSet(H.full[c]) = Full(m, h, c)
      /\ H.cells = Cardinality(CellsIn(m, h))
  <2>1. /\ Once(H.partial[c]) /\ ToSet(H.partial[c]) = Roomy(m, h, c) \ {}
        /\ Once(H.full[c]) /\ ToSet(H.full[c]) = Full(m, h, c) \ {}
        /\ H.cells = Cardinality(CellsIn(m, h))
    BY <1>0, <1>1 DEF ListsOK, CellsIn
  <2> QED
    BY <2>1, Zenon
<1>5. /\ list \in Seq(Nat) /\ ToSet(list) = ToSet(s.list) \cup {i} /\ Len(list) = x /\ Once(list)
  <2> DEFINE L == s.list
  <2>1. L \in Seq(Nat) /\ i \notin ToSet(L) /\ Once(L) /\ i \in Nat
    BY <1>2, <1>3
  <2> HIDE DEF L
  <2>2. /\ <<i>> \o L \in Seq(Nat) /\ ToSet(<<i>> \o L) = {i} \cup ToSet(L)
        /\ Len(<<i>> \o L) = Len(L) + 1 /\ Once(<<i>> \o L)
    BY <2>1, ConsSet
  <2> QED
    BY <1>3, <2>2 DEF L
<1>6. x <= s.total /\ x \in Nat
  <2>1. ToSet(list) \subseteq 0 .. s.total - 1
    BY <1>3, <1>5
  <2>2. Cardinality(ToSet(list)) = x
    BY <1>5, OnceLen
  <2> HIDE DEF list, x, s
  <2>3. Cardinality(ToSet(list)) <= s.total
    BY <1>2, <2>1, NatInterval
  <2> QED
    BY <1>2, <2>2, <2>3 DEF x
<1>7. ~ FoundFree(s, i)
  <2>2. ~ (Len(s.list) >= s.total)
    <3> DEFINE y == Len(s.list)
               z == s.total
               a == s.free
    <3>3. y = a
      BY <1>3, Zenon
    <3>4. a \in Nat /\ z \in Nat
      BY <1>2, Zenon
    <3>5. a + 1 <= z
      BY <1>6, Zenon
    <3> HIDE DEF y, z, a
    <3>1. y < z /\ y \in Nat /\ z \in Nat
      BY <3>3, <3>4, <3>5
    <3>2. ~ (y >= z)
      BY <3>1
    <3> QED
      BY <3>2 DEF y, z
  <2> QED
    BY <1>3, <2>2, Zenon DEF FoundFree
<1>8. CellIndex(m, t, p) = i
  BY <1>0, <1>3, CellPtr
<1> DEFINE u == CellUse(m, t, i)
<1>9. u \in CellsIn(m, h) /\ IsFiniteSet(CellsIn(m, h)) /\ n \in Nat
  <2>1. u \in CellsIn(m, h)
    BY <1>0, <1>3, CellIsUse DEF CellsIn
  <2>2. IsFiniteSet(CellsIn(m, h))
    BY <1>0, CellsInFinite
  <2> DEFINE C == CellsIn(m, h)
  <2> HIDE DEF C, u
  <2>3. Cardinality(C) \in Nat /\ Cardinality(C) # 0
    BY <2>1, <2>2, FS_CardinalityType, FS_EmptySet DEF C
  <2>4. H.cells \in Nat /\ H.cells # 0
    BY <1>4, <2>3, Zenon DEF C
  <2>5. u \in C /\ IsFiniteSet(C)
    BY <2>1, <2>2 DEF C
  <2> HIDE DEF H
  <2> QED
    BY <2>4, <2>5 DEF C
<1>10. /\ P0 \in Seq(Nat) /\ Once(P0) /\ ToSet(P0) = (Roomy(m, h, c) \ {t}) \cup {t}
       /\ F \in Seq(Nat) /\ Once(F) /\ ToSet(F) = Full(m, h, c) \ {t}
  <2>0. /\ s.free = 0 => t \notin Roomy(m, h, c) /\ t \in Full(m, h, c)
        /\ s.free # 0 => t \in Roomy(m, h, c) /\ t \notin Full(m, h, c)
    BY <1>0 DEF Roomy, Full, SlabsOf
  <2>1. CASE s.free = 0
    <3> DEFINE L == H.partial[c]
               M == H.full[c]
    <3>1. /\ L \in Seq(Nat) /\ Once(L) /\ t \notin ToSet(L) /\ ToSet(L) = Roomy(m, h, c)
          /\ M \in Seq(Nat) /\ Once(M) /\ t \in ToSet(M) /\ ToSet(M) = Full(m, h, c)
      BY <1>2, <1>4, <2>0, <2>1, Zenon
    <3>2. P0 = <<t>> \o L /\ F = RemoveFirst(M, t)
      BY <2>1
    <3> HIDE DEF L, M
    <3>3. <<t>> \o L \in Seq(Nat) /\ ToSet(<<t>> \o L) = {t} \cup ToSet(L) /\ Once(<<t>> \o L)
      BY <1>2, <3>1, ConsSet
    <3>4. /\ RemoveFirst(M, t) \in Seq(Nat) /\ Once(RemoveFirst(M, t))
          /\ ToSet(RemoveFirst(M, t)) = ToSet(M) \ {t}
      BY <3>1, UnlinkSet
    <3> HIDE DEF P0, F
    <3> QED
      BY <3>1, <3>2, <3>3, <3>4, Zenon
  <2>2. CASE s.free # 0
    BY <1>2, <1>4, <2>0, <2>2, Zenon
  <2> QED
    BY <2>1, <2>2, Zenon
<1>11. /\ P \in Seq(Nat) /\ Once(P)
       /\ ToSet(P) = (Roomy(m, h, c) \ {t}) \cup (IF t \notin Y THEN {t} ELSE {})
  <2>1. CASE x = s.total
    <3> HIDE DEF P0
    <3>1. t \in ToSet(P0)
      BY <1>10, Zenon
    <3>7. P0 \in Seq(Nat) /\ Once(P0)
      BY <1>10, Zenon
    <3>2. /\ RemoveFirst(P0, t) \in Seq(Nat) /\ Once(RemoveFirst(P0, t))
          /\ ToSet(RemoveFirst(P0, t)) = ToSet(P0) \ {t}
      BY <3>1, <3>7, UnlinkSet
    <3>3. P = RemoveFirst(P0, t) /\ Y = {t}
      BY <2>1
    <3>4. ToSet(P0) = (Roomy(m, h, c) \ {t}) \cup {t}
      BY <1>10, Zenon
    <3> HIDE DEF P, Y, P0
    <3>5. ToSet(P) = Roomy(m, h, c) \ {t}
      BY <3>2, <3>3, <3>4, Zenon
    <3>6. (IF t \notin Y THEN {t} ELSE {}) = {}
      BY <3>3, Zenon
    <3> QED
      BY <3>2, <3>3, <3>5, <3>6, Zenon
  <2>2. CASE x # s.total
    <3>1. P = P0 /\ Y = {}
      BY <2>2
    <3> HIDE DEF P, Y, P0
    <3> QED
      BY <1>10, <3>1, Zenon
  <2> QED
    BY <2>1, <2>2, Zenon
<1>12. o = Outcome(IF x # s.total THEN k ELSE SlabRelease(k, h, t), p)
  <2> DEFINE pushed == PushCell(m, h, t, i)
             listed == IF x # 1 THEN pushed ELSE Relist(pushed, h, t, c)
  <2>0. Memory(m) /\ t \in DOMAIN m.slab /\ h \in DOMAIN m.heap /\ h = m.slab[t].heap
        /\ c \in Classes /\ c = m.slab[t].cls /\ H = m.heap[h]
    BY <1>0, <1>1
  <2>1. o = Outcome(IF x # s.total THEN listed ELSE SlabRelease(Unlist(listed, h, t, c), h, t), p)
    <3> DEFINE j == CellIndex(m, t, p)
    <3>1. o = LET p2 == PushCell(m, h, t, j)
                  l2 == IF x # 1 THEN p2 ELSE Relist(p2, h, t, c)
              IN  IF tag /\ FoundFree(s, j) THEN Outcome(m, Null)
                  ELSE Outcome(IF x # s.total THEN l2 ELSE SlabRelease(Unlist(l2, h, t, c), h, t), p)
      BY DEF SoaFree
    <3>2. j = i
      BY <1>8
    <3> HIDE DEF j, o, x, s, c, H
    <3> QED
      BY <1>7, <3>1, <3>2
  <2>2. pushed = TilePut(m, t, r, H.partial[c], H.full[c], n)
    <3>1. r = Grown(s, i) /\ n = H.cells - 1
      BY DEF Grown
    <3>2. s = m.slab[t]
      OBVIOUS
    <3> HIDE DEF r, n, H, c, s
    <3> QED
      BY <2>0, <3>1, <3>2, PushIs
  <2> DEFINE p1 == <<t>> \o H.partial[c]
             f1 == RemoveFirst(H.full[c], t)
             p2 == RemoveFirst(P0, t)
  <2>3. x = 1 <=> s.free = 0
    BY <1>2
  <2>4. P0 = (IF s.free = 0 THEN p1 ELSE H.partial[c]) /\ F = (IF s.free = 0 THEN f1 ELSE H.full[c])
        /\ P = (IF x = s.total THEN p2 ELSE P0)
    OBVIOUS
  <2>5. k = TilePut(m, t, r, P, F, n) /\ l = TilePut(m, t, r, P0, F, n)
    OBVIOUS
  <2> HIDE DEF P0, F, P, k, l, r, n, x, pushed, H, s, c, o
  <2>6. listed = l
    <3>1. Relist(TilePut(m, t, r, H.partial[c], H.full[c], n), h, t, c) = TilePut(m, t, r, p1, f1, n)
      <4> DEFINE y == H.partial[c]
                 v == H.full[c]
      <4>1. p1 = <<t>> \o y /\ f1 = RemoveFirst(v, t)
        OBVIOUS
      <4> HIDE DEF y, v, p1, f1
      <4>2. Relist(TilePut(m, t, r, y, v, n), h, t, c) = TilePut(m, t, r, <<t>> \o y, RemoveFirst(v, t), n)
        BY <2>0, ListsAgain
      <4> QED
        BY <4>1, <4>2, Zenon DEF y, v
    <3>2. listed = IF x # 1 THEN pushed ELSE Relist(pushed, h, t, c)
      OBVIOUS
    <3> HIDE DEF p1, f1, listed
    <3>3. CASE s.free = 0
      <4>1. listed = TilePut(m, t, r, p1, f1, n)
        BY <2>2, <2>3, <3>1, <3>2, <3>3, Zenon
      <4>2. P0 = p1 /\ F = f1
        BY <2>4, <3>3, Zenon
      <4> QED
        BY <2>5, <4>1, <4>2, Zenon
    <3>4. CASE s.free # 0
      <4>1. P0 = H.partial[c] /\ F = H.full[c]
        BY <2>4, <3>4, Zenon
      <4> QED
        BY <2>2, <2>3, <2>5, <3>2, <3>4, <4>1, Zenon
    <3> QED
      BY <3>3, <3>4, Zenon
  <2>7. Unlist(l, h, t, c) = TilePut(m, t, r, p2, F, n)
    <3>1. \A p0 : LET q == TilePut(m, t, r, p0, F, n)
                   IN  /\ Relist(q, h, t, c) = TilePut(m, t, r, <<t>> \o p0, RemoveFirst(F, t), n)
                       /\ Unlist(q, h, t, c) = TilePut(m, t, r, RemoveFirst(p0, t), F, n)
      BY <2>0, ListsAgain
    <3> QED
      BY <2>5, <3>1
  <2> HIDE DEF listed, p1, p2, f1
  <2> QED
    BY <2>1, <2>4, <2>5, <2>6, <2>7
<1>13. /\ r \in SlabRec /\ r.heap = h /\ r.cls = c /\ r.total = s.total /\ r.arena = s.arena
       /\ r.free = x /\ r.list = list
  <2>1. list \in Seq(Nat) /\ x \in Nat
    BY <1>5, <1>6
  <2> HIDE DEF x, list
  <2>2. /\ r \in SlabRec /\ r.heap = s.heap /\ r.cls = s.cls /\ r.total = s.total /\ r.arena = s.arena
        /\ r.free = x /\ r.list = list
    BY <1>2, <2>1 DEF SlabRec
  <2> QED
    BY <2>2
<1>14. x # 0
  BY <1>2
<1>15. n + 1 = H.cells
  BY <1>2
<1> HIDE DEF r, x, n, list
<1>16. SlabLike(m.slab[t], r)
  <2>1. ToSet(list) \subseteq 0 .. s.total - 1
    BY <1>3, <1>5
  <2> QED
    BY <1>5, <1>13, <2>1 DEF SlabLike
<1> HIDE DEF P, F
<1>17. Relisted(m, k, t, r, P, F, n)
  BY <1>0, <1>9, <1>10, <1>11, <1>16, TileChange, Zenon
<1> HIDE DEF k
<1>18. u \in CellUses(m) /\ CellUses(k) = CellUses(m) \ {u} /\ Uses(k) = Uses(m) \ {u}
  <2>1. ToSet(r.list) = ToSet(m.slab[t].list) \cup {i}
    BY <1>5, <1>13
  <2> QED
    BY <1>0, <1>17, <2>1, CellLoss
<1>19. u.heap = h
  BY <1>9 DEF CellsIn
<1>20. ListsOK(k, Y)
  <2> HIDE DEF u
  <2>1. n = Cardinality(CellsIn(k, h))
    <3>1. CellsIn(k, h) = CellsIn(m, h) \ {u}
      BY <1>18 DEF CellsIn
    <3>2. Cardinality(CellsIn(m, h) \ {u}) = Cardinality(CellsIn(m, h)) - 1
      BY <1>9, FS_RemoveElement, Zenon
    <3>3. H.cells = Cardinality(CellsIn(m, h)) /\ H.cells \in Nat /\ n \in Nat /\ n + 1 = H.cells
      BY <1>2, <1>4, <1>9, <1>15, Zenon
    <3> HIDE DEF H
    <3> QED
      BY <3>1, <3>2, <3>3
  <2>2. \A j : j # h => CellsIn(k, j) = CellsIn(m, j)
    BY <1>18, <1>19 DEF CellsIn
  <2>3. m.slab[t].heap = h /\ m.slab[t].cls = c /\ t \in DOMAIN m.slab
    OBVIOUS
  <2>4. Y \subseteq {t} /\ {} \subseteq {t}
    OBVIOUS
  <2>5. /\ Once(P) /\ Once(F)
        /\ ToSet(P) = (Roomy(m, h, c) \ {t}) \cup (IF r.free # 0 /\ t \notin Y THEN {t} ELSE {})
        /\ ToSet(F) = (Full(m, h, c) \ {t}) \cup (IF r.free = 0 /\ t \notin Y THEN {t} ELSE {})
    BY <1>10, <1>11, <1>13, <1>14, Zenon
  <2>6. ListsOK(m, {}) /\ h \in DOMAIN m.heap /\ c \in Classes
    BY <1>0, <1>1
  <2> HIDE DEF s, H, Y, c
  <2> QED
    BY <1>17, <2>1, <2>2, <2>3, <2>4, <2>5, <2>6, ListsTurn
<1>21. k.slab[t] = r
  BY <1>17 DEF Relisted
<1>22. Returned(m, k, t, i)
  BY <1>13, <1>17, <1>18, <1>21, Zenon DEF Relisted, Returned
<1>23. CASE x # s.total
  <2>1. k.slab[t].free < k.slab[t].total
    BY <1>2, <1>6, <1>13, <1>21, <1>23
  <2>2. Y = {}
    BY <1>23
  <2> HIDE DEF o, Y
  <2>3. o = Outcome(k, p) /\ ListsOK(k, {})
    BY <1>12, <1>20, <1>23, <2>2, Zenon
  <2>4. Settled(k, o, h, t, p)
    BY <2>1, <2>3, Zenon DEF Settled
  <2> QED
    BY <1>22, <2>4, Zenon DEF o
<1>24. CASE x = s.total
  <2>1. k.slab[t].free = k.slab[t].total
    BY <1>13, <1>21, <1>24
  <2>2. Y = {t}
    BY <1>24
  <2> HIDE DEF o, Y
  <2>3. o = Outcome(SlabRelease(k, h, t), p) /\ ListsOK(k, {t})
    BY <1>12, <1>20, <1>24, <2>2, Zenon
  <2>4. Settled(k, o, h, t, p)
    BY <2>1, <2>3, Zenon DEF Settled
  <2> QED
    BY <1>22, <2>4, Zenon DEF o
<1> QED
  BY <1>23, <1>24
-----------------------------------------------------------------------------
(* A tile without a live cell, on no list, leaves its arena.               *)
Dropped(m, k, h, t, a) ==
  /\ Placed(k) /\ ListsOK(k, {}) /\ SameHeaps(m, k) /\ Uses(k) = Uses(m)
  /\ k.block = m.block /\ DOMAIN k.slab = DOMAIN m.slab \ {t}
  /\ \A s \in DOMAIN k.slab : k.slab[s] = m.slab[s]
  /\ DOMAIN k.arena = DOMAIN m.arena /\ a \in DOMAIN m.arena /\ m.block[a - 1].heap = h
  /\ \A x \in DOMAIN m.arena \ {a} : k.arena[x] = m.arena[x]
  /\ k.arena[a].use = 0 <=> k.arena[a].map = {}

(* __HeapSlabRelease before it looks at the arena.                         *)
LEMMA TileDropped ==
  ASSUME NEW m, Placed(m), NEW t \in DOMAIN m.slab, ListsOK(m, {t}), NEW h, h = m.slab[t].heap,
         m.slab[t].free = m.slab[t].total
  PROVE  Dropped(m, DropTile(m, h, t), h, t, m.slab[t].arena)
<1> DEFINE a == m.slab[t].arena
           r == m.arena[a]
           i == (t - r.base) \div SlabSize
           K == [m.heap[h] EXCEPT !.slabs = @ - 1]
           q == [r EXCEPT !.map = @ \ {i}, !.use = @ - 1]
           A == [m.arena EXCEPT ![a] = q]
           S == Without(m.slab, {t})
           k == Put(m, h, K, A, S)
<1>0. Memory(m)
  BY DEF Placed
<1>a. /\ a \in DOMAIN m.arena /\ a - 1 \in DOMAIN m.block /\ t \in Nat /\ i \in r.map
      /\ TileAt(m, a, i) = t /\ h = m.block[a - 1].heap /\ h \in DOMAIN m.heap
      /\ m.slab[t].total = Total(m.slab[t].cls) /\ m.slab[t].cls \in Classes
  BY SlabPlace
<1>1. DropTile(m, h, t) = k
  <2>1. m \in [heap : {m.heap}, block : {m.block}, arena : {m.arena}, slab : {m.slab}]
    BY <1>0 DEF Memory
  <2>2. m.arena = [x \in DOMAIN m.arena |-> m.arena[x]] /\ r \in ArenaRec
    BY <1>0, <1>a DEF Memory
  <2> DEFINE j == i
             A1 == [m.arena EXCEPT ![a].map = @ \ {j}, ![a].use = @ - 1]
             G == [m.heap EXCEPT ![h].slabs = @ - 1]
  <2>3. DropTile(m, h, t) = [m EXCEPT !.slab = S, !.heap = G, !.arena = A1]
    <3> DEFINE Q == [m EXCEPT !.slab = S, !.heap[h].slabs = @ - 1,
                              !.arena[a].map = @ \ {j}, !.arena[a].use = @ - 1]
    <3>1. DropTile(m, h, t) = Q
      BY DEF DropTile
    <3>2. Q = [m EXCEPT !.slab = S, !.heap = G, !.arena = A1]
      <4> DEFINE u == m.heap[h].slabs - 1
                 v == m.arena[a].map \ {j}
                 w == m.arena[a].use - 1
                 z == [m.arena[a] EXCEPT !.map = v, !.use = w]
                 y == [m.heap[h] EXCEPT !.slabs = u]
      <4>1. Q = [m EXCEPT !.slab = S, !.heap[h].slabs = u, !.arena[a].map = v, !.arena[a].use = w]
        <5>1. \A x : [m EXCEPT !.slab = S, !.heap[h].slabs = u, !.arena[a].map = v, !.arena[a].use = x]
                = [[m EXCEPT !.slab = S, !.heap[h].slabs = u, !.arena[a].map = v] EXCEPT !.arena[a].use = x]
          OBVIOUS
        <5> QED
          OBVIOUS
      <4>2. G = [m.heap EXCEPT ![h] = y] /\ A1 = [m.arena EXCEPT ![a] = z]
        BY <2>2, Zenon
      <4> HIDE DEF S, j, a, u, v, w
      <4>3. [m EXCEPT !.slab = S, !.heap[h].slabs = u, !.arena[a].map = v, !.arena[a].use = w]
              = [m EXCEPT !.slab = S, !.heap = [m.heap EXCEPT ![h] = y], !.arena = [m.arena EXCEPT ![a] = z]]
        <5> DEFINE g == [m.heap EXCEPT ![h] = y]
                   n0 == [m EXCEPT !.slab = S, !.heap = g]
                   A2 == [m.arena EXCEPT ![a].map = v]
                   n1 == [n0 EXCEPT !.arena = A2]
                   A3 == [m.arena EXCEPT ![a] = z]
        <5>1. [m EXCEPT !.slab = S, !.heap[h].slabs = u, !.arena[a].map = v, !.arena[a].use = w]
                = [[n0 EXCEPT !.arena[a].map = v] EXCEPT !.arena[a].use = w]
          BY <2>1
        <5> HIDE DEF g
        <5>2. n0.arena = m.arena
          BY <2>1
        <5>3. [n0 EXCEPT !.arena[a].map = v] = n1
          <6> HIDE DEF n0
          <6> QED
            BY <5>2
        <5>4. [A2 EXCEPT ![a].use = w] = A3
          BY <1>a, <2>2
        <5> HIDE DEF A2, A3
        <5>5. n1.arena = A2 /\ [n1 EXCEPT !.arena = A3] = [m EXCEPT !.slab = S, !.heap = g, !.arena = A3]
          BY <2>1, Zenon
        <5> HIDE DEF n1, n0
        <5>6. [n1 EXCEPT !.arena[a].use = w] = [n1 EXCEPT !.arena = A3]
          BY <5>4, <5>5
        <5> QED
          BY <5>1, <5>3, <5>5, <5>6 DEF g, A3
      <4> HIDE DEF Q, G, A1, y, z
      <4> QED
        BY <4>1, <4>2, <4>3
    <3> HIDE DEF Q, S, G, A1
    <3> QED
      BY <3>1, <3>2
  <2> HIDE DEF j
  <2>4. A1 = A
    BY <2>2, Zenon DEF ArenaRec, j
  <2>5. k = [m EXCEPT !.heap = G, !.arena = A, !.slab = S]
    BY DEF Put
  <2>6. [m EXCEPT !.slab = S, !.heap = G, !.arena = A] = [m EXCEPT !.heap = G, !.arena = A, !.slab = S]
    <3> HIDE DEF S, G, A
    <3> QED
      BY <2>1
  <2> HIDE DEF A1, A, S, G, k
  <2> QED
    BY <2>3, <2>4, <2>5, <2>6
<1>t. t = TileAt(m, a, i)
  BY <1>a
<1>2. /\ a \in Nat /\ r \in ArenaRec /\ r.slabs \in Nat /\ r.use \in Nat /\ r.base \in Nat
      /\ r.map \subseteq 0 .. r.slabs - 1 /\ r.use = Cardinality(r.map)
      /\ IsFiniteSet(r.map)
  <2>1. /\ a \in Nat /\ r \in ArenaRec /\ r.slabs \in Nat /\ r.use \in Nat /\ r.base \in Nat
        /\ r.map \subseteq 0 .. r.slabs - 1 /\ r.use = Cardinality(r.map)
    BY <1>0, <1>a, Types, Zenon DEF Placed, ArenasOK
  <2> HIDE DEF r
  <2> QED
    BY <2>1, NatInterval
<1> HIDE DEF i
<1>b. Cardinality(r.map \ {i}) = r.use - 1 /\ r.use - 1 \in Nat
  <2> HIDE DEF r
  <2>1. i \in r.map
    BY <1>a DEF r
  <2>2. Cardinality(r.map \ {i}) = Cardinality(r.map) - 1
    BY <1>2, <2>1, FS_RemoveElement
  <2>3. Cardinality(r.map \ {i}) \in Nat
    BY <1>2, FS_RemoveElement, FS_CardinalityType
  <2> QED
    BY <1>2, <2>2, <2>3
<1>c. SlabsOf(m, h) \subseteq DOMAIN m.slab /\ IsFiniteSet(SlabsOf(m, h)) /\ t \in SlabsOf(m, h)
      /\ m.heap[h].slabs = Cardinality(SlabsOf(m, h)) /\ m.heap[h].slabs - 1 \in Nat
      /\ Cardinality(SlabsOf(m, h) \ {t}) = m.heap[h].slabs - 1
  <2>1. SlabsOf(m, h) \subseteq DOMAIN m.slab /\ IsFiniteSet(DOMAIN m.slab) /\ t \in SlabsOf(m, h)
    BY <1>0 DEF SlabsOf, Memory
  <2>2. IsFiniteSet(SlabsOf(m, h))
    BY <2>1, FS_Subset
  <2>3. m.heap[h].slabs = Cardinality(SlabsOf(m, h)) /\ m.heap[h].slabs \in Nat
    BY <1>0, <1>a, Types DEF ListsOK
  <2> DEFINE X == SlabsOf(m, h)
             n == m.heap[h].slabs
  <2>4. IsFiniteSet(X) /\ t \in X /\ n = Cardinality(X) /\ n \in Nat
    BY <2>1, <2>2, <2>3
  <2> HIDE DEF X, n
  <2>5. Cardinality(X \ {t}) = Cardinality(X) - 1 /\ IsFiniteSet(X \ {t})
    BY <2>4, FS_RemoveElement
  <2>6. Cardinality(X \ {t}) \in Nat
    BY <2>5, FS_CardinalityType
  <2>7. n - 1 \in Nat /\ Cardinality(X \ {t}) = n - 1
    BY <2>4, <2>5, <2>6
  <2> QED
    BY <2>1, <2>2, <2>3, <2>7 DEF X, n
<1> HIDE DEF r
<1>8. /\ K \in HeapRec /\ K.scb = m.heap[h].scb /\ K.lo = m.heap[h].lo /\ K.hi = m.heap[h].hi
      /\ K.validate = m.heap[h].validate /\ K.arenas = m.heap[h].arenas /\ K.free = m.heap[h].free
      /\ K.partial = m.heap[h].partial /\ K.full = m.heap[h].full
      /\ K.slabs = m.heap[h].slabs - 1 /\ K.cells = m.heap[h].cells
  <2>1. m.heap[h] \in HeapRec /\ m.heap[h].slabs - 1 \in Nat
    BY <1>0, <1>a, <1>c, Types, Zenon
  <2> DEFINE x == m.heap[h].slabs - 1
             L == [m.heap[h] EXCEPT !.slabs = x]
  <2> HIDE DEF x
  <2>2. /\ L \in HeapRec /\ L.scb = m.heap[h].scb /\ L.lo = m.heap[h].lo /\ L.hi = m.heap[h].hi
        /\ L.validate = m.heap[h].validate /\ L.arenas = m.heap[h].arenas /\ L.free = m.heap[h].free
        /\ L.partial = m.heap[h].partial /\ L.full = m.heap[h].full
        /\ L.slabs = x /\ L.cells = m.heap[h].cells
    BY <2>1 DEF HeapRec, x
  <2> QED
    BY <2>2 DEF x
<1> HIDE DEF K
<1>9. /\ q \in ArenaRec /\ q.base = r.base /\ q.slabs = r.slabs /\ q.map = r.map \ {i}
      /\ q.use = r.use - 1
  <2> DEFINE x == r.map \ {i}
             y == r.use - 1
             z == [r EXCEPT !.map = x, !.use = y]
  <2>1. x \in SUBSET Nat /\ y \in Nat
    BY <1>2, <1>b
  <2> HIDE DEF x, y
  <2>2. z \in ArenaRec /\ z.base = r.base /\ z.slabs = r.slabs /\ z.map = x /\ z.use = y
    BY <1>2, <2>1 DEF ArenaRec
  <2> QED
    BY <2>2 DEF x, y
<1> HIDE DEF q
<1>10. /\ A \in [DOMAIN A -> ArenaRec] /\ DOMAIN A = DOMAIN m.arena /\ DOMAIN A \subseteq Nat /\ A[a] = q
       /\ \A x \in DOMAIN m.arena \ {a} : A[x] = m.arena[x]
  <2>1. m.arena \in [DOMAIN m.arena -> ArenaRec] /\ DOMAIN m.arena \subseteq Nat
    BY <1>0 DEF Memory
  <2> QED
    BY <1>9, <1>a, <2>1
<1> HIDE DEF A
<1>11. /\ S \in [DOMAIN S -> SlabRec] /\ DOMAIN S = DOMAIN m.slab \ {t} /\ DOMAIN S \subseteq Nat
       /\ IsFiniteSet(DOMAIN S) /\ \A s \in DOMAIN S : S[s] = m.slab[s]
  <2>1. m.slab \in [DOMAIN m.slab -> SlabRec] /\ DOMAIN m.slab \subseteq Nat /\ IsFiniteSet(DOMAIN m.slab)
    BY <1>0 DEF Memory
  <2>2. DOMAIN S = DOMAIN m.slab \ {t} /\ \A s \in DOMAIN S : S[s] = m.slab[s]
    BY DEF Without
  <2>3. S = [x \in DOMAIN S |-> S[x]]
    BY DEF Without
  <2> HIDE DEF S
  <2>4. IsFiniteSet(DOMAIN S)
    BY <2>1, <2>2, FS_Subset
  <2> QED
    BY <2>1, <2>2, <2>3, <2>4
<1> HIDE DEF S
<1>12. /\ Memory(k) /\ k.block = m.block /\ k.arena = A /\ k.slab = S
       /\ DOMAIN k.heap = DOMAIN m.heap /\ k.heap[h] = K
       /\ \A j \in DOMAIN m.heap \ {h} : k.heap[j] = m.heap[j]
  <2>1. h \in DOMAIN m.heap
    BY <1>a
  <2>2. K \in HeapRec
    BY <1>8
  <2>3. A \in [DOMAIN A -> ArenaRec] /\ DOMAIN A \subseteq Nat
    BY <1>10
  <2>4. S \in [DOMAIN S -> SlabRec] /\ DOMAIN S \subseteq Nat /\ IsFiniteSet(DOMAIN S)
    BY <1>11
  <2> HIDE DEF a
  <2> QED
    BY <1>0, <2>1, <2>2, <2>3, <2>4, MemoryPut
<1> HIDE DEF k
<1>13. SamePlaces(m, k) /\ SameHeaps(m, k)
  BY <1>8, <1>12 DEF SameHeaps, SamePlaces
<1>14. BlocksOK(k) /\ HeapsOK(k) /\ \A b : End(k, b) = End(m, b)
  BY <1>12, <1>13, BlocksSame, HeapsSame DEF Placed
<1>15. ArenasOK(k)
  <2>1. ASSUME NEW x \in DOMAIN k.arena
        PROVE  /\ x - 1 \in DOMAIN k.block /\ x \notin DOMAIN k.heap
               /\ \A j \in DOMAIN k.heap : k.heap[j].scb # x
               /\ k.arena[x].base % SlabSize = 0 /\ x < k.arena[x].base
               /\ k.arena[x].base + k.arena[x].slabs * SlabSize <= End(k, x - 1)
               /\ k.arena[x].map \subseteq 0 .. k.arena[x].slabs - 1
               /\ k.arena[x].use = Cardinality(k.arena[x].map)
    <3>0. \A j \in DOMAIN m.heap : k.heap[j].scb = m.heap[j].scb
      BY <1>13 DEF SamePlaces
    <3>1. CASE x = a
      <4>1. k.arena[x] = q
        BY <1>10, <1>12, <3>1
      <4>2. q.map \subseteq 0 .. q.slabs - 1 /\ q.use = Cardinality(q.map)
        BY <1>2, <1>9, <1>b
      <4>4. /\ r.base % SlabSize = 0 /\ a < r.base /\ r.base + r.slabs * SlabSize <= End(m, a - 1)
            /\ a \notin DOMAIN m.heap /\ \A j \in DOMAIN m.heap : m.heap[j].scb # a
        BY <1>a DEF Placed, ArenasOK, r
      <4> QED
        BY <1>9, <1>12, <1>14, <1>a, <3>0, <3>1, <4>1, <4>2, <4>4
    <3>2. CASE x # a
      <4>1. x \in DOMAIN m.arena /\ k.arena[x] = m.arena[x]
        BY <1>10, <1>12, <3>2
      <4> QED
        BY <1>12, <1>14, <3>0, <4>1 DEF Placed, ArenasOK
    <3> QED
      BY <3>1, <3>2
  <2>2. ASSUME NEW j \in DOMAIN m.heap
        PROVE  /\ Once(k.heap[j].arenas)
               /\ ToSet(k.heap[j].arenas) = {x \in DOMAIN k.arena : k.block[x - 1].heap = j}
    <3>1. k.heap[j].arenas = m.heap[j].arenas
      BY <1>8, <1>12
    <3>2. /\ Once(m.heap[j].arenas)
          /\ ToSet(m.heap[j].arenas) = {x \in DOMAIN m.arena : m.block[x - 1].heap = j}
      BY DEF Placed, ArenasOK
    <3> QED
      BY <1>10, <1>12, <3>1, <3>2
  <2> QED
    BY <1>12, <2>1, <2>2 DEF ArenasOK
<1>16. SlabsOK(k)
  <2>1. \A x \in DOMAIN m.arena \ {a} : Tiles(k, x) = Tiles(m, x)
    BY <1>10, <1>12 DEF Tiles, TileAt
  <2>2. \A j : TileAt(k, a, j) = TileAt(m, a, j)
    BY <1>9, <1>10, <1>12 DEF TileAt, r
  <2>3. Tiles(k, a) = Tiles(m, a) \ {t}
    <3>1. k.arena[a].map = m.arena[a].map \ {i}
      BY <1>9, <1>10, <1>12 DEF r
    <3>2. \A x : x \in Tiles(k, a) <=> \E j \in m.arena[a].map \ {i} : x = TileAt(m, a, j)
      BY <2>2, <3>1 DEF Tiles
    <3>3. \A x : x \in Tiles(m, a) <=> \E j \in m.arena[a].map : x = TileAt(m, a, j)
      BY DEF Tiles
    <3>4. \A j \in m.arena[a].map : (TileAt(m, a, j) - m.arena[a].base) \div SlabSize = j
      <4> TAKE j \in m.arena[a].map
      <4>1. j \in 0 .. m.arena[a].slabs - 1
        BY <1>2 DEF r
      <4>2. a \in DOMAIN m.arena
        BY <1>a
      <4> HIDE DEF a, r
      <4> QED
        BY <4>1, <4>2, TileIndex
    <3>5. \A j \in m.arena[a].map : TileAt(m, a, j) = t => j = i
      BY <3>4 DEF i, r
    <3>6. \A x : x \in Tiles(k, a) <=> x \in Tiles(m, a) /\ x # t
      BY <1>t, <3>2, <3>3, <3>5
    <3> QED
      BY <3>6
  <2>4. ASSUME NEW s \in DOMAIN k.slab
        PROVE  LET z == k.slab[s]
               IN  /\ z.arena \in DOMAIN k.arena /\ s \in Tiles(k, z.arena)
                   /\ z.heap = k.block[z.arena - 1].heap
                   /\ z.total = (SlabSize - SlabHdr) \div CellSz[z.cls]
                   /\ z.free = Len(z.list) /\ Once(z.list) /\ ToSet(z.list) \subseteq 0 .. z.total - 1
    <3>1. s \in DOMAIN m.slab /\ k.slab[s] = m.slab[s] /\ s # t
      BY <1>11, <1>12
    <3>2. LET z == m.slab[s]
          IN  /\ z.arena \in DOMAIN m.arena /\ s \in Tiles(m, z.arena)
              /\ z.heap = m.block[z.arena - 1].heap
              /\ z.total = (SlabSize - SlabHdr) \div CellSz[z.cls]
              /\ z.free = Len(z.list) /\ Once(z.list) /\ ToSet(z.list) \subseteq 0 .. z.total - 1
      BY <3>1 DEF Placed, SlabsOK
    <3>3. m.slab[s].arena \in DOMAIN k.arena /\ s \in Tiles(k, m.slab[s].arena)
      BY <1>10, <1>12, <2>1, <2>3, <3>1, <3>2
    <3> QED
      BY <1>12, <3>1, <3>2, <3>3
  <2>5. ASSUME NEW x \in DOMAIN k.arena, NEW s \in Tiles(k, x)
        PROVE  s \in DOMAIN k.slab /\ k.slab[s].arena = x
    <3>1. x \in DOMAIN m.arena /\ s \in Tiles(m, x) /\ (x = a => s # t)
      BY <1>10, <1>12, <2>1, <2>3, <2>5
    <3>2. s \in DOMAIN m.slab /\ m.slab[s].arena = x
      BY <3>1 DEF Placed, SlabsOK
    <3>3. s # t
      BY <3>1, <3>2
    <3> QED
      BY <1>11, <1>12, <3>2, <3>3
  <2> QED
    BY <2>4, <2>5 DEF SlabsOK
<1>17. Placed(k)
  BY <1>12, <1>14, <1>15, <1>16 DEF Placed
<1>18. DOMAIN k.slab = DOMAIN m.slab \ {t} /\ \A s \in DOMAIN k.slab : k.slab[s] = m.slab[s]
  BY <1>11, <1>12
<1>d. LiveIn(m, t) = {}
  <2> DEFINE list == m.slab[t].list
             n == m.slab[t].total
  <2>1. list \in Seq(Nat) /\ Once(list) /\ ToSet(list) \subseteq 0 .. n - 1 /\ Len(list) = n /\ n \in Nat
    BY <1>0, Types DEF Placed, SlabsOK
  <2> HIDE DEF list, n
  <2>2. IsFiniteSet(0 .. n - 1) /\ Cardinality(0 .. n - 1) = n
    <3>1. 0 \in Int /\ n - 1 \in Int
      BY <2>1
    <3>2. IsFiniteSet(0 .. n - 1) /\ Cardinality(0 .. n - 1) = IF 0 > n - 1 THEN 0 ELSE n - 1 - 0 + 1
      BY <3>1, FS_Interval
    <3> QED
      BY <2>1, <3>2
  <2>3. Cardinality(ToSet(list)) = n
    BY <2>1, OnceLen
  <2>4. ToSet(list) = 0 .. n - 1
    BY <2>1, <2>2, <2>3, FS_Subset
  <2> QED
    BY <2>4 DEF LiveIn, list, n
<1>19. CellUses(k) = CellUses(m)
  <2>1. \A s \in DOMAIN k.slab : LiveIn(k, s) = LiveIn(m, s) /\ \A j : CellUse(k, s, j) = CellUse(m, s, j)
    BY <1>18 DEF LiveIn, CellUse, CellAt
  <2>3. \A u : u \in CellUses(k) <=> u \in CellUses(m)
    BY <1>18, <1>d, <2>1, CellUsed
  <2> QED
    BY <2>3
<1>20. Uses(k) = Uses(m)
  <2>1. BlockUses(k) = BlockUses(m)
    BY <1>10, <1>12, <1>13, OwnSame
  <2> QED
    BY <1>19, <2>1 DEF Uses
<1>21. ListsOK(k, {})
  <2> SUFFICES ASSUME NEW j \in DOMAIN m.heap
               PROVE  /\ \A e \in Classes :
                           /\ Once(k.heap[j].partial[e]) /\ ToSet(k.heap[j].partial[e]) = Roomy(k, j, e) \ {}
                           /\ Once(k.heap[j].full[e]) /\ ToSet(k.heap[j].full[e]) = Full(k, j, e) \ {}
                      /\ k.heap[j].slabs = Cardinality(SlabsOf(k, j))
                      /\ k.heap[j].cells = Cardinality({u \in CellUses(k) : u.heap = j})
    BY <1>12 DEF ListsOK
  <2>1. /\ \A e \in Classes :
             /\ Once(m.heap[j].partial[e]) /\ ToSet(m.heap[j].partial[e]) = Roomy(m, j, e) \ {t}
             /\ Once(m.heap[j].full[e]) /\ ToSet(m.heap[j].full[e]) = Full(m, j, e) \ {t}
        /\ m.heap[j].slabs = Cardinality(SlabsOf(m, j))
        /\ m.heap[j].cells = Cardinality({u \in CellUses(m) : u.heap = j})
    BY DEF ListsOK
  <2>2. /\ k.heap[j].partial = m.heap[j].partial /\ k.heap[j].full = m.heap[j].full
        /\ k.heap[j].cells = m.heap[j].cells
        /\ k.heap[j].slabs = IF j = h THEN m.heap[j].slabs - 1 ELSE m.heap[j].slabs
    BY <1>8, <1>12
  <2>3. SlabsOf(k, j) = IF j = h THEN SlabsOf(m, j) \ {t} ELSE SlabsOf(m, j)
    BY <1>18 DEF SlabsOf
  <2>4. \A e : Roomy(k, j, e) = Roomy(m, j, e) \ {t} /\ Full(k, j, e) = Full(m, j, e) \ {t}
    BY <1>18 DEF Roomy, Full, SlabsOf
  <2>5. k.heap[j].slabs = Cardinality(SlabsOf(k, j))
    <3>1. CASE j = h
      BY <1>c, <2>2, <2>3, <3>1
    <3>2. CASE j # h
      BY <2>1, <2>2, <2>3, <3>2
    <3> QED
      BY <3>1, <3>2
  <2> QED
    BY <1>19, <2>1, <2>2, <2>4, <2>5
<1>22. k.arena[a].use = 0 <=> k.arena[a].map = {}
  <2>1. k.arena[a].map = r.map \ {i} /\ k.arena[a].use = Cardinality(r.map \ {i}) /\ IsFiniteSet(r.map \ {i})
    <3>1. IsFiniteSet(r.map \ {i})
      BY <1>2, FS_RemoveElement
    <3> QED
      BY <1>9, <1>10, <1>12, <1>b, <3>1
  <2> DEFINE X == r.map \ {i}
  <2> HIDE DEF X
  <2>2. IsFiniteSet(X) => (Cardinality(X) = 0 <=> X = {})
    BY FS_EmptySet
  <2> QED
    BY <2>1, <2>2 DEF X
<1>23. DOMAIN k.arena = DOMAIN m.arena /\ \A x \in DOMAIN m.arena \ {a} : k.arena[x] = m.arena[x]
  BY <1>10, <1>12
<1>24. Dropped(m, k, h, t, a)
  BY <1>12, <1>13, <1>17, <1>18, <1>20, <1>21, <1>22, <1>23, <1>a DEF Dropped
<1> QED
  BY <1>1, <1>24

(* An arena without slabs is a block of no use again.                      *)
LEMMA ArenaGone ==
  ASSUME NEW m, Placed(m), NEW a \in DOMAIN m.arena, m.arena[a].map = {},
         NEW h, h = m.block[a - 1].heap
  PROVE  LET k == Unformatted(m, h, a)
             b == a - 1
         IN  /\ Placed(k) /\ SameHeaps(m, k) /\ \A X : ListsOK(m, X) => ListsOK(k, X)
             /\ k.slab = m.slab /\ k.block = m.block /\ DOMAIN k.arena = DOMAIN m.arena \ {a}
             /\ \A x \in DOMAIN k.arena : k.arena[x] = m.arena[x]
             /\ b \in DOMAIN m.block /\ OwnBlock(k, b) /\ h \in DOMAIN m.heap
             /\ Uses(k) \ {BlockUse(k, b)} = Uses(m)
<1> DEFINE b == a - 1
           A == Without(m.arena, {a})
           L == m.heap[h].arenas
           list == RemoveFirst(L, a)
           K == [m.heap[h] EXCEPT !.arenas = list]
           k == Put(m, h, K, A, m.slab)
<1>0. /\ Memory(m) /\ a \in Nat /\ b \in DOMAIN m.block /\ h \in DOMAIN m.heap /\ b + 1 = a
      /\ b \in Nat
  <2>1. a - 1 \in DOMAIN m.block /\ Memory(m) /\ a \in Nat
    BY Types DEF Placed, ArenasOK
  <2> QED
    BY <2>1, Types DEF Placed, BlocksOK
<1>1. Unformatted(m, h, a) = k
  <2>1. m \in [heap : {m.heap}, block : {m.block}, arena : {m.arena}, slab : {m.slab}]
    BY <1>0 DEF Memory
  <2> DEFINE G == [m.heap EXCEPT ![h] = K]
  <2>2. Unformatted(m, h, a) = [m EXCEPT !.arena = A, !.heap = G]
    BY <2>1 DEF Unformatted
  <2>3. k = [m EXCEPT !.heap = G, !.arena = A, !.slab = m.slab]
    BY DEF Put
  <2> HIDE DEF G, A, k
  <2> QED
    BY <2>1, <2>2, <2>3
<1>2. a \notin DOMAIN m.heap /\ \A j \in DOMAIN m.heap : m.heap[j].scb # a
  BY DEF Placed, ArenasOK
<1>3. /\ L \in Seq(Nat) /\ Once(L) /\ a \in ToSet(L)
      /\ ToSet(L) = {x \in DOMAIN m.arena : m.block[x - 1].heap = h}
  BY <1>0, Types DEF Placed, ArenasOK
<1> HIDE DEF L
<1>4. list \in Seq(Nat) /\ Once(list) /\ ToSet(list) = ToSet(L) \ {a}
  BY <1>3, UnlinkSet
<1> HIDE DEF list
<1>6. /\ DOMAIN A = DOMAIN m.arena \ {a} /\ \A x \in DOMAIN A : A[x] = m.arena[x]
      /\ A \in [DOMAIN A -> ArenaRec] /\ DOMAIN A \subseteq Nat
  <2>1. m.arena \in [DOMAIN m.arena -> ArenaRec] /\ DOMAIN m.arena \subseteq Nat
    BY <1>0 DEF Memory
  <2>2. DOMAIN A = DOMAIN m.arena \ {a} /\ \A x \in DOMAIN A : A[x] = m.arena[x]
    BY DEF Without
  <2>3. A = [x \in DOMAIN A |-> A[x]]
    BY DEF Without
  <2> HIDE DEF A
  <2> QED
    BY <1>0, <2>1, <2>2, <2>3
<1> HIDE DEF A
<1>8. /\ K \in HeapRec /\ K.scb = m.heap[h].scb /\ K.lo = m.heap[h].lo /\ K.hi = m.heap[h].hi
      /\ K.validate = m.heap[h].validate /\ K.arenas = list /\ K.free = m.heap[h].free
      /\ K.partial = m.heap[h].partial /\ K.full = m.heap[h].full
      /\ K.slabs = m.heap[h].slabs /\ K.cells = m.heap[h].cells
  <2>1. m.heap[h] \in HeapRec
    BY <1>0, Types
  <2> QED
    BY <1>4, <2>1 DEF HeapRec
<1> HIDE DEF K
<1>9. /\ Memory(k) /\ k.block = m.block /\ k.arena = A /\ k.slab = m.slab
      /\ DOMAIN k.heap = DOMAIN m.heap /\ k.heap[h] = K
      /\ \A j \in DOMAIN m.heap \ {h} : k.heap[j] = m.heap[j]
  <2>1. m.slab \in [DOMAIN m.slab -> SlabRec] /\ DOMAIN m.slab \subseteq Nat /\ IsFiniteSet(DOMAIN m.slab)
    BY <1>0 DEF Memory
  <2>2. h \in DOMAIN m.heap /\ Memory(m)
    BY <1>0
  <2>3. K \in HeapRec /\ A \in [DOMAIN A -> ArenaRec] /\ DOMAIN A \subseteq Nat
    BY <1>6, <1>8
  <2> DEFINE S == m.slab
  <2> HIDE DEF b, S
  <2>4. /\ Memory(Put(m, h, K, A, S)) /\ Put(m, h, K, A, S).block = m.block
        /\ Put(m, h, K, A, S).arena = A /\ Put(m, h, K, A, S).slab = S
        /\ DOMAIN Put(m, h, K, A, S).heap = DOMAIN m.heap /\ Put(m, h, K, A, S).heap[h] = K
        /\ \A j \in DOMAIN m.heap \ {h} : Put(m, h, K, A, S).heap[j] = m.heap[j]
    BY <2>1, <2>2, <2>3, MemoryPut DEF S
  <2> QED
    BY <2>4 DEF S
<1> HIDE DEF k
<1>10. SamePlaces(m, k) /\ SameHeaps(m, k)
  BY <1>8, <1>9 DEF SameHeaps, SamePlaces
<1>11. BlocksOK(k) /\ HeapsOK(k) /\ \A c : End(k, c) = End(m, c)
  BY <1>9, <1>10, BlocksSame, HeapsSame DEF Placed
<1>12. ArenasOK(k)
  <2>0. \A j \in DOMAIN m.heap : k.heap[j].scb = m.heap[j].scb
    BY <1>10 DEF SamePlaces
  <2>1. ASSUME NEW x \in DOMAIN k.arena
        PROVE  /\ x - 1 \in DOMAIN k.block /\ x \notin DOMAIN k.heap
               /\ \A j \in DOMAIN k.heap : k.heap[j].scb # x
               /\ k.arena[x].base % SlabSize = 0 /\ x < k.arena[x].base
               /\ k.arena[x].base + k.arena[x].slabs * SlabSize <= End(k, x - 1)
               /\ k.arena[x].map \subseteq 0 .. k.arena[x].slabs - 1
               /\ k.arena[x].use = Cardinality(k.arena[x].map)
    <3>1. x \in DOMAIN m.arena /\ k.arena[x] = m.arena[x]
      BY <1>6, <1>9
    <3> QED
      BY <1>9, <1>11, <2>0, <3>1 DEF Placed, ArenasOK
  <2>2. ASSUME NEW j \in DOMAIN m.heap
        PROVE  /\ Once(k.heap[j].arenas)
               /\ ToSet(k.heap[j].arenas) = {x \in DOMAIN k.arena : k.block[x - 1].heap = j}
    <3>1. CASE j = h
      <4>1. k.heap[j].arenas = list
        BY <1>8, <1>9, <3>1
      <4> QED
        BY <1>3, <1>4, <1>6, <1>9, <3>1, <4>1
    <3>2. CASE j # h
      <4>1. k.heap[j].arenas = m.heap[j].arenas
        BY <1>9, <3>2
      <4>2. k.block[a - 1].heap # j
        BY <1>9, <3>2
      <4>3. /\ Once(m.heap[j].arenas)
            /\ ToSet(m.heap[j].arenas) = {x \in DOMAIN m.arena : m.block[x - 1].heap = j}
        BY DEF Placed, ArenasOK
      <4> QED
        BY <1>6, <1>9, <4>1, <4>2, <4>3
    <3> QED
      BY <3>1, <3>2
  <2> QED
    BY <1>9, <2>1, <2>2 DEF ArenasOK
<1>13. SlabsOK(k)
  <2>1. \A x \in DOMAIN k.arena : Tiles(k, x) = Tiles(m, x)
    BY <1>6, <1>9 DEF Tiles, TileAt
  <2>2. Tiles(m, a) = {}
    BY DEF Tiles
  <2>3. ASSUME NEW t \in DOMAIN k.slab
        PROVE  LET s == k.slab[t]
               IN  /\ s.arena \in DOMAIN k.arena /\ t \in Tiles(k, s.arena)
                   /\ s.heap = k.block[s.arena - 1].heap
                   /\ s.total = (SlabSize - SlabHdr) \div CellSz[s.cls]
                   /\ s.free = Len(s.list) /\ Once(s.list) /\ ToSet(s.list) \subseteq 0 .. s.total - 1
    <3>1. LET s == m.slab[t]
          IN  /\ s.arena \in DOMAIN m.arena /\ t \in Tiles(m, s.arena)
              /\ s.heap = m.block[s.arena - 1].heap
              /\ s.total = (SlabSize - SlabHdr) \div CellSz[s.cls]
              /\ s.free = Len(s.list) /\ Once(s.list) /\ ToSet(s.list) \subseteq 0 .. s.total - 1
      BY <1>9 DEF Placed, SlabsOK
    <3>2. m.slab[t].arena # a
      BY <2>2, <3>1
    <3>3. m.slab[t].arena \in DOMAIN k.arena /\ t \in Tiles(k, m.slab[t].arena)
      BY <1>6, <1>9, <2>1, <3>1, <3>2
    <3> QED
      BY <1>9, <3>1, <3>3
  <2>4. ASSUME NEW x \in DOMAIN k.arena, NEW t \in Tiles(k, x)
        PROVE  t \in DOMAIN k.slab /\ k.slab[t].arena = x
    <3>1. x \in DOMAIN m.arena /\ t \in Tiles(m, x)
      BY <1>6, <1>9, <2>1, <2>4
    <3> QED
      BY <1>9, <3>1 DEF Placed, SlabsOK
  <2> QED
    BY <2>3, <2>4 DEF SlabsOK
<1>14. Placed(k)
  BY <1>9, <1>11, <1>12, <1>13 DEF Placed
<1>15. \A X : ListsOK(m, X) => ListsOK(k, X)
  <2>1. \A j \in DOMAIN m.heap : /\ k.heap[j].partial = m.heap[j].partial
                                 /\ k.heap[j].full = m.heap[j].full
                                 /\ k.heap[j].slabs = m.heap[j].slabs
                                 /\ k.heap[j].cells = m.heap[j].cells
    BY <1>8, <1>9
  <2> QED
    BY <1>9, <2>1, ListsSame
<1>16. CellUses(k) = CellUses(m)
  BY <1>9, SlabsOnly
<1>17. \A c \in DOMAIN m.block : OwnBlock(k, c) <=> OwnBlock(m, c) \/ c = b
  <2> SUFFICES ASSUME NEW c \in DOMAIN m.block PROVE OwnBlock(k, c) <=> OwnBlock(m, c) \/ c = b
    OBVIOUS
  <2>1. c \in Nat /\ (c + 1 = a <=> c = b)
    BY <1>0, Types
  <2> DEFINE e == c + 1
  <2>2. \A j \in DOMAIN m.heap : k.heap[j].scb = m.heap[j].scb
    BY <1>10 DEF SamePlaces
  <2> HIDE DEF e
  <2>3. OwnBlock(k, c) <=> /\ e \notin DOMAIN m.heap /\ (e \notin DOMAIN m.arena \/ e = a)
                           /\ \A j \in DOMAIN m.heap : m.heap[j].scb # e
    BY <1>6, <1>9, <2>2 DEF OwnBlock, e
  <2>4. OwnBlock(m, c) <=> /\ e \notin DOMAIN m.heap /\ e \notin DOMAIN m.arena
                           /\ \A j \in DOMAIN m.heap : m.heap[j].scb # e
    BY DEF OwnBlock, e
  <2>5. e = a <=> c = b
    BY <2>1 DEF e
  <2> HIDE DEF b
  <2> QED
    BY <1>2, <2>3, <2>4, <2>5
<1>18. OwnBlock(k, b) /\ ~ OwnBlock(m, b) /\ b \in DOMAIN k.block
  <2>1. ~ OwnBlock(m, b)
    BY <1>0 DEF OwnBlock
  <2> QED
    BY <1>0, <1>9, <1>17, <2>1
<1>19. \A u : u \in Uses(k) \ {BlockUse(k, b)} <=> u \in Uses(m)
  <2>1. \A c : BlockUse(k, c) = BlockUse(m, c)
    BY <1>9 DEF BlockUse
  <2>2. \A u : u \in Uses(m) <=> u \in CellUses(m) \/ \E c \in DOMAIN m.block : OwnBlock(m, c) /\ u = BlockUse(m, c)
    BY BlockUsed DEF Uses
  <2>3. \A u : u \in Uses(k) \ {BlockUse(k, b)} <=>
              \/ u \in CellUses(k)
              \/ \E c \in DOMAIN k.block \ {b} : OwnBlock(k, c) /\ u = BlockUse(k, c)
    BY <1>14, <1>18, OwnUse
  <2>4. \A c \in DOMAIN m.block : OwnBlock(m, c) <=> OwnBlock(k, c) /\ c # b
    BY <1>17, <1>18
  <2> HIDE DEF b
  <2>5. \A u : u \in Uses(k) \ {BlockUse(k, b)} <=>
              \/ u \in CellUses(m)
              \/ \E c \in DOMAIN m.block \ {b} : OwnBlock(k, c) /\ u = BlockUse(m, c)
    BY <1>9, <1>16, <2>1, <2>3
  <2> QED
    BY <2>2, <2>4, <2>5
<1>20. Uses(k) \ {BlockUse(k, b)} = Uses(m)
  <2> DEFINE U == Uses(k) \ {BlockUse(k, b)}
  <2>1. \A u : u \in U <=> u \in Uses(m)
    BY <1>19
  <2> HIDE DEF U
  <2> QED
    BY <2>1 DEF U
<1>21. DOMAIN k.arena = DOMAIN m.arena \ {a} /\ \A x \in DOMAIN k.arena : k.arena[x] = m.arena[x]
  BY <1>6, <1>9
<1> HIDE DEF b
<1> QED
  BY <1>0, <1>1, <1>9, <1>10, <1>14, <1>15, <1>18, <1>20, <1>21 DEF b

(* __HeapSlabRelease of a tile that is on no list, and its arena with it   *)
(* when it was the last.                                                   *)
LEMMA SlabReleased ==
  ASSUME NEW m, Placed(m), NEW t \in DOMAIN m.slab, ListsOK(m, {t}), NEW h, h = m.slab[t].heap,
         m.slab[t].free = m.slab[t].total
  PROVE  LET k == SlabRelease(m, h, t)
         IN  /\ Good(k) /\ SameHeaps(m, k) /\ Uses(k) = Uses(m)
             /\ (NoEmpty(m, {t}) => NoEmpty(k, {}))
<1> DEFINE a == m.slab[t].arena
           d == DropTile(m, h, t)
           g == Unformatted(d, h, a)
           b == a - 1
           o == HeapFreeBlock(g, h, a)
           k == SlabRelease(m, h, t)
<1>1. Dropped(m, d, h, t, a)
  BY TileDropped
<1>2. k = IF d.arena[a].use = 0 THEN o.m ELSE d
  BY DEF SlabRelease, ArenaRelease
<1> HIDE DEF a, d, k
<1>3. /\ Placed(d) /\ ListsOK(d, {}) /\ SameHeaps(m, d) /\ Uses(d) = Uses(m) /\ a \in DOMAIN d.arena
      /\ d.block[a - 1].heap = h /\ (d.arena[a].use = 0 <=> d.arena[a].map = {})
  BY <1>1 DEF Dropped
<1>4. NoEmpty(m, {t}) => /\ \A s \in DOMAIN d.slab : d.slab[s].free < d.slab[s].total
                         /\ \A x \in DOMAIN d.arena \ {a} : d.arena[x].map # {}
  BY <1>1 DEF Dropped, NoEmpty
<1>5. CASE d.arena[a].use # 0
  <2>1. k = d /\ d.arena[a].map # {}
    BY <1>2, <1>3, <1>5
  <2>2. NoEmpty(m, {t}) => NoEmpty(d, {})
    BY <1>4, <2>1 DEF NoEmpty
  <2> QED
    BY <1>3, <2>1, <2>2 DEF Good, k
<1>6. CASE d.arena[a].use = 0
  <2>1. d.arena[a].map = {} /\ k = o.m
    BY <1>2, <1>3, <1>6
  <2>2. /\ Placed(g) /\ SameHeaps(d, g) /\ (\A X : ListsOK(d, X) => ListsOK(g, X))
        /\ g.slab = d.slab /\ DOMAIN g.arena = DOMAIN d.arena \ {a} /\ g.block = d.block
        /\ (\A x \in DOMAIN g.arena : g.arena[x] = d.arena[x])
        /\ b \in DOMAIN d.block /\ OwnBlock(g, b) /\ h \in DOMAIN d.heap
        /\ Uses(g) \ {BlockUse(g, b)} = Uses(d)
    <3> HIDE DEF g, b
    <3> QED
      BY <1>3, <2>1, ArenaGone DEF g, b
  <2> HIDE DEF g
  <2>3. Good(g) /\ h \in DOMAIN g.heap
    BY <1>3, <2>2 DEF Good, SameHeaps
  <2>4. Passes(g, h)
    BY <2>3, GoodValid
  <2>5. b \in DOMAIN g.block /\ h = g.block[b].heap /\ a = b + 1
    <3>1. a \in Nat
      BY <1>3, Types DEF Placed
    <3> QED
      BY <1>3, <2>2, <3>1
  <2>6. /\ Keeps(g, o.m) /\ Step(g, o.m, h, Without(g.block, {b})) /\ Uses(o.m) = Uses(g) \ {BlockUse(g, b)}
    <3> HIDE DEF b
    <3>1. o = HeapFreeBlock(g, h, b + 1)
      BY <2>5
    <3> HIDE DEF o
    <3> QED
      BY <2>2, <2>4, <2>5, <3>1, FreeBlockGives
  <2> HIDE DEF o, b
  <2>7. NoEmpty(m, {t}) => NoEmpty(g, {})
    BY <1>4, <2>2 DEF NoEmpty
  <2>8. SameHeaps(g, o.m)
    BY <2>6, StepSame
  <2>9. SameHeaps(m, o.m)
    BY <1>3, <2>2, <2>8, SameTrans
  <2>10. Placed(o.m) /\ ListsOK(o.m, {}) /\ (NoEmpty(g, {}) => NoEmpty(o.m, {}))
    BY <2>3, <2>6 DEF Keeps, Good
  <2>11. Uses(o.m) = Uses(m)
    BY <1>3, <2>2, <2>6
  <2> QED
    BY <2>1, <2>7, <2>9, <2>10, <2>11 DEF Good, k
<1> QED
  BY <1>5, <1>6 DEF k

(* What a free of u leaves: exactly u is no longer in use.                 *)
Freed(m, o, u) == o.p = u.p /\ Sound(m, o.m) /\ Uses(o.m) = Uses(m) \ {u}

(* __HeapSoaFree of a live cell                                            *)
LEMMA CellFreed ==
  ASSUME NEW m, Good(m), NEW t \in DOMAIN m.slab, NEW i \in LiveIn(m, t), NEW tag
  PROVE  LET u == CellUse(m, t, i)
         IN  Freed(m, SoaFree(m, u.heap, t, u.p, tag), u)
<1> DEFINE u == CellUse(m, t, i)
           p == CellAt(m, t, i)
           h == m.slab[t].heap
           o == SoaFree(m, h, t, p, tag)
<1>1. u.p = p /\ u.heap = h
  BY DEF CellUse, Use
<1>2. PICK k : Returned(m, k, t, i) /\ Settled(k, o, h, t, p)
  <2>1. p = CellAt(m, t, i) /\ h = m.slab[t].heap
    OBVIOUS
  <2> HIDE DEF p, h
  <2> QED
    BY <2>1, CellReturned
<1> HIDE DEF o, u, p
<1>3. /\ Placed(k) /\ SameHeaps(m, k) /\ Uses(k) = Uses(m) \ {u} /\ DOMAIN k.slab = DOMAIN m.slab
      /\ k.slab[t].heap = h
  BY <1>2 DEF Returned, u
<1>4. NoEmpty(m, {}) => NoEmpty(k, {t})
  <2>1. /\ DOMAIN k.slab = DOMAIN m.slab /\ (\A s \in DOMAIN m.slab \ {t} : k.slab[s] = m.slab[s])
        /\ k.arena = m.arena
    BY <1>2 DEF Returned
  <2> QED
    BY <2>1 DEF NoEmpty
<1>5. CASE o = Outcome(k, p) /\ ListsOK(k, {}) /\ k.slab[t].free < k.slab[t].total
  <2>1. NoEmpty(m, {}) => NoEmpty(k, {})
    BY <1>3, <1>4, <1>5 DEF NoEmpty
  <2>2. o.m = k /\ o.p = p
    BY <1>5 DEF Outcome
  <2>3. Sound(m, o.m)
    BY <1>3, <1>5, <2>1, <2>2 DEF Sound, Good
  <2>4. Freed(m, o, u)
    BY <1>1, <1>3, <2>2, <2>3 DEF Freed
  <2> QED
    BY <1>1, <2>4 DEF u, o
<1>6. CASE o = Outcome(SlabRelease(k, h, t), p) /\ ListsOK(k, {t}) /\ k.slab[t].free = k.slab[t].total
  <2> DEFINE l == SlabRelease(k, h, t)
  <2>1. /\ Good(l) /\ SameHeaps(k, l) /\ Uses(l) = Uses(k)
        /\ (NoEmpty(k, {t}) => NoEmpty(l, {}))
    BY <1>3, <1>6, SlabReleased
  <2>2. o.m = l /\ o.p = p
    BY <1>6 DEF Outcome
  <2> HIDE DEF l
  <2>3. SameHeaps(m, l)
    BY <1>3, <2>1, SameTrans
  <2>4. Sound(m, o.m)
    BY <1>4, <2>1, <2>2, <2>3 DEF Sound
  <2>5. Freed(m, o, u)
    BY <1>1, <1>3, <2>1, <2>2, <2>4 DEF Freed
  <2> QED
    BY <1>1, <2>5 DEF u, o
<1> QED
  BY <1>2, <1>5, <1>6, Zenon DEF Settled

(* _HeapFree of any pointer in use succeeds, whatever the data looks like. *)
LEMMA HeapFrees ==
  ASSUME NEW m, Good(m), NEW u \in Uses(m), NEW tag
  PROVE  Freed(m, HeapFree(m, u.heap, u.p, tag), u)
<1>0. Placed(m) /\ ListsOK(m, {})
  BY DEF Good
<1>1. Passes(m, u.heap)
  BY <1>0, UseTypes, GoodValid
<1>2. CASE u \in CellUses(m)
  <2>1. PICK t \in DOMAIN m.slab : \E i \in LiveIn(m, t) : u = CellUse(m, t, i)
    BY <1>2, CellUsed
  <2>2. PICK i \in LiveIn(m, t) : u = CellUse(m, t, i)
    BY <2>1
  <2>3. SlabFromPtr(m, u.p) = t /\ t # Null /\ u.heap = m.slab[t].heap
    BY <1>0, <2>2, CellUseIs
  <2>4. HeapFree(m, u.heap, u.p, tag) = SoaFree(m, u.heap, t, u.p, tag)
    BY <1>1, <2>3 DEF HeapFree
  <2>5. Freed(m, SoaFree(m, u.heap, t, u.p, tag), u)
    BY <2>2, CellFreed
  <2> QED
    BY <2>4, <2>5
<1>3. CASE u \in BlockUses(m)
  <2>1. PICK b \in DOMAIN m.block : OwnBlock(m, b) /\ u = BlockUse(m, b)
    BY <1>3, BlockUsed
  <2>2. u.p = b + 1 /\ u.heap = m.block[b].heap /\ SlabFromPtr(m, u.p) = Null
    BY <1>0, <2>1, BlockUseIs
  <2> DEFINE o == HeapFreeBlock(m, u.heap, b + 1)
  <2>3. HeapFree(m, u.heap, u.p, tag) = o
    BY <1>1, <2>2 DEF HeapFree
  <2>4. /\ o.p = b + 1 /\ Keeps(m, o.m) /\ Step(m, o.m, u.heap, Without(m.block, {b}))
        /\ Uses(o.m) = Uses(m) \ {u}
    BY <1>0, <1>1, <2>1, <2>2, FreeBlockGives
  <2> HIDE DEF o
  <2>5. Sound(m, o.m)
    <3>1. SameHeaps(m, o.m)
      BY <2>4, StepSame
    <3> QED
      BY <1>0, <2>4, <3>1 DEF Sound, Keeps, Good
  <2> QED
    BY <2>2, <2>3, <2>4, <2>5 DEF Freed
<1> QED
  BY <1>2, <1>3 DEF Uses

(* A second free of a cell is refused and changes nothing.                 *)
LEMMA NoSecondFree ==
  ASSUME NEW m, Good(m), NEW t \in DOMAIN m.slab, NEW i, i \in ToSet(m.slab[t].list),
         NEW h \in DOMAIN m.heap
  PROVE  HeapFree(m, h, CellAt(m, t, i), TRUE) = Outcome(m, Null)
<1> DEFINE p == CellAt(m, t, i)
<1>0. Placed(m)
  BY DEF Good
<1>1. i \in 0 .. m.slab[t].total - 1
  BY <1>0 DEF Placed, SlabsOK
<1>2. SlabFromPtr(m, p) = t /\ CellIndex(m, t, p) = i /\ t # Null
  BY <1>0, <1>1, CellPtr, SlabPlace
<1> HIDE DEF p
<1>3. FoundFree(m.slab[t], i)
  BY DEF FoundFree
<1>4. SoaFree(m, h, t, p, TRUE) = Outcome(m, Null)
  <2> DEFINE j == CellIndex(m, t, p)
  <2>1. FoundFree(m.slab[t], j)
    BY <1>2, <1>3
  <2> HIDE DEF j
  <2> QED
    BY <2>1 DEF SoaFree, j
<1>5. Passes(m, h)
  BY GoodValid
<1>6. HeapFree(m, h, p, TRUE) = Outcome(m, Null)
  BY <1>2, <1>4, <1>5 DEF HeapFree
<1> QED
  BY <1>6 DEF p
-----------------------------------------------------------------------------
(* What a reallocation of u to n leaves: u is traded for a pointer to at   *)
(* least n of the same heap, or nothing is changed that is in use.         *)
Regiven(m, o, u, n) ==
  /\ Sound(m, o.m)
  /\ IF o.p = Null THEN Uses(o.m) = Uses(m)
     ELSE \E v : /\ v.p = o.p /\ v.n >= n /\ v.heap = u.heap /\ v \notin Uses(m) \ {u}
                 /\ Uses(o.m) = (Uses(m) \ {u}) \cup {v}

(* A cell in use stays a cell of its tile while it is in use.              *)
LEMMA CellStays ==
  ASSUME NEW m, Placed(m), NEW t \in DOMAIN m.slab, NEW i \in LiveIn(m, t),
         NEW k, Placed(k), CellUse(m, t, i) \in CellUses(k)
  PROVE  t \in DOMAIN k.slab /\ \E j \in LiveIn(k, t) : CellUse(k, t, j) = CellUse(m, t, i)
<1> DEFINE u == CellUse(m, t, i)
           p == u.p
<1>1. PICK s \in DOMAIN k.slab : \E j \in LiveIn(k, s) : u = CellUse(k, s, j)
  BY CellUsed
<1>2. PICK j \in LiveIn(k, s) : u = CellUse(k, s, j)
  BY <1>1
<1>3. i \in 0 .. m.slab[t].total - 1 /\ p = CellAt(m, t, i)
  BY CellUseIs
<1>4. j \in 0 .. k.slab[s].total - 1 /\ p = CellAt(k, s, j)
  BY <1>2, CellUseIs
<1> HIDE DEF u, p
<1>5. p \in Nat /\ t < p /\ \E n \in Nat \ {0} : p + n <= t + SlabSize
  BY <1>3, CellPtr
<1>6. p \in Nat /\ s < p /\ \E n \in Nat \ {0} : p + n <= s + SlabSize
  BY <1>4, CellPtr
<1>7. t \in Nat /\ t % SlabSize = 0 /\ s \in Nat /\ s % SlabSize = 0
  BY SlabPlace
<1>8. p < t + SlabSize /\ p < s + SlabSize
  BY <1>5, <1>6, <1>7, Consts
<1>9. ~ (t < s) /\ ~ (s < t)
  BY <1>5, <1>6, <1>7, <1>8, TilesApart, Consts
<1>10. s = t
  BY <1>7, <1>9
<1> QED
  BY <1>1, <1>2, <1>10 DEF u

(* A new pointer, and then a free of the old one.                          *)
LEMMA MoveDone ==
  ASSUME NEW m, NEW h, NEW u \in Uses(m), u.heap = h, NEW n, NEW x, Served(m, x, h, n),
         x.p # Null, NEW f, Freed(x.m, f, u)
  PROVE  Regiven(m, Outcome(f.m, x.p), u, n)
<1> DEFINE o == Outcome(f.m, x.p)
<1>1. o.m = f.m /\ o.p = x.p
  BY DEF Outcome
<1> HIDE DEF o
<1>2. Sound(m, o.m)
  BY <1>1, SoundTrans DEF Served, Freed
<1>3. PICK v : v.p = x.p /\ v.n >= n /\ v.heap = h /\ v \notin Uses(m) /\ Uses(x.m) = Uses(m) \cup {v}
  BY DEF Served, Gives
<1>4. Uses(o.m) = (Uses(m) \ {u}) \cup {v}
  BY <1>1, <1>3 DEF Freed
<1>5. v.p = o.p /\ v.n >= n /\ v.heap = u.heap /\ v \notin Uses(m) \ {u}
  BY <1>1, <1>3
<1>6. o.p # Null
  BY <1>1
<1>7. \E w : /\ w.p = o.p /\ w.n >= n /\ w.heap = u.heap /\ w \notin Uses(m) \ {u}
             /\ Uses(o.m) = (Uses(m) \ {u}) \cup {w}
  BY <1>4, <1>5
<1>8. Regiven(m, o, u, n)
  BY <1>2, <1>6, <1>7 DEF Regiven
<1> QED
  BY <1>8 DEF o

(* No change is sound.                                                     *)
LEMMA SoundRefl ==
  ASSUME NEW m, Good(m)
  PROVE  Sound(m, m)
BY DEF Sound, SameHeaps

(* A refused reallocation.                                                 *)
LEMMA NotServed ==
  ASSUME NEW m, NEW u, NEW n, NEW h, NEW x, Served(m, x, h, n), x.p = Null
  PROVE  Regiven(m, x, u, n)
BY DEF Regiven, Served

(* __HeapSoaReAlloc of a live cell                                         *)
LEMMA SoaRegiven ==
  ASSUME NEW m, Good(m), NEW t \in DOMAIN m.slab, NEW i \in LiveIn(m, t), NEW n \in Nat \ {0}, NEW tag
  PROVE  LET u == CellUse(m, t, i)
         IN  Regiven(m, SoaReAlloc(m, u.heap, t, u.p, n, tag), u, n)
<1> DEFINE u == CellUse(m, t, i)
           h == u.heap
           p == u.p
           o == SoaReAlloc(m, h, t, p, n, tag)
           here == n \in 1 .. SoaMax /\ SizeToClass(n) = m.slab[t].cls
           x == IF n \in 1 .. SoaMax THEN SoaAlloc(m, h, n) ELSE HeapAlloc(m, h, n)
           f == SoaFree(x.m, h, t, p, tag)
<1>0. Placed(m)
  BY DEF Good
<1>1. u \in CellUses(m) /\ u \in Uses(m)
  BY CellUsed DEF Uses
<1>2. /\ p = CellAt(m, t, i) /\ u.n = CellSz[m.slab[t].cls] /\ h = m.slab[t].heap
      /\ p \in Nat /\ t \in Nat /\ t # Null /\ t < p /\ h \in DOMAIN m.heap /\ p # Null
  <2>1. i \in 0 .. m.slab[t].total - 1
    BY <1>0, CellUseIs
  <2>2. p = CellAt(m, t, i) /\ u.n = CellSz[m.slab[t].cls] /\ h = m.slab[t].heap /\ p \in Nat
    BY <1>0, CellUseIs
  <2>3. t < CellAt(m, t, i)
    BY <1>0, <2>1, CellPtr
  <2>4. t \in Nat /\ t # Null /\ m.slab[t].heap \in DOMAIN m.heap
    BY <1>0, SlabPlace
  <2> QED
    BY <2>2, <2>3, <2>4 DEF Null
<1>3. o = IF here THEN Outcome(m, p) ELSE IF x.p = Null THEN x ELSE Outcome(f.m, x.p)
  BY DEF SoaReAlloc, Then
<1> HIDE DEF o, h, p, u
<1>4. CASE here
  <2>1. u.n >= n
    BY <1>2, <1>4, ClassServes
  <2>2. u \notin Uses(m) \ {u} /\ Uses(m) = (Uses(m) \ {u}) \cup {u}
    BY <1>1
  <2>3. o.p = p /\ o.m = m
    BY <1>3, <1>4 DEF Outcome
  <2>4. Sound(m, m)
    BY SoundRefl
  <2> QED
    BY <1>2, <2>1, <2>2, <2>3, <2>4 DEF Regiven, o, p, h, u
<1>5. CASE ~ here
  <2>1. Served(m, x, h, n)
    BY <1>2, SoaServes, HeapServes
  <2> HIDE DEF x
  <2>2. CASE x.p = Null
    <3>1. Regiven(m, x, u, n)
      BY <2>1, <2>2, NotServed
    <3> QED
      BY <1>3, <1>5, <2>2, <3>1 DEF o, p, h, u
  <2>3. CASE x.p # Null
    <3>1. Good(x.m) /\ u \in CellUses(x.m)
      BY <1>1, <2>1 DEF Served, Sound
    <3>2. t \in DOMAIN x.m.slab /\ \E j \in LiveIn(x.m, t) : CellUse(x.m, t, j) = u
      BY <1>0, <3>1, CellStays DEF Good, u
    <3>3. Freed(x.m, f, u)
      BY <3>1, <3>2, CellFreed DEF h, p
    <3> HIDE DEF f
    <3>4. Regiven(m, Outcome(f.m, x.p), u, n)
      BY <1>1, <2>1, <2>3, <3>3, MoveDone DEF h
    <3> QED
      BY <1>3, <1>5, <2>3, <3>4 DEF o, p, h, u
  <2> QED
    BY <2>2, <2>3
<1> QED
  BY <1>4, <1>5 DEF o, p, h, u

(* _HeapReAlloc of a block of the clients' own                             *)
LEMMA BlockRegiven ==
  ASSUME NEW m, Good(m), NEW b \in DOMAIN m.block, OwnBlock(m, b), NEW n \in Nat \ {0}, NEW tag
  PROVE  LET u == BlockUse(m, b)
         IN  Regiven(m, BlockReAlloc(m, u.heap, u.p, n, tag), u, n)
<1> DEFINE u == BlockUse(m, b)
           h == u.heap
           p == u.p
           o == BlockReAlloc(m, h, p, n, tag)
           size == m.block[b].size
           Behind(g) == g.at = b + size /\ g.len >= n + 1 - size
           k == IF size >= n + 1 THEN IF size = n + 2 THEN size ELSE n + 1 ELSE n + 1
           here == size >= n + 1 \/ \E g \in Gaps(m, h) : Behind(g)
           x == HeapAlloc(m, h, n)
           f == HeapFree(x.m, h, p, tag)
           r == WithBlocks(m, h, [m.block EXCEPT ![b].size = k])
<1>0. Placed(m)
  BY DEF Good
<1>1. u \in Uses(m)
  BY BlockUsed DEF Uses
<1>2. /\ p = b + 1 /\ p - 1 = b /\ u.n = size - 1 /\ h = m.block[b].heap /\ p \in Nat
      /\ size \in Nat /\ size >= 2 /\ h \in DOMAIN m.heap /\ b \in Nat /\ p # Null
  <2>1. p = b + 1 /\ p - 1 = b /\ u.n = size - 1 /\ h = m.block[b].heap /\ p \in Nat
    BY <1>0, BlockUseIs
  <2>2. size \in Nat /\ size >= 2 /\ m.block[b].heap \in DOMAIN m.heap /\ b \in Nat
    BY <1>0, Types DEF Placed, BlocksOK
  <2> QED
    BY <2>1, <2>2 DEF Null
<1> HIDE DEF h, p, u
<1>3. o = IF here THEN Outcome(r, p) ELSE IF x.p = Null THEN x ELSE Outcome(f.m, x.p)
  BY <1>2 DEF BlockReAlloc, Then
<1> HIDE DEF o
<1>4. CASE here
  <2>1. k \in Nat /\ k >= n + 1 /\ k >= 2
    BY <1>2
  <2>2. \/ k <= size
        \/ \E g \in Gaps(m, h) : g.at = End(m, b) /\ g.len >= k - size
    BY <1>2, <1>4 DEF End
  <2> HIDE DEF k, here
  <2>3. /\ Keeps(m, r) /\ Step(m, r, h, [m.block EXCEPT ![b].size = k])
        /\ Uses(r) = (Uses(m) \ {u}) \cup {Use(b + 1, k - 1, h)}
    BY <1>0, <1>2, <2>1, <2>2, ResizeBlock DEF u
  <2> DEFINE v == Use(b + 1, k - 1, h)
  <2>4. v.p = p /\ v.n >= n /\ v.heap = h
    BY <1>2, <2>1 DEF Use
  <2> HIDE DEF v
  <2>5. ASSUME v \in Uses(m) \ {u} PROVE FALSE
    BY <1>0, <1>1, <2>4, <2>5, UsesDistinct DEF p
  <2>6. Sound(m, r)
    <3>1. SameHeaps(m, r)
      BY <2>3, StepSame
    <3> QED
      BY <2>3, <3>1 DEF Sound, Keeps, Good
  <2> HIDE DEF r
  <2>7. o.p = p /\ o.m = r
    BY <1>3, <1>4 DEF Outcome
  <2>8. Uses(r) = (Uses(m) \ {u}) \cup {v}
    BY <2>3 DEF v
  <2>9. Regiven(m, o, u, n)
    BY <1>2, <2>4, <2>5, <2>6, <2>7, <2>8 DEF Regiven, h
  <2> QED
    BY <2>9 DEF o, p, h, u
<1>5. CASE ~ here
  <2>1. Served(m, x, h, n)
    BY <1>2, HeapServes
  <2> HIDE DEF x, here
  <2>2. CASE x.p = Null
    <3>1. Regiven(m, x, u, n)
      BY <2>1, <2>2, NotServed
    <3> QED
      BY <1>3, <1>5, <2>2, <3>1 DEF o, p, h, u
  <2>3. CASE x.p # Null
    <3>1. Good(x.m) /\ u \in Uses(x.m)
      BY <1>1, <2>1, <2>3 DEF Served, Sound, Gives
    <3>2. Freed(x.m, f, u)
      BY <3>1, HeapFrees DEF h, p
    <3> HIDE DEF f
    <3>3. Regiven(m, Outcome(f.m, x.p), u, n)
      BY <1>1, <2>1, <2>3, <3>2, MoveDone DEF h
    <3> QED
      BY <1>3, <1>5, <2>3, <3>3 DEF o, p, h, u
  <2> QED
    BY <2>2, <2>3
<1> QED
  BY <1>4, <1>5 DEF o, p, h, u

(* _HeapReAlloc of any pointer in use.                                     *)
LEMMA HeapRegives ==
  ASSUME NEW m, Good(m), NEW u \in Uses(m), NEW n \in Nat \ {0}, NEW tag
  PROVE  Regiven(m, HeapReAlloc(m, u.heap, u.p, n, tag), u, n)
<1>0. Placed(m)
  BY DEF Good
<1>1. Passes(m, u.heap)
  BY <1>0, UseTypes, GoodValid
<1>2. CASE u \in CellUses(m)
  <2>1. PICK t \in DOMAIN m.slab : \E i \in LiveIn(m, t) : u = CellUse(m, t, i)
    BY <1>2, CellUsed
  <2>2. PICK i \in LiveIn(m, t) : u = CellUse(m, t, i)
    BY <2>1
  <2>3. SlabFromPtr(m, u.p) = t /\ t # Null /\ u.heap = m.slab[t].heap
    BY <1>0, <2>2, CellUseIs
  <2>4. HeapReAlloc(m, u.heap, u.p, n, tag) = SoaReAlloc(m, u.heap, t, u.p, n, tag)
    BY <1>1, <2>3 DEF HeapReAlloc
  <2>5. Regiven(m, SoaReAlloc(m, u.heap, t, u.p, n, tag), u, n)
    BY <2>2, SoaRegiven
  <2> QED
    BY <2>4, <2>5
<1>3. CASE u \in BlockUses(m)
  <2>1. PICK b \in DOMAIN m.block : OwnBlock(m, b) /\ u = BlockUse(m, b)
    BY <1>3, BlockUsed
  <2>2. u.p - 1 = b /\ u.heap = m.block[b].heap /\ SlabFromPtr(m, u.p) = Null
    BY <1>0, <2>1, BlockUseIs
  <2>3. HeapReAlloc(m, u.heap, u.p, n, tag) = BlockReAlloc(m, u.heap, u.p, n, tag)
    BY <1>1, <2>1, <2>2 DEF HeapReAlloc
  <2>4. Regiven(m, BlockReAlloc(m, u.heap, u.p, n, tag), u, n)
    BY <2>1, BlockRegiven
  <2> QED
    BY <2>3, <2>4
<1> QED
  BY <1>2, <1>3 DEF Uses
=============================================================================
