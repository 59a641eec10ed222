---------------------------- MODULE Malloc_proofs ----------------------------
(***************************************************************************)
(* First what compaction, an enumeration, and the making and the end of a  *)
(* heap do to the pointers in use.  Then malloc, free and realloc with the *)
(* scratch arena: in every state the pointers that lib/heap has in use are *)
(* those the clients hold, and what follows of them.                       *)
(***************************************************************************)
EXTENDS Malloc, SmallHeap_proofs

(* A flattened sequence of sequences, which may be empty.                  *)
LEMMA FlatSet ==
  ASSUME NEW A, NEW n \in Nat, NEW s \in [1 .. n -> Seq(A)]
  PROVE  /\ FlattenSeq(s) \in Seq(A)
         /\ \A x : x \in ToSet(FlattenSeq(s)) <=> \E i \in 1 .. n : x \in ToSet(s[i])
         /\ (/\ \A i \in 1 .. n : Once(s[i])
             /\ \A i, j \in 1 .. n : i # j => ToSet(s[i]) \cap ToSet(s[j]) = {})
            => Once(FlattenSeq(s))
<1>1. CASE n = 0
  <2>1. s = <<>>
    <3>1. s \in Seq(Seq(A)) /\ Len(s) = 0
      BY <1>1, IsASeq
    <3> QED
      BY <3>1, SeqSet
  <2>2. FlattenSeq(s) = <<>>
    BY <2>1 DEF FlattenSeq
  <2> QED
    BY <1>1, <2>2, EmptyList
<1>2. CASE n # 0
  <2>1. /\ FlattenSeq(s) \in Seq(A)
        /\ \A x : Holds(FlattenSeq(s), x) <=> \E i \in 1 .. n : Holds(s[i], x)
        /\ Disjoint(s, n) => Once(FlattenSeq(s))
    BY <1>2, Flattened
  <2>2. ASSUME \A i \in 1 .. n : Once(s[i]),
               \A i, j \in 1 .. n : i # j => ToSet(s[i]) \cap ToSet(s[j]) = {}
        PROVE  Once(FlattenSeq(s))
    <3>1. Disjoint(s, n)
      BY <2>2, SetHolds DEF Disjoint
    <3> QED
      BY <2>1, <3>1
  <2> QED
    BY <2>1, <2>2, SetHolds
<1> QED
  BY <1>1, <1>2

(* The tiles of an arena in the order of its map.                          *)
LEMMA ArenaTiles ==
  ASSUME NEW m, Placed(m), NEW a \in DOMAIN m.arena
  PROVE  LET s == Only([i \in 1 .. m.arena[a].slabs |-> TileAt(m, a, i - 1)], Tiles(m, a))
         IN  s \in Seq(Nat) /\ ToSet(s) = Tiles(m, a) /\ Once(s)
<1> DEFINE n == m.arena[a].slabs
           q == [i \in 1 .. n |-> TileAt(m, a, i - 1)]
<1>0. n \in Nat
  BY Types DEF Placed
<1> HIDE DEF n
<1>1. ASSUME NEW i \in 1 .. n
      PROVE  /\ i - 1 \in 0 .. n - 1 /\ TileAt(m, a, i - 1) \in Nat
             /\ (TileAt(m, a, i - 1) - m.arena[a].base) \div SlabSize = i - 1
  <2>1. i - 1 \in 0 .. n - 1
    BY <1>0
  <2> QED
    BY <2>1, TilePlace DEF n
<1>2. q \in Seq(Nat) /\ DOMAIN q = 1 .. n
  BY <1>0, <1>1, IsASeq
<1>3. Once(q)
  <2>1. ASSUME NEW i \in 1 .. n, NEW j \in 1 .. n, q[i] = q[j] PROVE i = j
    <3>1. TileAt(m, a, i - 1) = TileAt(m, a, j - 1)
      BY <2>1
    <3>2. i - 1 = j - 1
      BY <1>1, <3>1
    <3> QED
      BY <1>0, <3>2
  <2> QED
    BY <1>2, <2>1 DEF Once
<1>4. Tiles(m, a) \subseteq ToSet(q)
  <2>1. ASSUME NEW i \in m.arena[a].map PROVE TileAt(m, a, i) \in ToSet(q)
    <3>1. i \in 0 .. n - 1
      BY DEF Placed, ArenasOK, n
    <3> DEFINE j == i + 1
    <3>2. j \in 1 .. n /\ j - 1 = i
      BY <1>0, <3>1
    <3> HIDE DEF j
    <3>3. q[j] = TileAt(m, a, i)
      BY <3>2
    <3> HIDE DEF q
    <3> QED
      BY <1>2, <3>2, <3>3 DEF ToSet
  <2> QED
    BY <2>1 DEF Tiles
<1> HIDE DEF q
<1>5. /\ Only(q, Tiles(m, a)) \in Seq(Nat) /\ ToSet(Only(q, Tiles(m, a))) = ToSet(q) \cap Tiles(m, a)
      /\ Once(q) => Once(Only(q, Tiles(m, a)))
  BY <1>2, OnlySet
<1>6. /\ Only(q, Tiles(m, a)) \in Seq(Nat) /\ ToSet(Only(q, Tiles(m, a))) = Tiles(m, a)
      /\ Once(Only(q, Tiles(m, a)))
  BY <1>3, <1>4, <1>5
<1> QED
  BY <1>6 DEF q, n

(* The walk over the live tiles of a heap meets each slab of it once.      *)
LEMMA LiveTilesAre ==
  ASSUME NEW m, Placed(m), NEW h \in DOMAIN m.heap
  PROVE  /\ LiveTiles(m, h) \in Seq(Nat) /\ ToSet(LiveTiles(m, h)) = SlabsOf(m, h)
         /\ Once(LiveTiles(m, h))
<1> DEFINE A == m.heap[h].arenas
           n == Len(A)
           Of(a) == Only([i \in 1 .. m.arena[a].slabs |-> TileAt(m, a, i - 1)], Tiles(m, a))
           s == [k \in DOMAIN A |-> Of(A[k])]
<1>1. A \in Seq(Nat) /\ n \in Nat /\ DOMAIN A = 1 .. n
  BY Types, SeqSet DEF Placed
<1>2. /\ Once(A) /\ ToSet(A) = {a \in DOMAIN m.arena : m.block[a - 1].heap = h}
  BY DEF Placed, ArenasOK
<1>3. \A k \in 1 .. n : A[k] \in DOMAIN m.arena /\ m.block[A[k] - 1].heap = h
  BY <1>1, <1>2 DEF ToSet
<1>4. LiveTiles(m, h) = FlattenSeq(s)
  BY DEF LiveTiles
<1>5. \A a \in DOMAIN m.arena : Of(a) \in Seq(Nat) /\ ToSet(Of(a)) = Tiles(m, a) /\ Once(Of(a))
  BY ArenaTiles
<1> HIDE DEF A, n, Of
<1>6. s \in [1 .. n -> Seq(Nat)] /\ \A k \in 1 .. n : ToSet(s[k]) = Tiles(m, A[k]) /\ Once(s[k])
  BY <1>1, <1>3, <1>5
<1>7. \A a \in DOMAIN m.arena : \A t \in Tiles(m, a) : t \in DOMAIN m.slab /\ m.slab[t].arena = a
  BY DEF Placed, SlabsOK
<1>8. \A t \in DOMAIN m.slab : /\ m.slab[t].arena \in DOMAIN m.arena /\ t \in Tiles(m, m.slab[t].arena)
                               /\ m.slab[t].heap = m.block[m.slab[t].arena - 1].heap
  BY DEF Placed, SlabsOK
<1> HIDE DEF s
<1>9. ASSUME NEW i \in 1 .. n, NEW j \in 1 .. n, i # j PROVE ToSet(s[i]) \cap ToSet(s[j]) = {}
  <2>1. A[i] # A[j]
    BY <1>1, <1>2, <1>9 DEF Once
  <2>2. A[i] \in DOMAIN m.arena /\ A[j] \in DOMAIN m.arena
    BY <1>3
  <2>3. ToSet(s[i]) = Tiles(m, A[i]) /\ ToSet(s[j]) = Tiles(m, A[j])
    BY <1>6
  <2>4. \A t \in Tiles(m, A[i]) \cap Tiles(m, A[j]) : m.slab[t].arena = A[i] /\ m.slab[t].arena = A[j]
    BY <1>7, <2>2
  <2> QED
    BY <2>1, <2>3, <2>4
<1>10. /\ FlattenSeq(s) \in Seq(Nat) /\ Once(FlattenSeq(s))
       /\ \A x : x \in ToSet(FlattenSeq(s)) <=> \E i \in 1 .. n : x \in ToSet(s[i])
  <2>1. n \in Nat /\ s \in [1 .. n -> Seq(Nat)]
    BY <1>1, <1>6
  <2>2. /\ FlattenSeq(s) \in Seq(Nat)
        /\ \A x : x \in ToSet(FlattenSeq(s)) <=> \E i \in 1 .. n : x \in ToSet(s[i])
        /\ (/\ \A i \in 1 .. n : Once(s[i])
            /\ \A i, j \in 1 .. n : i # j => ToSet(s[i]) \cap ToSet(s[j]) = {})
           => Once(FlattenSeq(s))
    BY <2>1, FlatSet
  <2> QED
    BY <1>6, <1>9, <2>2
<1>11. ASSUME NEW t PROVE t \in ToSet(FlattenSeq(s)) <=> t \in SlabsOf(m, h)
  <2>1. ASSUME NEW i \in 1 .. n, t \in Tiles(m, A[i]) PROVE t \in SlabsOf(m, h)
    BY <1>3, <1>7, <1>8, <2>1 DEF SlabsOf
  <2>2. ASSUME t \in SlabsOf(m, h) PROVE \E i \in 1 .. n : t \in Tiles(m, A[i])
    <3>1. t \in DOMAIN m.slab /\ m.slab[t].heap = h
      BY <2>2 DEF SlabsOf
    <3>2. m.slab[t].arena \in ToSet(A)
      BY <1>2, <1>8, <3>1
    <3> QED
      BY <1>1, <1>8, <3>1, <3>2 DEF ToSet
  <2> QED
    BY <1>6, <1>10, <2>1, <2>2
<1> QED
  BY <1>4, <1>10, <1>11

(* Nothing is swept from a memory in which nothing is kept for nobody.     *)
LEMMA CompactSame ==
  ASSUME NEW m, Good(m), NoEmpty(m, {}), NEW h \in DOMAIN m.heap
  PROVE  SoaCompact(m, h) = m
<1> DEFINE s == LiveTiles(m, h)
           n == Len(s)
           D == DOMAIN s
           Swept(k, t) == IF k.slab[t].free = k.slab[t].total
                          THEN SlabRelease(Unlist(k, h, t, k.slab[t].cls), h, t) ELSE k
           Eqn(f) == f = [S \in SUBSET D |-> IF S = {} THEN m
                                             ELSE Swept(f[S \ {Max(S)}], s[Max(S)])]
           F == CHOOSE f : Eqn(f)
<1>1. SoaCompact(m, h) = IF m.heap[h].scb = Null THEN m ELSE F[D]
  BY DEF SoaCompact, FoldLeft, MapThenFoldSet
<1>2. s \in Seq(Nat) /\ ToSet(s) = SlabsOf(m, h)
  BY LiveTilesAre DEF Good
<1>3. n \in Nat /\ D = 1 .. n
  BY <1>2, SeqSet
<1>4. ASSUME NEW i \in D PROVE Swept(m, s[i]) = m
  <2>1. s[i] \in ToSet(s)
    BY DEF ToSet
  <2>2. s[i] \in DOMAIN m.slab
    BY <1>2, <2>1 DEF SlabsOf
  <2>3. m.slab[s[i]].free < m.slab[s[i]].total
    BY <2>2 DEF NoEmpty
  <2>4. m.slab[s[i]].free \in Nat /\ m.slab[s[i]].total \in Nat
    BY <2>2, SlabCount DEF Good
  <2> QED
    BY <2>3, <2>4
<1> HIDE DEF s, n, D, Swept
<1>5. ASSUME NEW S \in SUBSET D, S # {} PROVE Max(S) \in D
  <2>1. S \in SUBSET (0 .. n)
    BY <1>3
  <2>2. Max(S) \in S
    BY <1>3, <1>5, <2>1, MaxNat
  <2> QED
    BY <2>2
<1> DEFINE g == [S \in SUBSET D |-> m]
<1>6. Eqn(g)
  <2>1. ASSUME NEW S \in SUBSET D
        PROVE  g[S] = IF S = {} THEN m ELSE Swept(g[S \ {Max(S)}], s[Max(S)])
    <3>1. S \ {Max(S)} \in SUBSET D
      OBVIOUS
    <3>2. g[S] = m /\ g[S \ {Max(S)}] = m
      BY <3>1
    <3> HIDE DEF g
    <3> QED
      BY <1>4, <1>5, <3>2
  <2> QED
    BY <2>1
<1>7. Eqn(F)
  <2> HIDE DEF g, Eqn
  <2> QED
    BY <1>6
<1> HIDE DEF F
<1>8. \A S \in SUBSET D : F[S] = IF S = {} THEN m ELSE Swept(F[S \ {Max(S)}], s[Max(S)])
  BY <1>7
<1> HIDE DEF Eqn
<1> DEFINE P == {k \in 0 .. n : F[1 .. k] = m}
<1>9. 0 \in P
  <2>1. 1 .. 0 = {} /\ 0 \in 0 .. n
    BY <1>3
  <2>2. F[1 .. 0] = m
    BY <1>8, <2>1
  <2> QED
    BY <2>1, <2>2
<1>10. ASSUME NEW k \in 0 .. n - 1, k \in P PROVE k + 1 \in P
  <2> DEFINE S == 1 .. k + 1
  <2>1. S \in SUBSET D /\ S # {} /\ k + 1 \in 0 .. n /\ S \in SUBSET (0 .. n) /\ k + 1 \in S
    BY <1>3
  <2>2. Max(S) \in S /\ \A y \in S : Max(S) >= y
    BY <1>3, <2>1, MaxNat
  <2>3. Max(S) = k + 1
    BY <1>3, <2>1, <2>2
  <2>4. S \ {Max(S)} = 1 .. k
    BY <1>3, <2>3
  <2>5. F[1 .. k] = m
    BY <1>10
  <2> HIDE DEF S
  <2>6. F[S] = Swept(m, s[Max(S)])
    BY <1>8, <2>1, <2>4, <2>5
  <2>7. F[S] = m
    BY <1>4, <1>5, <2>1, <2>6
  <2> QED
    BY <2>1, <2>7 DEF S
<1>11. n \in P
  <2> HIDE DEF P
  <2> QED
    BY <1>3, <1>9, <1>10, SetInduction
<1> QED
  BY <1>1, <1>3, <1>11

(* _HeapCompact of such a memory says how large a block it has.            *)
LEMMA CompactFinds ==
  ASSUME NEW m, Good(m), NoEmpty(m, {}), NEW h \in DOMAIN m.heap
  PROVE  HeapCompact(m, h).m = m /\ HeapCompact(m, h).p \in Nat
<1> DEFINE S == {g.len - 1 : g \in Gaps(m, h)} \cup {0}
           x == Limit(m, h)
<1>1. SoaCompact(m, h) = m /\ Passes(m, h)
  BY CompactSame, GoodValid
<1>2. HeapCompact(m, h).m = m /\ HeapCompact(m, h).p = Max(S)
  BY <1>1 DEF HeapCompact, Outcome
<1>3. x \in Nat /\ \A g \in Gaps(m, h) : g.at \in Nat /\ g.len \in Nat \ {0} /\ g.at + g.len <= x
  BY LimitNat, GapRoom DEF Good
<1> HIDE DEF x
<1>4. S \in SUBSET (0 .. x) /\ S # {} /\ \A y \in S : y \in Nat
  BY <1>3
<1> HIDE DEF S
<1>5. Max(S) \in S
  BY <1>3, <1>4, MaxNat
<1>6. Max(S) \in Nat
  BY <1>4, <1>5
<1> QED
  BY <1>2, <1>6

(* The live cells of a tile in the order of their addresses.               *)
LEMMA TileCells ==
  ASSUME NEW m, Placed(m), NEW t \in DOMAIN m.slab
  PROVE  LET C == {CellAt(m, t, i) : i \in LiveIn(m, t)}
             s == Only([i \in 1 .. m.slab[t].total |-> CellAt(m, t, i - 1)], C)
         IN  s \in Seq(Nat) /\ ToSet(s) = C /\ Once(s)
<1> DEFINE n == m.slab[t].total
           C == {CellAt(m, t, i) : i \in LiveIn(m, t)}
           q == [i \in 1 .. n |-> CellAt(m, t, i - 1)]
<1>0. n \in Nat
  BY Types DEF Placed
<1> HIDE DEF n
<1>1. ASSUME NEW i \in 1 .. n
      PROVE  /\ i - 1 \in 0 .. n - 1 /\ CellAt(m, t, i - 1) \in Nat
             /\ CellIndex(m, t, CellAt(m, t, i - 1)) = i - 1
  <2>1. i - 1 \in 0 .. n - 1
    BY <1>0
  <2> QED
    BY <2>1, CellPtr DEF n
<1>2. q \in Seq(Nat) /\ DOMAIN q = 1 .. n
  BY <1>0, <1>1, IsASeq
<1>3. Once(q)
  <2>1. ASSUME NEW i \in 1 .. n, NEW j \in 1 .. n, q[i] = q[j] PROVE i = j
    <3>1. CellAt(m, t, i - 1) = CellAt(m, t, j - 1)
      BY <2>1
    <3>2. i - 1 = j - 1
      BY <1>1, <3>1
    <3> QED
      BY <1>0, <3>2
  <2> QED
    BY <1>2, <2>1 DEF Once
<1>4. C \subseteq ToSet(q)
  <2>1. ASSUME NEW i \in LiveIn(m, t) PROVE CellAt(m, t, i) \in ToSet(q)
    <3>1. i \in 0 .. n - 1
      BY DEF LiveIn, n
    <3> DEFINE j == i + 1
    <3>2. j \in 1 .. n /\ j - 1 = i
      BY <1>0, <3>1
    <3> HIDE DEF j
    <3>3. q[j] = CellAt(m, t, i)
      BY <3>2
    <3> HIDE DEF q
    <3> QED
      BY <1>2, <3>2, <3>3 DEF ToSet
  <2> QED
    BY <2>1
<1> HIDE DEF q, C
<1>5. /\ Only(q, C) \in Seq(Nat) /\ ToSet(Only(q, C)) = ToSet(q) \cap C
      /\ Once(q) => Once(Only(q, C))
  BY <1>2, OnlySet
<1>6. Only(q, C) \in Seq(Nat) /\ ToSet(Only(q, C)) = C /\ Once(Only(q, C))
  BY <1>3, <1>4, <1>5
<1> QED
  BY <1>6 DEF q, n, C

(* An enumeration meets each live cell of the heap once.                   *)
LEMMA WalkIs ==
  ASSUME NEW m, Placed(m), NEW h \in DOMAIN m.heap
  PROVE  /\ Walked(m, h) \in Seq(Nat) /\ ToSet(Walked(m, h)) = {u.p : u \in CellsIn(m, h)}
         /\ Once(Walked(m, h))
<1> DEFINE T == LiveTiles(m, h)
           n == Len(T)
           C(t) == {CellAt(m, t, i) : i \in LiveIn(m, t)}
           Of(t) == Only([i \in 1 .. m.slab[t].total |-> CellAt(m, t, i - 1)], C(t))
           s == [k \in DOMAIN T |-> Of(T[k])]
<1>1. T \in Seq(Nat) /\ ToSet(T) = SlabsOf(m, h) /\ Once(T)
  BY LiveTilesAre
<1>2. n \in Nat /\ DOMAIN T = 1 .. n
  BY <1>1, SeqSet
<1>3. Walked(m, h) = FlattenSeq(s)
  BY DEF Walked, LiveIn
<1>4. \A t \in DOMAIN m.slab : Of(t) \in Seq(Nat) /\ ToSet(Of(t)) = C(t) /\ Once(Of(t))
  BY TileCells
<1>5. ASSUME NEW t \in DOMAIN m.slab, NEW p \in C(t)
      PROVE  SlabFromPtr(m, p) = t
  <2>1. PICK i \in LiveIn(m, t) : p = CellAt(m, t, i)
    OBVIOUS
  <2>2. i \in 0 .. m.slab[t].total - 1
    BY DEF LiveIn
  <2> QED
    BY <2>1, <2>2, CellPtr
<1>6. ASSUME NEW p PROVE p \in {u.p : u \in CellsIn(m, h)} <=> \E t \in SlabsOf(m, h) : p \in C(t)
  <2>1. ASSUME NEW t \in DOMAIN m.slab, NEW i \in LiveIn(m, t)
        PROVE  CellUse(m, t, i).p = CellAt(m, t, i) /\ CellUse(m, t, i).heap = m.slab[t].heap
    BY DEF CellUse, Use
  <2>2. ASSUME NEW u \in CellsIn(m, h), p = u.p PROVE \E t \in SlabsOf(m, h) : p \in C(t)
    <3>1. u \in CellUses(m) /\ u.heap = h
      BY DEF CellsIn
    <3>2. PICK t \in DOMAIN m.slab : \E i \in LiveIn(m, t) : u = CellUse(m, t, i)
      BY <3>1, CellUsed
    <3>3. PICK i \in LiveIn(m, t) : u = CellUse(m, t, i)
      BY <3>2
    <3>4. p = CellAt(m, t, i) /\ t \in SlabsOf(m, h)
      BY <2>1, <2>2, <3>1, <3>3 DEF SlabsOf
    <3> QED
      BY <3>4
  <2>3. ASSUME NEW t \in SlabsOf(m, h), p \in C(t) PROVE \E u \in CellsIn(m, h) : p = u.p
    <3>1. PICK i \in LiveIn(m, t) : p = CellAt(m, t, i)
      BY <2>3
    <3>2. t \in DOMAIN m.slab /\ m.slab[t].heap = h
      BY DEF SlabsOf
    <3>3. CellUse(m, t, i) \in CellUses(m)
      BY <3>2, CellUsed
    <3>4. CellUse(m, t, i) \in CellsIn(m, h)
      BY <2>1, <3>2, <3>3 DEF CellsIn
    <3> QED
      BY <2>1, <3>1, <3>2, <3>4
  <2> QED
    BY <2>2, <2>3
<1> HIDE DEF T, n, C, Of
<1>7. \A k \in 1 .. n : T[k] \in DOMAIN m.slab /\ T[k] \in SlabsOf(m, h)
  BY <1>1, <1>2 DEF ToSet, SlabsOf
<1>8. s \in [1 .. n -> Seq(Nat)] /\ \A k \in 1 .. n : ToSet(s[k]) = C(T[k]) /\ Once(s[k])
  BY <1>2, <1>4, <1>7
<1> HIDE DEF s
<1>9. ASSUME NEW i \in 1 .. n, NEW j \in 1 .. n, i # j PROVE ToSet(s[i]) \cap ToSet(s[j]) = {}
  <2>1. T[i] # T[j]
    BY <1>1, <1>2, <1>9 DEF Once
  <2>2. T[i] \in DOMAIN m.slab /\ T[j] \in DOMAIN m.slab /\ ToSet(s[i]) = C(T[i]) /\ ToSet(s[j]) = C(T[j])
    BY <1>7, <1>8
  <2> QED
    BY <1>5, <2>1, <2>2
<1>10. /\ FlattenSeq(s) \in Seq(Nat) /\ Once(FlattenSeq(s))
       /\ \A x : x \in ToSet(FlattenSeq(s)) <=> \E i \in 1 .. n : x \in ToSet(s[i])
  <2>1. n \in Nat /\ s \in [1 .. n -> Seq(Nat)]
    BY <1>2, <1>8
  <2>2. /\ FlattenSeq(s) \in Seq(Nat)
        /\ \A x : x \in ToSet(FlattenSeq(s)) <=> \E i \in 1 .. n : x \in ToSet(s[i])
        /\ (/\ \A i \in 1 .. n : Once(s[i])
            /\ \A i, j \in 1 .. n : i # j => ToSet(s[i]) \cap ToSet(s[j]) = {})
           => Once(FlattenSeq(s))
    BY <2>1, FlatSet
  <2> QED
    BY <1>8, <1>9, <2>2
<1>11. ASSUME NEW p PROVE p \in ToSet(FlattenSeq(s)) <=> \E t \in SlabsOf(m, h) : p \in C(t)
  <2>1. \A t : t \in SlabsOf(m, h) <=> \E k \in 1 .. n : T[k] = t
    BY <1>1, <1>2 DEF ToSet
  <2> QED
    BY <1>8, <1>10, <2>1
<1>12. ToSet(FlattenSeq(s)) = {u.p : u \in CellsIn(m, h)}
  <2> DEFINE P == {u.p : u \in CellsIn(m, h)}
  <2>1. \A p : p \in P <=> \E t \in SlabsOf(m, h) : p \in C(t)
    BY <1>6
  <2> HIDE DEF P
  <2>2. ToSet(FlattenSeq(s)) = P
    BY <1>11, <2>1
  <2> QED
    BY <2>2 DEF P
<1> QED
  BY <1>3, <1>10, <1>12

(* The pointers of the live cells are as many as the cells.                *)
LEMMA CellPtrs ==
  ASSUME NEW m, Placed(m), NEW h
  PROVE  LET P == {u.p : u \in CellsIn(m, h)}
         IN  IsFiniteSet(P) /\ Cardinality(P) = Cardinality(CellsIn(m, h))
<1> DEFINE C == CellsIn(m, h)
           P == {u.p : u \in C}
           f == [u \in C |-> u.p]
<1>1. IsFiniteSet(C)
  BY CellsInFinite
<1>2. \A u, v \in C : u.p = v.p => u = v
  <2>1. \A u \in C : u \in Uses(m)
    BY DEF CellsIn, Uses
  <2> QED
    BY <2>1, UsesDistinct
<1> HIDE DEF C
<1>3. f \in Surjection(C, P)
  <2>1. f \in [C -> P] /\ \A p \in P : \E u \in C : f[u] = p
    OBVIOUS
  <2> HIDE DEF f, P
  <2> QED
    BY <2>1 DEF Surjection
<1>4. f \in Injection(C, P)
  <2>1. f \in [C -> P] /\ \A u, v \in C : f[u] = f[v] => u = v
    BY <1>2
  <2>2. DOMAIN f = C
    OBVIOUS
  <2> HIDE DEF f, P
  <2> QED
    BY <2>1, <2>2 DEF Injection, IsInjective
<1> HIDE DEF f, P
<1>5. IsFiniteSet(P) /\ Cardinality(P) = Cardinality(C)
  BY <1>1, <1>3, <1>4, FS_Surjection
<1> QED
  BY <1>5 DEF P, C

(* So an enumeration is as long as the control block's count.              *)
LEMMA WalkLen ==
  ASSUME NEW m, Good(m), NEW h \in DOMAIN m.heap
  PROVE  LET P == {u.p : u \in CellsIn(m, h)}
         IN  /\ ToSet(Walked(m, h)) = P /\ Len(Walked(m, h)) = Cardinality(P)
             /\ m.heap[h].cells = Cardinality(P)
<1> DEFINE P == {u.p : u \in CellsIn(m, h)}
<1>1. Placed(m) /\ ListsOK(m, {})
  BY DEF Good
<1>2. Walked(m, h) \in Seq(Nat) /\ ToSet(Walked(m, h)) = P /\ Once(Walked(m, h))
  BY <1>1, WalkIs
<1>3. Cardinality(P) = Cardinality(CellsIn(m, h))
  BY <1>1, CellPtrs
<1>4. m.heap[h].cells = Cardinality(CellsIn(m, h))
  BY <1>1, ListsFacts
<1> HIDE DEF P
<1>5. Len(Walked(m, h)) = Cardinality(P)
  BY <1>2, OnceLen
<1> QED
  BY <1>2, <1>3, <1>4, <1>5 DEF P
-----------------------------------------------------------------------------
(* A heap may be made at h when nothing else uses h, and a private one in  *)
(* a block of the machine heap that is large enough.                       *)
Vacant(m, h, hi) ==
  /\ h \in Nat \ {0} /\ h \notin DOMAIN m.heap /\ h \notin DOMAIN m.arena
  /\ \A j \in DOMAIN m.heap : m.heap[j].scb # h
  /\ h # Machine => h - 1 \in DOMAIN m.block /\ m.block[h - 1].heap = Machine /\ hi <= End(m, h - 1)
Added(m, h, size, v) == [m EXCEPT !.heap = With(@, h, NewHeap(h, h + size + 4, v))]

IsNew(K, h, hi, v, g) ==
  /\ K \in HeapRec /\ K.lo = h /\ K.hi = hi /\ K.validate = v
  /\ K.scb = Null /\ K.arenas = <<>> /\ ToSet(K.free) = {g}
  /\ \A c \in Classes : K.partial[c] = <<>> /\ K.full[c] = <<>>
  /\ K.slabs = 0 /\ K.cells = 0

(* A heap as it is made.                                                   *)
LEMMA NewHeapIs ==
  ASSUME NEW h \in Nat \ {0}, NEW size \in Nat, NEW v \in BOOLEAN
  PROVE  IsNew(NewHeap(h, h + size + 4, v), h, h + size + 4, v, [at |-> h + 2, len |-> size + 1])
<1> DEFINE hi == h + size + 4
           K == NewHeap(h, hi, v)
           g == [at |-> h + 2, len |-> size + 1]
           P == [c \in Classes |-> <<>>]
<1>1. hi \in Nat /\ hi - 1 - (h + 2) = size + 1 /\ h + 2 \in Nat /\ size + 1 \in Nat
  OBVIOUS
<1>2. g \in [at : Nat, len : Nat] /\ [at |-> h + 2, len |-> hi - 1 - (h + 2)] = g
  BY <1>1
<1>3. <<g>> \in Seq([at : Nat, len : Nat]) /\ ToSet(<<g>>) = {g}
  BY <1>2, SingleSeq
<1>4. P \in [Classes -> Seq(Nat)] /\ <<>> \in Seq(Nat) /\ Null \in Nat
  BY EmptyList DEF Null
<1>5. K = [lo |-> h, hi |-> hi, validate |-> v, scb |-> Null, arenas |-> <<>>, free |-> <<g>>,
           partial |-> P, full |-> P, slabs |-> 0, cells |-> 0]
  BY <1>2 DEF NewHeap, Header
<1> HIDE DEF g
<1>6. hi = h + size + 4
  OBVIOUS
<1> HIDE DEF K, hi
<1>7. \A c \in Classes : P[c] = <<>>
  OBVIOUS
<1> HIDE DEF P
<1>8. K \in HeapRec
  BY <1>1, <1>3, <1>4, <1>5 DEF HeapRec
<1>9. IsNew(K, h, hi, v, g)
  BY <1>3, <1>5, <1>7, <1>8 DEF IsNew
<1> QED
  BY <1>9 DEF K, hi, g

(* The blocks of a memory, its arenas, its slabs and the cells in use, for *)
(* a heap that has none.                                                   *)
LEMMA NothingIn ==
  ASSUME NEW m, Placed(m), NEW h, h \notin DOMAIN m.heap
  PROVE  /\ Blocks(m, h) = {} /\ {a \in DOMAIN m.arena : m.block[a - 1].heap = h} = {}
         /\ SlabsOf(m, h) = {} /\ CellsIn(m, h) = {}
<1>1. \A b \in DOMAIN m.block : m.block[b].heap # h
  BY DEF Placed, BlocksOK
<1>2. \A a \in DOMAIN m.arena : a - 1 \in DOMAIN m.block
  BY DEF Placed, ArenasOK
<1>3. \A t \in DOMAIN m.slab : m.slab[t].heap # h
  BY SlabPlace
<1>4. \A u \in CellUses(m) : u.heap # h
  BY UseTypes DEF Uses
<1> QED
  BY <1>1, <1>2, <1>3, <1>4 DEF Blocks, SlabsOf, CellsIn

(* A heap made in a vacant place has nothing in it and disturbs nothing.   *)
LEMMA HeapAdded ==
  ASSUME NEW m, Placed(m), ListsOK(m, {}), NEW size \in Nat, NEW v \in BOOLEAN, NEW h,
         Vacant(m, h, h + size + 4)
  PROVE  LET k == Added(m, h, size, v)
         IN  /\ Good(k) /\ (NoEmpty(m, {}) => NoEmpty(k, {})) /\ CellUses(k) = CellUses(m)
             /\ k.block = m.block /\ DOMAIN k.heap = DOMAIN m.heap \cup {h}
             /\ k.heap[h].validate = v
             /\ \A j \in DOMAIN m.heap : k.heap[j] = m.heap[j]
             /\ \A b \in DOMAIN m.block : OwnBlock(k, b) <=> OwnBlock(m, b) /\ b + 1 # h
<1> DEFINE hi == h + size + 4
           K == NewHeap(h, hi, v)
           g == [at |-> h + 2, len |-> size + 1]
           k == Added(m, h, size, v)
<1>0. h \in Nat \ {0} /\ h \notin DOMAIN m.heap
  BY DEF Vacant
<1>n. IsNew(K, h, hi, v, g)
  BY <1>0, NewHeapIs
<1>2. hi = h + size + 4 /\ hi \in Nat /\ h + 2 \in Nat
  BY <1>0
<1>g. g.at = h + 2 /\ g.len = size + 1
  OBVIOUS
<1> DEFINE H == With(m.heap, h, K)
<1>3. /\ m \in [heap : {m.heap}, block : {m.block}, arena : {m.arena}, slab : {m.slab}]
      /\ m.heap \in [DOMAIN m.heap -> HeapRec] /\ DOMAIN m.heap \subseteq Nat
  BY DEF Placed, Memory
<1>4. k.heap = H /\ k.block = m.block /\ k.arena = m.arena /\ k.slab = m.slab
      /\ k \in [heap : {k.heap}, block : {k.block}, arena : {k.arena}, slab : {k.slab}]
  <2>1. k = [m EXCEPT !.heap = H]
    BY DEF Added
  <2> HIDE DEF H, k
  <2> QED
    BY <1>3, <2>1
<1> HIDE DEF K, hi, g, k
<1>1. /\ K \in HeapRec /\ K.lo = h /\ K.hi = hi /\ K.validate = v
      /\ K.scb = Null /\ K.arenas = <<>> /\ ToSet(K.free) = {g}
      /\ \A c \in Classes : K.partial[c] = <<>> /\ K.full[c] = <<>>
      /\ K.slabs = 0 /\ K.cells = 0
  BY <1>n DEF IsNew
<1>5. /\ DOMAIN H = DOMAIN m.heap \cup {h} /\ H[h] = K
      /\ \A j \in DOMAIN m.heap : H[j] = m.heap[j]
      /\ H = [j \in DOMAIN H |-> H[j]]
  BY <1>0 DEF With
<1> HIDE DEF H
<1>6. Memory(k)
  <2>1. \A j \in DOMAIN H : H[j] \in HeapRec
    BY <1>1, <1>3, <1>5
  <2>2. H \in [DOMAIN H -> HeapRec]
    BY <1>5, <2>1
  <2>3. DOMAIN H \subseteq Nat
    BY <1>0, <1>3, <1>5
  <2> QED
    BY <1>4, <2>2, <2>3 DEF Placed, Memory
<1>7. /\ Blocks(m, h) = {} /\ {a \in DOMAIN m.arena : m.block[a - 1].heap = h} = {}
      /\ SlabsOf(m, h) = {} /\ CellsIn(m, h) = {}
  BY <1>0, NothingIn
<1>8. /\ First(k, h) = h + 2 /\ Limit(k, h) = hi - 1
      /\ \A j \in DOMAIN m.heap : First(k, j) = First(m, j) /\ Limit(k, j) = Limit(m, j)
      /\ \A b : End(k, b) = End(m, b)
  BY <1>1, <1>4, <1>5 DEF First, Limit, End, Header
<1>9. \A j : Blocks(k, j) = Blocks(m, j)
  BY <1>4 DEF Blocks
<1>10. \A j \in DOMAIN m.heap : Gaps(k, j) = Gaps(m, j)
  BY <1>4, <1>8, <1>9, GapsDepend
<1>11. Gaps(k, h) = {g}
  <2> DEFINE x == h + 2
             y == hi - 1
             from == {x}
             EndAt(z) == Min({a \in {} : a >= z} \cup {y})
  <2>1. y \in Nat /\ x \in Nat /\ x < y /\ y - x = size + 1
    BY <1>0, <1>2
  <2> HIDE DEF x, y
  <2>2. \A z : EndAt(z) = y
    <3>1. ASSUME NEW z PROVE {a \in {} : a >= z} \cup {y} = {y}
      OBVIOUS
    <3>2. Min({y}) = y
      BY <2>1, MinNat
    <3> QED
      BY <3>1, <3>2
  <2>3. Gaps(k, h) = {[at |-> z, len |-> EndAt(z) - z] : z \in {w \in from : EndAt(w) > w}}
    <3>1. First(k, h) = x /\ Limit(k, h) = y
      BY <1>8 DEF x, y
    <3>2. Blocks(k, h) = {}
      BY <1>7, <1>9
    <3>3. {First(k, h)} \cup {a + k.block[a].size : a \in Blocks(k, h)} = from
      BY <3>1, <3>2
    <3> QED
      BY <3>1, <3>2, <3>3 DEF Gaps
  <2> HIDE DEF EndAt
  <2>4. {w \in from : EndAt(w) > w} = {x}
    BY <2>1, <2>2
  <2>5. Gaps(k, h) = {[at |-> z, len |-> EndAt(z) - z] : z \in {x}}
    BY <2>3, <2>4
  <2>6. Gaps(k, h) = {[at |-> x, len |-> y - x]}
    BY <2>2, <2>5
  <2> QED
    BY <2>1, <2>6 DEF g, x
<1>12. BlocksOK(k)
  BY <1>4, <1>5, <1>8 DEF Placed, BlocksOK
<1>13. HeapsOK(k)
  <2> SUFFICES ASSUME NEW j \in DOMAIN k.heap
               PROVE  /\ k.heap[j].lo = j /\ First(k, j) < Limit(k, j)
                      /\ j # Machine => /\ j - 1 \in DOMAIN k.block /\ k.block[j - 1].heap = Machine
                                        /\ k.heap[j].hi <= End(k, j - 1)
                      /\ ToSet(k.heap[j].free) \subseteq Gaps(k, j)
                      /\ LET c == k.heap[j].scb - 1
                         IN  k.heap[j].scb # Null =>
                               /\ c \in DOMAIN k.block /\ k.block[c].heap = j /\ k.block[c].size > ScbSize
                               /\ c + 1 \notin DOMAIN k.heap
    BY DEF HeapsOK
  <2>1. CASE j = h
    <3>1. k.heap[h] = K
      BY <1>4, <1>5
    <3>2. First(k, h) < Limit(k, h)
      BY <1>0, <1>2, <1>8
    <3>3. h # Machine => h - 1 \in DOMAIN m.block /\ m.block[h - 1].heap = Machine /\ hi <= End(m, h - 1)
      BY DEF Vacant, hi
    <3>4. k.heap[h].lo = h /\ k.heap[h].hi = hi /\ k.heap[h].scb = Null /\ ToSet(k.heap[h].free) = {g}
      BY <1>1, <3>1
    <3> QED
      BY <1>4, <1>8, <1>11, <2>1, <3>2, <3>3, <3>4
  <2>2. CASE j # h
    <3>1. j \in DOMAIN m.heap /\ k.heap[j] = m.heap[j] /\ m.heap[j].scb \in Nat
      BY <1>4, <1>5, <2>2, Types DEF Placed
    <3>2. /\ m.heap[j].lo = j /\ First(m, j) < Limit(m, j)
          /\ j # Machine => /\ j - 1 \in DOMAIN m.block /\ m.block[j - 1].heap = Machine
                            /\ m.heap[j].hi <= End(m, j - 1)
          /\ ToSet(m.heap[j].free) \subseteq Gaps(m, j)
          /\ LET c == m.heap[j].scb - 1
             IN  m.heap[j].scb # Null =>
                   /\ c \in DOMAIN m.block /\ m.block[c].heap = j /\ m.block[c].size > ScbSize
                   /\ c + 1 \notin DOMAIN m.heap
      BY <3>1 DEF Placed, HeapsOK
    <3>3. m.heap[j].scb # h
      BY <3>1 DEF Vacant
    <3>4. /\ k.heap[j].lo = j /\ First(k, j) < Limit(k, j)
          /\ ToSet(k.heap[j].free) \subseteq Gaps(k, j)
      BY <1>8, <1>10, <3>1, <3>2
    <3>5. j # Machine => /\ j - 1 \in DOMAIN k.block /\ k.block[j - 1].heap = Machine
                         /\ k.heap[j].hi <= End(k, j - 1)
      BY <1>4, <1>8, <3>1, <3>2
    <3> DEFINE d == k.heap[j].scb
               c == d - 1
    <3>6. d = m.heap[j].scb /\ d \in Nat /\ c + 1 = d /\ d # h
      BY <3>1, <3>3
    <3> HIDE DEF d
    <3>7. d # Null => /\ c \in DOMAIN k.block /\ k.block[c].heap = j /\ k.block[c].size > ScbSize
                      /\ c + 1 \notin DOMAIN k.heap
      <4>1. d # Null => /\ c \in DOMAIN m.block /\ m.block[c].heap = j /\ m.block[c].size > ScbSize
                        /\ c + 1 \notin DOMAIN m.heap
        BY <3>2, <3>6
      <4> HIDE DEF c
      <4> QED
        BY <1>4, <1>5, <3>6, <4>1
    <3> QED
      BY <3>4, <3>5, <3>7 DEF d
  <2> QED
    BY <2>1, <2>2
<1>14. ArenasOK(k)
  <2>1. \A a \in DOMAIN m.arena : a - 1 \in DOMAIN m.block /\ a - 1 \in Nat /\ a \in Nat /\ a # Null
    BY Types DEF Placed, ArenasOK, Null
  <2>2. ASSUME NEW a \in DOMAIN m.arena PROVE a \notin DOMAIN k.heap /\ \A j \in DOMAIN k.heap : k.heap[j].scb # a
    <3>1. a \notin DOMAIN m.heap /\ \A j \in DOMAIN m.heap : m.heap[j].scb # a
      BY DEF Placed, ArenasOK
    <3>2. a # h
      BY DEF Vacant
    <3> QED
      BY <1>1, <1>4, <1>5, <2>1, <3>1, <3>2
  <2>3. ASSUME NEW j \in DOMAIN k.heap
        PROVE  /\ Once(k.heap[j].arenas)
               /\ ToSet(k.heap[j].arenas) = {a \in DOMAIN m.arena : m.block[a - 1].heap = j}
    <3>1. CASE j = h
      <4>1. k.heap[j].arenas = <<>>
        BY <1>1, <1>4, <1>5, <3>1
      <4> QED
        BY <1>7, <3>1, <4>1, EmptyList
    <3>2. CASE j # h
      <4>1. j \in DOMAIN m.heap /\ k.heap[j] = m.heap[j]
        BY <1>4, <1>5, <3>2
      <4> QED
        BY <4>1 DEF Placed, ArenasOK
    <3> QED
      BY <3>1, <3>2
  <2>4. ASSUME NEW a \in DOMAIN m.arena
        PROVE  /\ m.arena[a].base % SlabSize = 0 /\ a < m.arena[a].base
               /\ m.arena[a].base + m.arena[a].slabs * SlabSize <= End(m, a - 1)
               /\ m.arena[a].map \subseteq 0 .. m.arena[a].slabs - 1
               /\ m.arena[a].use = Cardinality(m.arena[a].map)
    BY DEF Placed, ArenasOK
  <2> QED
    BY <1>4, <1>8, <2>1, <2>2, <2>3, <2>4 DEF ArenasOK
<1>15. SlabsOK(k)
  BY <1>4, SlabsSame DEF Placed
<1>16. Placed(k)
  BY <1>6, <1>12, <1>13, <1>14, <1>15 DEF Placed
<1>17. /\ \A j : SlabsOf(k, j) = SlabsOf(m, j)
       /\ \A j, c : Roomy(k, j, c) = Roomy(m, j, c) /\ Full(k, j, c) = Full(m, j, c)
       /\ CellUses(k) = CellUses(m)
  BY <1>4, SlabsOnly
<1>18. ListsOK(k, {})
  <2>1. ASSUME NEW j \in DOMAIN k.heap, j # h
        PROVE  /\ \A c \in Classes :
                    /\ Once(k.heap[j].partial[c]) /\ ToSet(k.heap[j].partial[c]) = Roomy(k, j, c) \ {}
                    /\ Once(k.heap[j].full[c]) /\ ToSet(k.heap[j].full[c]) = Full(k, j, c) \ {}
               /\ k.heap[j].slabs = Cardinality(SlabsOf(k, j))
               /\ k.heap[j].cells = Cardinality({u \in CellUses(k) : u.heap = j})
    <3>1. j \in DOMAIN m.heap /\ k.heap[j] = m.heap[j]
      BY <1>4, <1>5, <2>1
    <3>2. /\ \A c \in Classes :
               /\ Once(m.heap[j].partial[c]) /\ ToSet(m.heap[j].partial[c]) = Roomy(m, j, c) \ {}
               /\ Once(m.heap[j].full[c]) /\ ToSet(m.heap[j].full[c]) = Full(m, j, c) \ {}
          /\ m.heap[j].slabs = Cardinality(SlabsOf(m, j))
          /\ m.heap[j].cells = Cardinality({u \in CellUses(m) : u.heap = j})
      BY <3>1, Zenon DEF ListsOK
    <3> HIDE DEF k
    <3> QED
      BY <1>17, <3>1, <3>2
  <2>2. \A c : Roomy(k, h, c) = {} /\ Full(k, h, c) = {}
    BY <1>7, <1>17 DEF Roomy, Full
  <2>3. k.heap[h].slabs = 0 /\ k.heap[h].cells = 0
        /\ \A c \in Classes : k.heap[h].partial[c] = <<>> /\ k.heap[h].full[c] = <<>>
    BY <1>1, <1>4, <1>5
  <2>4. Cardinality({}) = 0 /\ SlabsOf(k, h) = {} /\ {u \in CellUses(k) : u.heap = h} = {}
    BY <1>7, <1>17, FS_EmptySet DEF CellsIn
  <2>5. /\ \A c \in Classes :
             /\ Once(k.heap[h].partial[c]) /\ ToSet(k.heap[h].partial[c]) = Roomy(k, h, c) \ {}
             /\ Once(k.heap[h].full[c]) /\ ToSet(k.heap[h].full[c]) = Full(k, h, c) \ {}
        /\ k.heap[h].slabs = Cardinality(SlabsOf(k, h))
        /\ k.heap[h].cells = Cardinality({u \in CellUses(k) : u.heap = h})
    <3>1. ASSUME NEW c \in Classes
          PROVE  /\ Once(k.heap[h].partial[c]) /\ ToSet(k.heap[h].partial[c]) = Roomy(k, h, c) \ {}
                 /\ Once(k.heap[h].full[c]) /\ ToSet(k.heap[h].full[c]) = Full(k, h, c) \ {}
      BY <2>2, <2>3, EmptyList
    <3> QED
      BY <2>3, <2>4, <3>1
  <2> QED
    BY <2>1, <2>5 DEF ListsOK
<1>19. NoEmpty(m, {}) => NoEmpty(k, {})
  BY <1>4 DEF NoEmpty
<1>20. ASSUME NEW b \in DOMAIN m.block PROVE OwnBlock(k, b) <=> OwnBlock(m, b) /\ b + 1 # h
  <2> DEFINE d == b + 1
  <2>1. d # Null
    BY Types DEF Placed, Null
  <2> HIDE DEF d
  <2>2. OwnBlock(k, b) <=> /\ d \notin DOMAIN k.heap /\ d \notin DOMAIN m.arena
                           /\ \A j \in DOMAIN k.heap : k.heap[j].scb # d
    BY <1>4 DEF OwnBlock, d
  <2>3. OwnBlock(m, b) <=> /\ d \notin DOMAIN m.heap /\ d \notin DOMAIN m.arena
                           /\ \A j \in DOMAIN m.heap : m.heap[j].scb # d
    BY DEF OwnBlock, d
  <2>4. k.heap[h].scb # d
    BY <1>1, <1>4, <1>5, <2>1
  <2>5. OwnBlock(k, b) <=> OwnBlock(m, b) /\ d # h
    BY <1>4, <1>5, <2>2, <2>3, <2>4
  <2> QED
    BY <2>5 DEF d
<1>21. k.heap[h].validate = v
  BY <1>1, <1>4, <1>5
<1>22. DOMAIN k.heap = DOMAIN m.heap \cup {h} /\ \A j \in DOMAIN m.heap : k.heap[j] = m.heap[j]
  BY <1>4, <1>5
<1>23. Good(k) /\ CellUses(k) = CellUses(m)
  BY <1>16, <1>17, <1>18 DEF Good
<1> QED
  BY <1>4, <1>19, <1>20, <1>21, <1>22, <1>23 DEF k

(* _MachineHeapInitialize, of a memory without heaps.                      *)
NoHeap(m) ==
  /\ Memory(m) /\ DOMAIN m.heap = {} /\ DOMAIN m.block = {}
  /\ DOMAIN m.arena = {} /\ DOMAIN m.slab = {}

(* Memory without a heap is good, and nothing is in use.                   *)
LEMMA NoHeapGood ==
  ASSUME NEW m, NoHeap(m)
  PROVE  Good(m) /\ NoEmpty(m, {}) /\ Uses(m) = {}
<1>1. BlocksOK(m) /\ HeapsOK(m) /\ ArenasOK(m) /\ SlabsOK(m) /\ ListsOK(m, {})
  BY DEF NoHeap, BlocksOK, HeapsOK, ArenasOK, SlabsOK, ListsOK
<1>2. CellUses(m) = {} /\ BlockUses(m) = {}
  BY DEF NoHeap, CellUses, BlockUses, OwnBlock
<1> QED
  BY <1>1, <1>2 DEF NoHeap, Good, Placed, NoEmpty, Uses

(* The machine heap over the whole break.                                  *)
LEMMA MachineHeapMade ==
  ASSUME NEW m, NoHeap(m), NEW size \in Nat, NEW v \in BOOLEAN
  PROVE  LET k == MachineHeapInitialize(m, Machine, size, v)
         IN  Good(k) /\ NoEmpty(k, {}) /\ Uses(k) = {} /\ DOMAIN k.heap = {Machine}
             /\ k.heap[Machine].validate = v
<1> DEFINE h == Machine
           k == Added(m, h, size, v)
<1>1. MachineHeapInitialize(m, Machine, size, v) = k
  BY DEF MachineHeapInitialize, Added
<1>h. h = Machine
  OBVIOUS
<1> HIDE DEF h
<1>2. Vacant(m, h, h + size + 4)
  BY <1>h, Consts DEF NoHeap, Vacant
<1>3. Placed(m) /\ ListsOK(m, {}) /\ NoEmpty(m, {}) /\ CellUses(m) = {}
  BY NoHeapGood DEF Good, Uses
<1>4. /\ Good(k) /\ (NoEmpty(m, {}) => NoEmpty(k, {})) /\ CellUses(k) = CellUses(m)
      /\ k.block = m.block /\ DOMAIN k.heap = DOMAIN m.heap \cup {h}
      /\ k.heap[h].validate = v
  BY <1>2, <1>3, HeapAdded
<1> HIDE DEF k
<1>5. BlockUses(k) = {}
  BY <1>4 DEF NoHeap, BlockUses
<1>6. Uses(k) = {}
  BY <1>3, <1>4, <1>5 DEF Uses
<1> QED
  BY <1>1, <1>3, <1>4, <1>6, <1>h DEF NoHeap

(* _HeapCreate: a private heap more, or no change.                         *)
Created(m, k, h) ==
  /\ Good(k) /\ (NoEmpty(m, {}) => NoEmpty(k, {})) /\ Uses(k) = Uses(m)
  /\ h \in Nat \ {0} /\ h # Machine /\ h \notin DOMAIN m.heap
  /\ DOMAIN k.heap = DOMAIN m.heap \cup {h}

(* _HeapCreate takes a block of the machine heap, which then is no use.    *)
LEMMA HeapCreated ==
  ASSUME NEW m, Good(m), Machine \in DOMAIN m.heap, NEW size \in Nat, size + 4 > SoaMax,
         NEW v \in BOOLEAN
  PROVE  LET o == HeapCreate(m, size, v)
         IN  o = Outcome(m, Null) \/ (o = Outcome(o.m, o.p) /\ Created(m, o.m, o.p))
<1> DEFINE n == size + 4
           x == HeapAlloc(m, Machine, n)
           o == HeapCreate(m, size, v)
<1>0. Placed(m) /\ ListsOK(m, {}) /\ n \in Nat \ {0} /\ n \notin 1 .. SoaMax
  BY Consts DEF Good
<1>n. n = size + 4
  OBVIOUS
<1>1. x = Carve(m, Machine, n)
  <2> HIDE DEF n
  <2>1. Passes(m, Machine)
    BY GoodValid
  <2> QED
    BY <1>0, <2>1 DEF HeapAlloc, Outcome
<1> HIDE DEF n
<1>2. CASE x = Outcome(m, Null)
  <2>1. o = Outcome(m, Null)
    BY <1>2, <1>n DEF HeapCreate, Then, Outcome
  <2> QED
    BY <2>1
<1>3. CASE x # Outcome(m, Null)
  <2>1. x = Outcome(x.m, x.p) /\ \E b, s : x.p = b + 1 /\ s >= n + 1 /\ Took(m, x.m, Machine, b, s)
    BY <1>0, <1>1, <1>3, CarveTakes
  <2> HIDE DEF x
  <2>2. PICK b : \E s : x.p = b + 1 /\ s >= n + 1 /\ Took(m, x.m, Machine, b, s)
    BY <2>1
  <2>3. PICK s : x.p = b + 1 /\ s >= n + 1 /\ Took(m, x.m, Machine, b, s)
    BY <2>2
  <2> DEFINE k == x.m
             h == x.p
  <2>4. /\ Keeps(m, k) /\ SameHeaps(m, k) /\ Placed(k) /\ b \in Nat /\ s \in Nat
        /\ b \in DOMAIN k.block /\ k.block[b].heap = Machine /\ k.block[b].size = s /\ OwnBlock(k, b)
        /\ Uses(k) \ {BlockUse(k, b)} = Uses(m) /\ Machine \in DOMAIN k.heap
    BY <1>0, <2>3, TookFacts
  <2>5. h = b + 1 /\ s >= n + 1
    BY <2>3
  <2>6. x = Outcome(k, h)
    BY <2>1
  <2> HIDE DEF k, h
  <2>7. ListsOK(k, {}) /\ (NoEmpty(m, {}) => NoEmpty(k, {})) /\ DOMAIN k.heap = DOMAIN m.heap
    BY <1>0, <2>4 DEF Keeps, SameHeaps
  <2>8. h # Machine
    <3>1. First(k, Machine) <= b
      BY <2>4 DEF Placed, BlocksOK
    <3>2. First(k, Machine) = Machine + 2
      BY <2>4 DEF Placed, HeapsOK, First, Header
    <3> QED
      BY <2>4, <2>5, <3>1, <3>2, Consts
  <2>9. h - 1 = b /\ h \in Nat \ {0} /\ h + size + 4 <= End(k, b) /\ h # Null
    BY <1>n, <2>4, <2>5 DEF End, Null
  <2>10. Vacant(k, h, h + size + 4)
    BY <2>4, <2>5, <2>9 DEF Vacant, OwnBlock
  <2> DEFINE l == Added(k, h, size, v)
  <2>11. o = Outcome(l, h)
    <3>1. o = [x EXCEPT !.m.heap = With(@, x.p, NewHeap(x.p, x.p + size + 4, v))]
      <4>1. x.p # Null
        BY <2>9 DEF h
      <4> QED
        BY <1>n, <4>1 DEF HeapCreate, Then, x
    <3>2. o = [Outcome(k, h) EXCEPT !.m.heap = With(@, h, NewHeap(h, h + size + 4, v))]
      BY <2>6, <3>1 DEF h
    <3> DEFINE N == NewHeap(h, h + size + 4, v)
    <3> HIDE DEF N
    <3>3. o = [Outcome(k, h) EXCEPT !.m.heap = With(@, h, N)]
      BY <3>2 DEF N
    <3>4. l = [k EXCEPT !.heap = With(@, h, N)]
      BY DEF Added, N
    <3> HIDE DEF l, o
    <3> QED
      BY <3>3, <3>4 DEF Outcome
  <2>12. /\ Good(l) /\ (NoEmpty(k, {}) => NoEmpty(l, {})) /\ CellUses(l) = CellUses(k)
         /\ l.block = k.block /\ DOMAIN l.heap = DOMAIN k.heap \cup {h}
         /\ \A c \in DOMAIN k.block : OwnBlock(l, c) <=> OwnBlock(k, c) /\ c + 1 # h
    BY <2>4, <2>7, <2>10, HeapAdded
  <2> HIDE DEF l
  <2>13. Uses(l) = Uses(k) \ {BlockUse(k, b)}
    <3>1. \A c \in DOMAIN k.block : BlockUse(l, c) = BlockUse(k, c)
      BY <2>12 DEF BlockUse
    <3>2. \A c \in DOMAIN k.block : c + 1 # h <=> c # b
      BY <2>4, <2>5, Types DEF Placed
    <3>3. \A u : u \in BlockUses(l) <=> \E c \in DOMAIN k.block \ {b} : OwnBlock(k, c) /\ u = BlockUse(k, c)
      BY <2>12, <3>1, <3>2, BlockUsed
    <3>4. \A u : u \in Uses(k) \ {BlockUse(k, b)} <=>
              \/ u \in CellUses(k)
              \/ \E c \in DOMAIN k.block \ {b} : OwnBlock(k, c) /\ u = BlockUse(k, c)
      BY <2>4, OwnUse
    <3> QED
      BY <2>12, <3>3, <3>4 DEF Uses
  <2>14. h \notin DOMAIN m.heap
    BY <2>4, <2>5, <2>7 DEF OwnBlock
  <2>15. Created(m, l, h)
    BY <2>4, <2>7, <2>8, <2>9, <2>12, <2>13, <2>14 DEF Created
  <2>16. o.m = l /\ o.p = h
    BY <2>11 DEF Outcome
  <2> HIDE DEF o
  <2>17. o = Outcome(o.m, o.p) /\ Created(m, o.m, o.p)
    BY <2>11, <2>15, <2>16
  <2> QED
    BY <2>17 DEF o
<1> QED
  BY <1>2, <1>3

(* k is m without the private heap h and all that is in it.                *)
Parted(m, k, h) ==
  /\ k \in [heap : {k.heap}, block : {k.block}, arena : {k.arena}, slab : {k.slab}]
  /\ k.heap = [j \in DOMAIN m.heap \ {h} |-> m.heap[j]]
  /\ k.block = [b \in {d \in DOMAIN m.block : m.block[d].heap # h} |-> m.block[b]]
  /\ k.arena = [a \in {d \in DOMAIN m.arena : m.block[d - 1].heap # h} |-> m.arena[a]]
  /\ k.slab = [t \in {d \in DOMAIN m.slab : m.slab[d].heap # h} |-> m.slab[t]]

(* Its memory is a block of the machine heap of no use, and what was in    *)
(* use elsewhere is so still.                                              *)
LEMMA HeapParted ==
  ASSUME NEW m, Good(m), NEW h \in DOMAIN m.heap, h # Machine, NEW k, Parted(m, k, h)
  PROVE  /\ Good(k) /\ (NoEmpty(m, {}) => NoEmpty(k, {})) /\ DOMAIN k.heap = DOMAIN m.heap \ {h}
         /\ h - 1 \in DOMAIN k.block /\ BlockUse(k, h - 1) \in Uses(k)
         /\ Uses(k) \ {BlockUse(k, h - 1)} = {u \in Uses(m) : u.heap # h}
         /\ BlockUse(k, h - 1).p = h /\ BlockUse(k, h - 1).heap = Machine
<1>0. Placed(m) /\ Memory(m) /\ ListsOK(m, {})
  BY DEF Good, Placed
<1>1. /\ DOMAIN k.heap = DOMAIN m.heap \ {h} /\ \A j \in DOMAIN k.heap : k.heap[j] = m.heap[j]
      /\ \A b : b \in DOMAIN k.block <=> b \in DOMAIN m.block /\ m.block[b].heap # h
      /\ \A b \in DOMAIN k.block : k.block[b] = m.block[b]
      /\ \A a : a \in DOMAIN k.arena <=> a \in DOMAIN m.arena /\ m.block[a - 1].heap # h
      /\ \A a \in DOMAIN k.arena : k.arena[a] = m.arena[a]
      /\ \A t : t \in DOMAIN k.slab <=> t \in DOMAIN m.slab /\ m.slab[t].heap # h
      /\ \A t \in DOMAIN k.slab : k.slab[t] = m.slab[t]
  BY DEF Parted
<1>2. Memory(k)
  <2>1. m.heap \in [DOMAIN m.heap -> HeapRec] /\ m.block \in [DOMAIN m.block -> BlockRec]
        /\ m.arena \in [DOMAIN m.arena -> ArenaRec] /\ m.slab \in [DOMAIN m.slab -> SlabRec]
    BY <1>0 DEF Memory
  <2>2. k.heap \in [DOMAIN k.heap -> HeapRec] /\ k.block \in [DOMAIN k.block -> BlockRec]
        /\ k.arena \in [DOMAIN k.arena -> ArenaRec] /\ k.slab \in [DOMAIN k.slab -> SlabRec]
    BY <1>1, <2>1 DEF Parted
  <2>3. /\ DOMAIN k.heap \subseteq Nat /\ DOMAIN k.arena \subseteq Nat /\ DOMAIN k.slab \subseteq Nat
        /\ DOMAIN k.block \subseteq Nat
        /\ DOMAIN k.block \subseteq DOMAIN m.block /\ DOMAIN k.slab \subseteq DOMAIN m.slab
    BY <1>0, <1>1 DEF Memory
  <2>4. IsFiniteSet(DOMAIN k.block) /\ IsFiniteSet(DOMAIN k.slab)
    BY <1>0, <2>3, FS_Subset DEF Memory
  <2> QED
    BY <2>2, <2>3, <2>4 DEF Memory, Parted
<1>3. /\ \A j \in DOMAIN k.heap : First(k, j) = First(m, j) /\ Limit(k, j) = Limit(m, j)
      /\ \A b \in DOMAIN k.block : End(k, b) = End(m, b)
  BY <1>1 DEF First, Limit, End
<1>4. BlocksOK(k)
  <2>1. ASSUME NEW b \in DOMAIN k.block
        PROVE  /\ k.block[b].heap \in DOMAIN k.heap /\ k.block[b].size >= 2
               /\ First(k, k.block[b].heap) <= b /\ End(k, b) <= Limit(k, k.block[b].heap)
    <3>1. b \in DOMAIN m.block /\ m.block[b].heap # h /\ k.block[b] = m.block[b]
      BY <1>1
    <3>2. /\ m.block[b].heap \in DOMAIN m.heap /\ m.block[b].size >= 2
          /\ First(m, m.block[b].heap) <= b /\ End(m, b) <= Limit(m, m.block[b].heap)
      BY <1>0, <3>1 DEF Placed, BlocksOK
    <3>3. m.block[b].heap \in DOMAIN k.heap
      BY <1>1, <3>1, <3>2
    <3> QED
      BY <1>3, <3>1, <3>2, <3>3
  <2>2. ASSUME NEW b \in DOMAIN k.block, NEW c \in DOMAIN k.block,
               k.block[b].heap = k.block[c].heap, b < c
        PROVE  End(k, b) <= c
    BY <1>0, <1>1, <1>3, <2>2 DEF Placed, BlocksOK
  <2> QED
    BY <2>1, <2>2 DEF BlocksOK
<1>5. ASSUME NEW j \in DOMAIN k.heap PROVE Gaps(k, j) = Gaps(m, j)
  <2>1. Blocks(k, j) = Blocks(m, j) /\ \A b \in Blocks(m, j) : k.block[b].size = m.block[b].size
    BY <1>1 DEF Blocks
  <2>2. First(k, j) = First(m, j) /\ Limit(k, j) = Limit(m, j)
    BY <1>3
  <2> QED
    BY <2>1, <2>2, GapsDepend
<1>6. HeapsOK(k)
  <2> SUFFICES ASSUME NEW j \in DOMAIN k.heap
               PROVE  /\ k.heap[j].lo = j /\ First(k, j) < Limit(k, j)
                      /\ j # Machine => /\ j - 1 \in DOMAIN k.block /\ k.block[j - 1].heap = Machine
                                        /\ k.heap[j].hi <= End(k, j - 1)
                      /\ ToSet(k.heap[j].free) \subseteq Gaps(k, j)
                      /\ LET c == k.heap[j].scb - 1
                         IN  k.heap[j].scb # Null =>
                               /\ c \in DOMAIN k.block /\ k.block[c].heap = j /\ k.block[c].size > ScbSize
                               /\ c + 1 \notin DOMAIN k.heap
    BY DEF HeapsOK
  <2>1. j \in DOMAIN m.heap /\ j # h /\ k.heap[j] = m.heap[j]
    BY <1>1
  <2>2. /\ m.heap[j].lo = j /\ First(m, j) < Limit(m, j)
        /\ j # Machine => /\ j - 1 \in DOMAIN m.block /\ m.block[j - 1].heap = Machine
                          /\ m.heap[j].hi <= End(m, j - 1)
        /\ ToSet(m.heap[j].free) \subseteq Gaps(m, j)
        /\ LET c == m.heap[j].scb - 1
           IN  m.heap[j].scb # Null =>
                 /\ c \in DOMAIN m.block /\ m.block[c].heap = j /\ m.block[c].size > ScbSize
                 /\ c + 1 \notin DOMAIN m.heap
    BY <1>0, <2>1 DEF Placed, HeapsOK
  <2>3. j # Machine => /\ j - 1 \in DOMAIN k.block /\ k.block[j - 1].heap = Machine
                       /\ k.heap[j].hi <= End(k, j - 1)
    <3> DEFINE d == j - 1
    <3>1. j # Machine => d \in DOMAIN m.block /\ m.block[d].heap = Machine /\ m.heap[j].hi <= End(m, d)
      BY <2>2
    <3> HIDE DEF d
    <3>2. j # Machine => d \in DOMAIN k.block /\ k.block[d].heap = Machine /\ k.heap[j].hi <= End(k, d)
      BY <1>1, <1>3, <2>1, <3>1
    <3> QED
      BY <3>2 DEF d
  <2>4. LET c == k.heap[j].scb - 1
        IN  k.heap[j].scb # Null =>
              /\ c \in DOMAIN k.block /\ k.block[c].heap = j /\ k.block[c].size > ScbSize
              /\ c + 1 \notin DOMAIN k.heap
    <3> DEFINE c == m.heap[j].scb - 1
    <3>1. m.heap[j].scb # Null =>
                 /\ c \in DOMAIN m.block /\ m.block[c].heap = j /\ m.block[c].size > ScbSize
                 /\ c + 1 \notin DOMAIN m.heap
      BY <2>2
    <3>2. k.heap[j].scb - 1 = c
      BY <2>1
    <3> HIDE DEF c
    <3> QED
      BY <1>1, <2>1, <3>1, <3>2
  <2> QED
    BY <1>3, <1>5, <2>1, <2>2, <2>3, <2>4
<1>7. ASSUME NEW a \in DOMAIN k.arena
      PROVE  a \in DOMAIN m.arena /\ k.arena[a] = m.arena[a] /\ a - 1 \in DOMAIN k.block
             /\ k.block[a - 1] = m.block[a - 1] /\ End(k, a - 1) = End(m, a - 1)
  <2>1. a \in DOMAIN m.arena /\ m.block[a - 1].heap # h /\ k.arena[a] = m.arena[a]
    BY <1>1
  <2> DEFINE d == a - 1
  <2>2. d \in DOMAIN m.block /\ m.block[d].heap # h
    BY <1>0, <2>1 DEF Placed, ArenasOK
  <2> HIDE DEF d
  <2>3. d \in DOMAIN k.block /\ k.block[d] = m.block[d] /\ End(k, d) = End(m, d)
    BY <1>1, <1>3, <2>2
  <2> QED
    BY <2>1, <2>3 DEF d
<1>8. ArenasOK(k)
  <2>1. ASSUME NEW a \in DOMAIN k.arena
        PROVE  /\ a - 1 \in DOMAIN k.block /\ a \notin DOMAIN k.heap
               /\ \A j \in DOMAIN k.heap : k.heap[j].scb # a
               /\ k.arena[a].base % SlabSize = 0 /\ a < k.arena[a].base
               /\ k.arena[a].base + k.arena[a].slabs * SlabSize <= End(k, a - 1)
               /\ k.arena[a].map \subseteq 0 .. k.arena[a].slabs - 1
               /\ k.arena[a].use = Cardinality(k.arena[a].map)
    <3>1. /\ a \notin DOMAIN m.heap
          /\ \A j \in DOMAIN m.heap : m.heap[j].scb # a
          /\ m.arena[a].base % SlabSize = 0 /\ a < m.arena[a].base
          /\ m.arena[a].base + m.arena[a].slabs * SlabSize <= End(m, a - 1)
          /\ m.arena[a].map \subseteq 0 .. m.arena[a].slabs - 1
          /\ m.arena[a].use = Cardinality(m.arena[a].map)
      BY <1>0, <1>7 DEF Placed, ArenasOK
    <3> QED
      BY <1>1, <1>7, <3>1
  <2>2. ASSUME NEW j \in DOMAIN k.heap
        PROVE  /\ Once(k.heap[j].arenas)
               /\ ToSet(k.heap[j].arenas) = {a \in DOMAIN k.arena : k.block[a - 1].heap = j}
    <3>1. j \in DOMAIN m.heap /\ j # h /\ k.heap[j] = m.heap[j]
      BY <1>1
    <3>2. Once(m.heap[j].arenas) /\ ToSet(m.heap[j].arenas) = {a \in DOMAIN m.arena : m.block[a - 1].heap = j}
      BY <1>0, <3>1 DEF Placed, ArenasOK
    <3>3. {a \in DOMAIN k.arena : k.block[a - 1].heap = j} = {a \in DOMAIN m.arena : m.block[a - 1].heap = j}
      BY <1>1, <1>7, <3>1
    <3> QED
      BY <3>1, <3>2, <3>3
  <2> QED
    BY <2>1, <2>2 DEF ArenasOK
<1>9. ASSUME NEW t \in DOMAIN k.slab
      PROVE  /\ t \in DOMAIN m.slab /\ k.slab[t] = m.slab[t] /\ m.slab[t].arena \in DOMAIN k.arena
             /\ m.slab[t].heap = m.block[m.slab[t].arena - 1].heap
             /\ Tiles(k, m.slab[t].arena) = Tiles(m, m.slab[t].arena)
  <2>1. t \in DOMAIN m.slab /\ m.slab[t].heap # h /\ k.slab[t] = m.slab[t]
    BY <1>1
  <2> DEFINE a == m.slab[t].arena
  <2>2. a \in DOMAIN m.arena /\ m.slab[t].heap = m.block[a - 1].heap
    BY <1>0, <2>1 DEF Placed, SlabsOK
  <2> HIDE DEF a
  <2>3. a \in DOMAIN k.arena /\ k.arena[a] = m.arena[a]
    BY <1>1, <2>1, <2>2
  <2>4. Tiles(k, a) = Tiles(m, a)
    BY <2>3 DEF Tiles, TileAt
  <2> QED
    BY <2>1, <2>2, <2>3, <2>4 DEF a
<1>10. SlabsOK(k)
  <2>1. ASSUME NEW t \in DOMAIN k.slab
        PROVE  LET s == k.slab[t]
               IN  /\ s.arena \in DOMAIN k.arena /\ t \in Tiles(k, s.arena)
                   /\ s.heap = k.block[s.arena - 1].heap
                   /\ s.total = (SlabSize - SlabHdr) \div CellSz[s.cls]
                   /\ s.free = Len(s.list) /\ Once(s.list) /\ ToSet(s.list) \subseteq 0 .. s.total - 1
    <3> DEFINE s == m.slab[t]
    <3>1. /\ t \in Tiles(m, s.arena)
          /\ s.total = (SlabSize - SlabHdr) \div CellSz[s.cls]
          /\ s.free = Len(s.list) /\ Once(s.list) /\ ToSet(s.list) \subseteq 0 .. s.total - 1
      BY <1>0, <1>9 DEF Placed, SlabsOK
    <3>2. k.slab[t] = s /\ s.arena \in DOMAIN k.arena /\ Tiles(k, s.arena) = Tiles(m, s.arena)
          /\ s.heap = m.block[s.arena - 1].heap
      BY <1>9
    <3>3. k.block[s.arena - 1] = m.block[s.arena - 1]
      BY <1>7, <3>2
    <3> HIDE DEF s
    <3> QED
      BY <3>1, <3>2, <3>3
  <2>2. ASSUME NEW a \in DOMAIN k.arena, NEW t \in Tiles(k, a)
        PROVE  t \in DOMAIN k.slab /\ k.slab[t].arena = a
    <3>1. a \in DOMAIN m.arena /\ m.block[a - 1].heap # h /\ t \in Tiles(m, a)
      BY <1>1 DEF Tiles, TileAt
    <3>2. t \in DOMAIN m.slab /\ m.slab[t].arena = a
      BY <1>0, <3>1 DEF Placed, SlabsOK
    <3>3. m.slab[t].heap = m.block[m.slab[t].arena - 1].heap
      BY <1>0, <3>2 DEF Placed, SlabsOK
    <3> QED
      BY <1>1, <3>1, <3>2, <3>3
  <2> QED
    BY <2>1, <2>2 DEF SlabsOK
<1>11. Placed(k)
  BY <1>2, <1>4, <1>6, <1>8, <1>10 DEF Placed
<1>12. ASSUME NEW t \in DOMAIN k.slab, NEW i
       PROVE  CellUse(k, t, i) = CellUse(m, t, i) /\ LiveIn(k, t) = LiveIn(m, t)
  BY <1>1 DEF CellUse, LiveIn, CellAt
<1>13. CellUses(k) = {u \in CellUses(m) : u.heap # h}
  <2>1. ASSUME NEW u
        PROVE  u \in CellUses(k) <=> u \in CellUses(m) /\ u.heap # h
    <3>1. \A t, i : CellUse(m, t, i).heap = m.slab[t].heap
      BY DEF CellUse, Use
    <3>2. ASSUME NEW t \in DOMAIN k.slab, NEW i \in LiveIn(k, t), u = CellUse(k, t, i)
          PROVE  u \in CellUses(m) /\ u.heap # h
      <4>1. t \in DOMAIN m.slab /\ m.slab[t].heap # h /\ i \in LiveIn(m, t) /\ u = CellUse(m, t, i)
        BY <1>1, <1>12, <3>2
      <4> QED
        BY <3>1, <4>1, CellUsed
    <3>3. ASSUME NEW t \in DOMAIN m.slab, NEW i \in LiveIn(m, t), u = CellUse(m, t, i), u.heap # h
          PROVE  u \in CellUses(k)
      <4>1. t \in DOMAIN k.slab
        BY <1>1, <3>1, <3>3
      <4>2. i \in LiveIn(k, t) /\ u = CellUse(k, t, i)
        BY <1>12, <3>3, <4>1
      <4> QED
        BY <4>1, <4>2, CellUsed
    <3>4. u \in CellUses(k) <=> \E t \in DOMAIN k.slab : \E i \in LiveIn(k, t) : u = CellUse(k, t, i)
      BY CellUsed
    <3>5. u \in CellUses(m) <=> \E t \in DOMAIN m.slab : \E i \in LiveIn(m, t) : u = CellUse(m, t, i)
      BY CellUsed
    <3> QED
      BY <3>2, <3>3, <3>4, <3>5
  <2> QED
    BY <2>1
<1>14. ListsOK(k, {})
  <2> SUFFICES ASSUME NEW j \in DOMAIN k.heap
               PROVE  /\ \A c \in Classes :
                           /\ Once(k.heap[j].partial[c]) /\ ToSet(k.heap[j].partial[c]) = Roomy(k, j, c) \ {}
                           /\ Once(k.heap[j].full[c]) /\ ToSet(k.heap[j].full[c]) = Full(k, j, c) \ {}
                      /\ k.heap[j].slabs = Cardinality(SlabsOf(k, j))
                      /\ k.heap[j].cells = Cardinality({u \in CellUses(k) : u.heap = j})
    BY DEF ListsOK
  <2>1. j \in DOMAIN m.heap /\ j # h /\ k.heap[j] = m.heap[j]
    BY <1>1
  <2>2. SlabsOf(k, j) = SlabsOf(m, j)
    BY <1>1, <2>1 DEF SlabsOf
  <2>3. \A c : Roomy(k, j, c) = Roomy(m, j, c) /\ Full(k, j, c) = Full(m, j, c)
    <3>1. \A t \in SlabsOf(m, j) : k.slab[t] = m.slab[t]
      BY <1>1, <2>1 DEF SlabsOf
    <3> QED
      BY <2>2, <3>1 DEF Roomy, Full
  <2>4. {u \in CellUses(k) : u.heap = j} = CellsIn(m, j)
    BY <1>13, <2>1 DEF CellsIn
  <2>5. /\ \A c \in Classes :
              /\ Once(m.heap[j].partial[c]) /\ ToSet(m.heap[j].partial[c]) = Roomy(m, j, c) \ {}
              /\ Once(m.heap[j].full[c]) /\ ToSet(m.heap[j].full[c]) = Full(m, j, c) \ {}
        /\ m.heap[j].slabs = Cardinality(SlabsOf(m, j))
        /\ m.heap[j].cells = Cardinality({u \in CellUses(m) : u.heap = j})
    BY <1>0, <2>1 DEF ListsOK
  <2>6. {u \in CellUses(m) : u.heap = j} = CellsIn(m, j)
    BY DEF CellsIn
  <2> QED
    BY <2>1, <2>2, <2>3, <2>4, <2>5, <2>6
<1>15. NoEmpty(m, {}) => NoEmpty(k, {})
  BY <1>1 DEF NoEmpty
<1> DEFINE d == h - 1
<1>16. /\ d \in DOMAIN m.block /\ m.block[d].heap = Machine /\ h \in Nat /\ d + 1 = h /\ Machine \in DOMAIN m.heap
  BY <1>0, PrivateHeap, Types DEF Placed
<1> HIDE DEF d
<1>17. d \in DOMAIN k.block /\ k.block[d] = m.block[d]
  BY <1>1, <1>16
<1>18. ASSUME NEW b \in DOMAIN k.block
       PROVE  OwnBlock(k, b) <=> OwnBlock(m, b) \/ b = d
  <2> DEFINE e == b + 1
  <2>1. b \in DOMAIN m.block /\ m.block[b].heap # h /\ b \in Nat /\ e - 1 = b /\ e = b + 1
    BY <1>0, <1>1, Types
  <2> HIDE DEF e
  <2>2. OwnBlock(k, b) <=> /\ e \notin DOMAIN k.heap /\ e \notin DOMAIN k.arena
                           /\ \A j \in DOMAIN k.heap : k.heap[j].scb # e
    BY DEF OwnBlock, e
  <2>3. OwnBlock(m, b) <=> /\ e \notin DOMAIN m.heap /\ e \notin DOMAIN m.arena
                           /\ \A j \in DOMAIN m.heap : m.heap[j].scb # e
    BY <2>1 DEF OwnBlock, e
  <2>4. e \in DOMAIN k.arena <=> e \in DOMAIN m.arena
    BY <1>1, <2>1
  <2>5. e \in DOMAIN m.heap <=> e \in DOMAIN k.heap \/ b = d
    <3>1. d \in Nat
      BY <1>0, <1>16, Types
    <3> QED
      BY <1>1, <1>16, <2>1, <3>1
  <2>6. m.heap[h].scb # e
    <3>1. ASSUME m.heap[h].scb = e PROVE FALSE
      <4>1. e # Null
        BY <2>1 DEF Null
      <4>2. m.block[e - 1].heap = h
        BY <1>0, <3>1, <4>1 DEF Placed, HeapsOK
      <4> QED
        BY <2>1, <4>2
    <3> QED
      BY <3>1
  <2>7. (\A j \in DOMAIN k.heap : k.heap[j].scb # e) <=> \A j \in DOMAIN m.heap : m.heap[j].scb # e
    BY <1>1, <2>6
  <2>8. CASE b # d
    BY <2>2, <2>3, <2>4, <2>5, <2>7, <2>8
  <2>9. CASE b = d
    <3>1. e = h
      BY <1>16, <2>1, <2>9
    <3>2. e \notin DOMAIN k.heap /\ e \notin DOMAIN m.arena
      BY <1>0, <1>1, <3>1 DEF Placed, ArenasOK
    <3>3. \A j \in DOMAIN m.heap : m.heap[j].scb # e
      <4>1. ASSUME NEW j \in DOMAIN m.heap, m.heap[j].scb = e PROVE FALSE
        <5>1. m.heap[j].scb # Null /\ (m.heap[j].scb - 1) + 1 \notin DOMAIN m.heap
          <6>1. e # Null
            BY <2>1 DEF Null
          <6> QED
            BY <1>0, <4>1, <6>1 DEF Placed, HeapsOK
        <5>2. (m.heap[j].scb - 1) + 1 = h
          BY <2>1, <3>1, <4>1
        <5> QED
          BY <5>1, <5>2
      <4> QED
        BY <4>1
    <3> QED
      BY <2>2, <2>4, <2>7, <2>9, <3>2, <3>3
  <2> QED
    BY <2>8, <2>9
<1>19. OwnBlock(k, d)
  BY <1>17, <1>18
<1>20. /\ BlockUse(k, d) \in Uses(k)
       /\ \A u : u \in Uses(k) \ {BlockUse(k, d)} <=>
              \/ u \in CellUses(k)
              \/ \E c \in DOMAIN k.block \ {d} : OwnBlock(k, c) /\ u = BlockUse(k, c)
  BY <1>11, <1>17, <1>19, OwnUse
<1>21. \A b \in DOMAIN k.block : BlockUse(k, b) = BlockUse(m, b)
  BY <1>1 DEF BlockUse
<1>22. ~ OwnBlock(m, d)
  BY <1>16 DEF OwnBlock
<1>23. ASSUME NEW u
       PROVE  (\E c \in DOMAIN k.block \ {d} : OwnBlock(k, c) /\ u = BlockUse(k, c))
                <=> u \in BlockUses(m) /\ u.heap # h
  <2>1. \A b : BlockUse(m, b).heap = m.block[b].heap
    BY DEF BlockUse, Use
  <2>2. u \in BlockUses(m) <=> \E b \in DOMAIN m.block : OwnBlock(m, b) /\ u = BlockUse(m, b)
    BY BlockUsed
  <2>3. ASSUME NEW c \in DOMAIN k.block \ {d}, OwnBlock(k, c), u = BlockUse(k, c)
        PROVE  u \in BlockUses(m) /\ u.heap # h
    BY <1>1, <1>18, <1>21, <2>1, <2>2, <2>3
  <2>4. ASSUME NEW c \in DOMAIN m.block, OwnBlock(m, c), u = BlockUse(m, c), u.heap # h
        PROVE  c \in DOMAIN k.block \ {d} /\ OwnBlock(k, c) /\ u = BlockUse(k, c)
    BY <1>1, <1>18, <1>21, <1>22, <2>1, <2>4
  <2> QED
    BY <2>2, <2>3, <2>4
<1>24. Uses(k) \ {BlockUse(k, d)} = {u \in Uses(m) : u.heap # h}
  BY <1>13, <1>20, <1>23 DEF Uses
<1>25. BlockUse(k, d).p = h /\ BlockUse(k, d).heap = Machine
  BY <1>16, <1>17 DEF BlockUse, Use
<1>26. Good(k)
  BY <1>11, <1>14 DEF Good
<1> QED
  BY <1>1, <1>15, <1>17, <1>20, <1>24, <1>25, <1>26 DEF d

(* The tiles of the arenas of a heap, in use or not, are slabs of no other. *)
LEMMA HeapTiles ==
  ASSUME NEW m, Placed(m), NEW h \in DOMAIN m.heap, NEW A,
         A = {a \in DOMAIN m.arena : m.block[a - 1].heap = h}, NEW t \in DOMAIN m.slab
  PROVE  t \in UNION {{TileAt(m, a, i) : i \in 0 .. m.arena[a].slabs - 1} : a \in A}
           <=> m.slab[t].heap = h
<1>1. /\ m.slab[t].arena \in DOMAIN m.arena /\ m.slab[t].heap = m.block[m.slab[t].arena - 1].heap
      /\ m.slab[t].arena < t /\ t + SlabSize <= End(m, m.slab[t].arena - 1) /\ t \in Nat
      /\ (t - m.arena[m.slab[t].arena].base) \div SlabSize \in m.arena[m.slab[t].arena].map
      /\ TileAt(m, m.slab[t].arena, (t - m.arena[m.slab[t].arena].base) \div SlabSize) = t
  BY SlabPlace
<1>2. ASSUME NEW a \in A, NEW i \in 0 .. m.arena[a].slabs - 1, t = TileAt(m, a, i)
      PROVE  m.slab[t].heap = h
  <2> DEFINE b == m.slab[t].arena
  <2>1. a \in DOMAIN m.arena /\ m.block[a - 1].heap = h
    OBVIOUS
  <2>2. a < t /\ t + SlabSize <= End(m, a - 1)
    BY <1>2, <2>1, TilePlace
  <2>3. b \in DOMAIN m.arena /\ b < t /\ t + SlabSize <= End(m, b - 1) /\ t \in Nat
    BY <1>1
  <2>4. /\ a - 1 \in DOMAIN m.block /\ a \notin DOMAIN m.heap
        /\ b - 1 \in DOMAIN m.block /\ b \notin DOMAIN m.heap
    BY <2>1, <2>3 DEF Placed, ArenasOK
  <2> HIDE DEF b
  <2> DEFINE c == a - 1
             d == b - 1
  <2>5. a \in Nat /\ b \in Nat /\ c + 1 = a /\ d + 1 = b /\ c \in Nat /\ d \in Nat
    BY <2>1, <2>3, <2>4, Types DEF Placed
  <2>6. c \in DOMAIN m.block /\ d \in DOMAIN m.block
    BY <2>4
  <2>7. End(m, c) \in Nat /\ End(m, d) \in Nat /\ t + SlabSize <= End(m, c) /\ t + SlabSize <= End(m, d)
    BY <2>2, <2>3, <2>6, Types DEF Placed
  <2> HIDE DEF c, d
  <2>8. c = d
    <3>1. ASSUME c # d PROVE FALSE
      <4>1. End(m, d) <= c \/ End(m, c) <= d \/ Inside(m, d, c)
        BY <2>4, <2>5, <2>6, <3>1, PlainBlock
      <4>2. ~ Inside(m, d, c)
        BY <2>4, <2>5, <2>6 DEF Inside, Placed, BlocksOK
      <4> QED
        BY <2>2, <2>3, <2>5, <2>7, <4>1, <4>2, Consts
    <3> QED
      BY <3>1
  <2>9. a = b
    BY <2>5, <2>8
  <2> QED
    BY <1>1, <2>1, <2>9 DEF b
<1>3. ASSUME m.slab[t].heap = h
      PROVE  \E a \in A : \E i \in 0 .. m.arena[a].slabs - 1 : t = TileAt(m, a, i)
  <2> DEFINE a == m.slab[t].arena
             i == (t - m.arena[a].base) \div SlabSize
  <2>1. a \in A /\ i \in m.arena[a].map /\ TileAt(m, a, i) = t /\ a \in DOMAIN m.arena
    BY <1>1, <1>3
  <2> HIDE DEF i, a
  <2>2. i \in 0 .. m.arena[a].slabs - 1
    BY <2>1 DEF Placed, ArenasOK
  <2> QED
    BY <2>1, <2>2
<1> QED
  BY <1>2, <1>3

(* _HeapDestroy: of what was in use, that outside the heap is left.        *)
LEMMA HeapDestroyed ==
  ASSUME NEW m, Good(m), NEW h \in DOMAIN m.heap, h # Machine
  PROVE  LET o == HeapDestroy(m, h)
         IN  /\ Good(o.m) /\ (NoEmpty(m, {}) => NoEmpty(o.m, {}))
             /\ DOMAIN o.m.heap = DOMAIN m.heap \ {h} /\ o.p = h
             /\ Uses(o.m) = {u \in Uses(m) : u.heap # h}
<1>0. Placed(m) /\ Memory(m) /\ ListsOK(m, {})
  BY DEF Good, Placed
<1> DEFINE A == ToSet(m.heap[h].arenas)
           T == UNION {{TileAt(m, a, i) : i \in 0 .. m.arena[a].slabs - 1} : a \in A}
           w == [m EXCEPT !.arena = Without(@, A), !.slab = Without(@, T)]
           k == WithoutHeap(w, h)
           o == HeapDestroy(m, h)
<1>1. Machine \in DOMAIN m.heap
  BY <1>0, PrivateHeap
<1>2. Audit(m, h)
  BY <1>1, GoodValid DEF Audit
<1>3. o = HeapFree(k, Machine, h, FALSE)
  BY <1>2 DEF HeapDestroy
<1>4. A = {a \in DOMAIN m.arena : m.block[a - 1].heap = h}
  BY <1>0 DEF Placed, ArenasOK
<1>5. \A t \in DOMAIN m.slab : t \in T <=> m.slab[t].heap = h
  BY <1>0, <1>4, HeapTiles
<1> HIDE DEF o, A, T
<1>6. m \in [heap : {m.heap}, block : {m.block}, arena : {m.arena}, slab : {m.slab}]
  BY <1>0 DEF Memory
<1>7. /\ w \in [heap : {w.heap}, block : {w.block}, arena : {w.arena}, slab : {w.slab}]
      /\ w.heap = m.heap /\ w.block = m.block /\ w.arena = Without(m.arena, A) /\ w.slab = Without(m.slab, T)
  BY <1>6
<1> HIDE DEF w
<1>8. /\ k \in [heap : {k.heap}, block : {k.block}, arena : {k.arena}, slab : {k.slab}]
      /\ k.heap = Without(m.heap, {h}) /\ k.block = Without(m.block, Blocks(w, h))
      /\ k.arena = Without(m.arena, A) /\ k.slab = Without(m.slab, T)
  BY <1>7 DEF WithoutHeap
<1>9. Blocks(w, h) = {b \in DOMAIN m.block : m.block[b].heap = h}
  BY <1>7 DEF Blocks
<1> HIDE DEF k
<1>10. Parted(m, k, h)
  <2>1. DOMAIN m.block \ Blocks(w, h) = {d \in DOMAIN m.block : m.block[d].heap # h}
    BY <1>9
  <2>2. DOMAIN m.arena \ A = {d \in DOMAIN m.arena : m.block[d - 1].heap # h}
    BY <1>4
  <2>3. DOMAIN m.slab \ T = {d \in DOMAIN m.slab : m.slab[d].heap # h}
    BY <1>5
  <2>4. k.block = [b \in {d \in DOMAIN m.block : m.block[d].heap # h} |-> m.block[b]]
    BY <1>8, <2>1 DEF Without
  <2>5. k.arena = [a \in {d \in DOMAIN m.arena : m.block[d - 1].heap # h} |-> m.arena[a]]
    BY <1>8, <2>2 DEF Without
  <2>6. k.slab = [t \in {d \in DOMAIN m.slab : m.slab[d].heap # h} |-> m.slab[t]]
    BY <1>8, <2>3 DEF Without
  <2>7. k.heap = [j \in DOMAIN m.heap \ {h} |-> m.heap[j]]
    BY <1>8 DEF Without
  <2> QED
    BY <1>8, <2>4, <2>5, <2>6, <2>7 DEF Parted
<1> DEFINE u == BlockUse(k, h - 1)
<1>11. /\ Good(k) /\ (NoEmpty(m, {}) => NoEmpty(k, {})) /\ DOMAIN k.heap = DOMAIN m.heap \ {h}
       /\ u \in Uses(k) /\ Uses(k) \ {u} = {x \in Uses(m) : x.heap # h}
       /\ u.p = h /\ u.heap = Machine
  BY <1>10, HeapParted
<1> HIDE DEF u
<1>12. Freed(k, HeapFree(k, u.heap, u.p, FALSE), u)
  BY <1>11, HeapFrees
<1>13. Freed(k, o, u)
  BY <1>3, <1>11, <1>12
<1>14. o.p = h /\ Good(o.m) /\ (NoEmpty(k, {}) => NoEmpty(o.m, {})) /\ DOMAIN o.m.heap = DOMAIN k.heap
       /\ Uses(o.m) = Uses(k) \ {u}
  BY <1>11, <1>13 DEF Freed, Sound, SameHeaps
<1>15. /\ Good(o.m) /\ (NoEmpty(m, {}) => NoEmpty(o.m, {}))
       /\ DOMAIN o.m.heap = DOMAIN m.heap \ {h} /\ o.p = h
       /\ Uses(o.m) = {x \in Uses(m) : x.heap # h}
  BY <1>11, <1>14
<1> QED
  BY <1>15 DEF o
-----------------------------------------------------------------------------
(* X is what the clients hold of the memory m: a pointer in use each, none *)
(* twice, and every pointer in use.                                        *)
Coupled(m, X) ==
  /\ X \subseteq [p : Nat, n : Nat \ {0}]
  /\ \A x \in X : \E u \in Uses(m) : u.p = x.p /\ x.n <= u.n
  /\ \A u \in Uses(m) : \E x \in X : u.p = x.p
  /\ \A x, y \in X : x.p = y.p => x = y

(* The heaps there are: none yet, the machine heap, or the open arena too. *)
Ready(m, a) == a # Machine /\ DOMAIN m.heap = {Machine} \cup ({a} \ {Null})
HeapsKnown == (NoHeap(mem) /\ arena = Null) \/ Ready(mem, arena)

IInv == Good(mem) /\ NoEmpty(mem, {}) /\ Coupled(mem, objects) /\ HeapsKnown
-----------------------------------------------------------------------------
(* What the clients hold after a pointer more, a pointer less, and a       *)
(* pointer traded for another.                                             *)
LEMMA CoupledGain ==
  ASSUME NEW m, NEW X, Coupled(m, X), NEW k, Placed(k), NEW u, NEW p, NEW n \in Nat \ {0},
         u.p = p, u.n >= n, u \notin Uses(m), Uses(k) = Uses(m) \cup {u}
  PROVE  Coupled(k, X \cup {Held(p, n)})
<1> DEFINE y == Held(p, n)
           Y == X \cup {y}
<1>1. y.p = p /\ y.n = n
  BY DEF Held
<1>2. \A v \in Uses(k) : v.p \in Nat /\ v.n \in Nat \ {0}
  BY UseTypes
<1>3. y \in [p : Nat, n : Nat \ {0}]
  BY <1>2 DEF Held
<1> HIDE DEF y
<1>4. /\ X \subseteq [p : Nat, n : Nat \ {0}]
      /\ \A x \in X : \E v \in Uses(m) : v.p = x.p /\ x.n <= v.n
      /\ \A v \in Uses(m) : \E x \in X : v.p = x.p
      /\ \A x, z \in X : x.p = z.p => x = z
  BY DEF Coupled
<1>5. ASSUME NEW x \in Y PROVE \E v \in Uses(k) : v.p = x.p /\ x.n <= v.n
  <2>1. CASE x = y
    <3>1. u \in Uses(k) /\ u.p = x.p /\ x.n <= u.n
      BY <1>1, <1>2, <2>1
    <3> QED
      BY <3>1
  <2>2. CASE x \in X
    BY <1>4, <2>2
  <2> QED
    BY <2>1, <2>2
<1>6. \A v \in Uses(k) : \E x \in Y : v.p = x.p
  BY <1>1, <1>4
<1>7. ASSUME NEW x \in X, x.p = y.p PROVE FALSE
  <2>1. PICK v \in Uses(m) : v.p = x.p
    BY <1>4
  <2>2. v \in Uses(k) /\ u \in Uses(k) /\ v.p = u.p
    BY <1>1, <1>7, <2>1
  <2>3. v = u
    BY <2>2, UsesDistinct
  <2> QED
    BY <2>1, <2>3
<1>8. \A x, z \in Y : x.p = z.p => x = z
  BY <1>4, <1>7
<1>9. Y \subseteq [p : Nat, n : Nat \ {0}]
  BY <1>3, <1>4
<1>10. Coupled(k, Y)
  <2> HIDE DEF Y
  <2> QED
    BY <1>5, <1>6, <1>8, <1>9 DEF Coupled
<1> QED
  BY <1>10 DEF y

(* A pointer freed.                                                        *)
LEMMA CoupledLoss ==
  ASSUME NEW m, Placed(m), NEW X, Coupled(m, X), NEW x \in X, NEW u \in Uses(m), u.p = x.p,
         NEW k, Uses(k) = Uses(m) \ {u}
  PROVE  Coupled(k, X \ {x})
<1>1. /\ X \subseteq [p : Nat, n : Nat \ {0}]
      /\ \A y \in X : \E v \in Uses(m) : v.p = y.p /\ y.n <= v.n
      /\ \A v \in Uses(m) : \E y \in X : v.p = y.p
      /\ \A y, z \in X : y.p = z.p => y = z
  BY DEF Coupled
<1>2. ASSUME NEW y \in X \ {x} PROVE \E v \in Uses(k) : v.p = y.p /\ y.n <= v.n
  <2>1. PICK v \in Uses(m) : v.p = y.p /\ y.n <= v.n
    BY <1>1
  <2>2. v # u
    BY <1>1, <2>1
  <2> QED
    BY <2>1, <2>2
<1>3. ASSUME NEW v \in Uses(k) PROVE \E y \in X \ {x} : v.p = y.p
  <2>1. v \in Uses(m) /\ v # u
    OBVIOUS
  <2>2. v.p # u.p
    BY <2>1, UsesDistinct
  <2>3. PICK y \in X : v.p = y.p
    BY <1>1, <2>1
  <2>4. y # x
    BY <2>2, <2>3
  <2> QED
    BY <2>3, <2>4
<1> QED
  BY <1>1, <1>2, <1>3 DEF Coupled

(* A pointer reallocated.                                                  *)
LEMMA CoupledTrade ==
  ASSUME NEW m, Placed(m), NEW X, Coupled(m, X), NEW x \in X, NEW u \in Uses(m), u.p = x.p,
         NEW k, Placed(k), NEW v, NEW p, NEW n \in Nat \ {0}, v.p = p, v.n >= n,
         v \notin Uses(m) \ {u}, Uses(k) = (Uses(m) \ {u}) \cup {v}
  PROVE  Coupled(k, (X \ {x}) \cup {Held(p, n)})
<1> DEFINE y == Held(p, n)
           Y == (X \ {x}) \cup {y}
<1>1. y.p = p /\ y.n = n
  BY DEF Held
<1>2. \A w \in Uses(k) : w.p \in Nat /\ w.n \in Nat \ {0}
  BY UseTypes
<1>3. y \in [p : Nat, n : Nat \ {0}]
  BY <1>2 DEF Held
<1> HIDE DEF y
<1>4. /\ X \subseteq [p : Nat, n : Nat \ {0}]
      /\ \A z \in X : \E w \in Uses(m) : w.p = z.p /\ z.n <= w.n
      /\ \A w \in Uses(m) : \E z \in X : w.p = z.p
      /\ \A z, a \in X : z.p = a.p => z = a
  BY DEF Coupled
<1>5. ASSUME NEW z \in X \ {x} PROVE \E w \in Uses(m) \ {u} : w.p = z.p /\ z.n <= w.n
  <2>1. PICK w \in Uses(m) : w.p = z.p /\ z.n <= w.n
    BY <1>4
  <2>2. w # u
    BY <1>4, <2>1
  <2> QED
    BY <2>1, <2>2
<1>6. ASSUME NEW z \in Y PROVE \E w \in Uses(k) : w.p = z.p /\ z.n <= w.n
  <2>1. CASE z = y
    <3>1. v \in Uses(k) /\ v.p = z.p /\ z.n <= v.n
      BY <1>1, <1>2, <2>1
    <3> QED
      BY <3>1
  <2>2. CASE z \in X \ {x}
    BY <1>5, <2>2
  <2> QED
    BY <2>1, <2>2
<1>7. ASSUME NEW w \in Uses(k) PROVE \E z \in Y : w.p = z.p
  <2>1. CASE w = v
    BY <1>1, <2>1
  <2>2. CASE w # v
    <3>1. w \in Uses(m) /\ w # u
      BY <2>2
    <3>2. w.p # u.p
      BY <3>1, UsesDistinct
    <3>3. PICK z \in X : w.p = z.p
      BY <1>4, <3>1
    <3>4. z # x
      BY <3>2, <3>3
    <3> QED
      BY <3>3, <3>4
  <2> QED
    BY <2>1, <2>2
<1>8. ASSUME NEW z \in X \ {x}, z.p = y.p PROVE FALSE
  <2>1. PICK w \in Uses(m) \ {u} : w.p = z.p
    BY <1>5
  <2>2. w \in Uses(k) /\ v \in Uses(k) /\ w.p = v.p
    BY <1>1, <1>8, <2>1
  <2>3. w = v
    BY <2>2, UsesDistinct
  <2> QED
    BY <2>1, <2>3
<1>9. \A z, a \in Y : z.p = a.p => z = a
  BY <1>4, <1>8
<1>10. Y \subseteq [p : Nat, n : Nat \ {0}]
  BY <1>3, <1>4
<1>11. Coupled(k, Y)
  <2> HIDE DEF Y
  <2> QED
    BY <1>6, <1>7, <1>9, <1>10 DEF Coupled
<1> QED
  BY <1>11 DEF y

(* A change of nothing that is in use.                                     *)
LEMMA CoupledSame ==
  ASSUME NEW m, NEW X, Coupled(m, X), NEW k, Uses(k) = Uses(m)
  PROVE  Coupled(k, X)
BY DEF Coupled
-----------------------------------------------------------------------------
(* What is in use lies in a block of its heap, and not in a heap's own.    *)
LEMMA UseInBlock ==
  ASSUME NEW m, Placed(m), NEW u \in Uses(m)
  PROVE  \E b \in DOMAIN m.block :
           /\ m.block[b].heap = u.heap /\ b + 1 \notin DOMAIN m.heap
           /\ b < u.p /\ u.p + u.n <= End(m, b)
<1>1. CASE u \in CellUses(m)
  <2>1. PICK t \in DOMAIN m.slab : \E i \in LiveIn(m, t) : u = CellUse(m, t, i)
    BY <1>1, CellUsed
  <2>2. PICK i \in LiveIn(m, t) : u = CellUse(m, t, i)
    BY <2>1
  <2>3. /\ u.p = CellAt(m, t, i) /\ u.n = CellSz[m.slab[t].cls] /\ u.heap = m.slab[t].heap
        /\ i \in 0 .. m.slab[t].total - 1 /\ u.p \in Nat /\ u.n \in Nat \ {0}
    BY <2>2, CellUseIs
  <2> DEFINE a == m.slab[t].arena
  <2>4. /\ a \in DOMAIN m.arena /\ a - 1 \in DOMAIN m.block /\ t \in Nat
        /\ a < t /\ t + SlabSize <= End(m, a - 1) /\ m.slab[t].heap = m.block[a - 1].heap
    BY SlabPlace
  <2>5. t < u.p /\ u.p + u.n <= t + SlabSize
    BY <2>3, CellPtr
  <2>6. a \notin DOMAIN m.heap
    BY <2>4 DEF Placed, ArenasOK
  <2>7. a \in Nat /\ End(m, a - 1) \in Nat
    BY <2>4, Types DEF Placed
  <2> DEFINE b == a - 1
             e == End(m, b)
  <2>8. b \in DOMAIN m.block /\ m.block[b].heap = u.heap /\ b \in Int /\ b + 1 = a /\ e \in Nat
        /\ t + SlabSize <= e
    BY <2>3, <2>4, <2>7
  <2> HIDE DEF a, b, e
  <2>9. b + 1 \notin DOMAIN m.heap
    BY <2>6, <2>8
  <2>10. SlabSize \in Nat
    BY Consts
  <2>11. u.p \in Nat /\ u.n \in Nat /\ a \in Nat /\ t \in Nat /\ a < t
    BY <2>3, <2>4, <2>7
  <2>12. b < u.p /\ u.p + u.n <= e
    BY <2>5, <2>8, <2>10, <2>11
  <2> QED
    BY <2>8, <2>9, <2>12 DEF e
<1>2. CASE u \in BlockUses(m)
  <2>1. PICK b \in DOMAIN m.block : OwnBlock(m, b) /\ u = BlockUse(m, b)
    BY <1>2, BlockUsed
  <2>2. u.p = b + 1 /\ u.n = m.block[b].size - 1 /\ u.heap = m.block[b].heap
    BY <2>1, BlockUseIs
  <2>3. b \in Nat /\ m.block[b].size \in Nat
    BY Types DEF Placed
  <2>4. b + 1 \notin DOMAIN m.heap
    BY <2>1 DEF OwnBlock
  <2> QED
    BY <2>2, <2>3, <2>4 DEF End
<1> QED
  BY <1>1, <1>2 DEF Uses

(* So the range of a private heap tells its pointers from those of the     *)
(* machine heap.                                                           *)
LEMMA InRange ==
  ASSUME NEW m, Placed(m), NEW h \in DOMAIN m.heap, h # Machine, DOMAIN m.heap = {Machine, h},
         NEW u \in Uses(m)
  PROVE  (h <= u.p /\ u.p < m.heap[h].hi) <=> u.heap = h
<1>1. u.p \in Nat /\ u.n \in Nat \ {0} /\ u.heap \in {Machine, h}
  BY UseTypes
<1>2. PICK b \in DOMAIN m.block :
        /\ m.block[b].heap = u.heap /\ b + 1 \notin DOMAIN m.heap
        /\ b < u.p /\ u.p + u.n <= End(m, b)
  BY UseInBlock
<1>3. b \in Nat /\ End(m, b) \in Nat /\ h \in Nat /\ m.heap[h].hi \in Nat /\ m.heap[h].lo = h
  BY Types DEF Placed, HeapsOK
<1>4. CASE u.heap = h
  <2>1. First(m, h) <= b /\ End(m, b) <= Limit(m, h)
    BY <1>2, <1>4 DEF Placed, BlocksOK
  <2>2. First(m, h) = h + 2 /\ Limit(m, h) = m.heap[h].hi - 1
    BY <1>3 DEF First, Limit, Header
  <2> QED
    BY <1>1, <1>2, <1>3, <1>4, <2>1, <2>2
<1>5. CASE u.heap = Machine
  <2> DEFINE c == h - 1
  <2>1. c \in DOMAIN m.block /\ m.block[c].heap = Machine /\ m.heap[h].hi <= End(m, c)
    BY DEF Placed, HeapsOK
  <2>2. c \in Nat /\ End(m, c) \in Nat /\ c + 1 = h
    BY <1>3, <2>1, Types DEF Placed
  <2> HIDE DEF c
  <2>3. b # c
    BY <1>2, <2>2
  <2>4. b < c => End(m, b) <= c
    BY <1>2, <1>5, <2>1 DEF Placed, BlocksOK
  <2>5. c < b => End(m, c) <= b
    BY <1>2, <1>5, <2>1 DEF Placed, BlocksOK
  <2>6. ~ (h <= u.p /\ u.p < m.heap[h].hi)
    BY <1>1, <1>2, <1>3, <2>1, <2>2, <2>3, <2>4, <2>5
  <2> QED
    BY <1>5, <2>6
<1> QED
  BY <1>1, <1>4, <1>5

(* free and realloc turn to the heap the pointer came from.                *)
LEMMA OwnerIs ==
  ASSUME IInv, NEW u \in Uses(mem)
  PROVE  OwnerHeap(u.p) = u.heap
<1>1. Placed(mem) /\ u.heap \in DOMAIN mem.heap
  BY UseTypes DEF IInv, Good
<1>2. CASE NoHeap(mem)
  BY <1>1, <1>2 DEF NoHeap
<1>3. CASE Ready(mem, arena) /\ arena = Null
  BY <1>1, <1>3 DEF OwnerHeap, Ready
<1>4. CASE Ready(mem, arena) /\ arena # Null
  <2>1. DOMAIN mem.heap = {Machine, arena} /\ arena \in DOMAIN mem.heap /\ arena # Machine
    BY <1>4 DEF Ready
  <2>2. (arena <= u.p /\ u.p < mem.heap[arena].hi) <=> u.heap = arena
    BY <1>1, <2>1, InRange
  <2> QED
    BY <1>1, <1>4, <2>1, <2>2 DEF OwnerHeap
<1> QED
  BY <1>2, <1>3, <1>4 DEF IInv, HeapsKnown
-----------------------------------------------------------------------------
(* __heap_mark: a scratch arena, or no change.                             *)
LEMMA ScratchMade ==
  ASSUME NEW m, Good(m), Machine \in DOMAIN m.heap, NEW found, found.m = m, found.p \in Nat,
         NEW v \in BOOLEAN
  PROVE  LET o == Scratch(found, v)
         IN  o = Outcome(m, Null) \/ (o = Outcome(o.m, o.p) /\ Created(m, o.m, o.p))
<1> DEFINE N == found.p
           Less(s) == s - (s \div 4)
           Value(s, g) == IF s < ArenaMin THEN Outcome(m, Null)
                          ELSE OrElse(HeapCreate(m, s, v), g[Less(s)])
           Eqn(f) == f = [s \in 0 .. N |-> IF s < ArenaMin THEN Outcome(found.m, Null)
                            ELSE OrElse(HeapCreate(found.m, s, v), f[s - (s \div 4)])]
           F == CHOOSE f : Eqn(f)
           Upto(i, g) == g = [s \in 0 .. N |-> g[s]] /\ \A s \in 0 .. i : g[s] = Value(s, g)
           Ok(o) == o = Outcome(m, Null) \/ (o = Outcome(o.m, o.p) /\ Created(m, o.m, o.p))
<1>1. Scratch(found, v) = IF N < ArenaSlack THEN Outcome(m, Null) ELSE F[N - ArenaSlack]
  BY DEF Scratch
<1>2. N \in Nat /\ ArenaMin \in Nat /\ ArenaMin >= 4 /\ ArenaMin + 4 > SoaMax /\ ArenaSlack \in Nat
  BY MallocAssumption
<1>3. \A s \in 0 .. N : s >= ArenaMin => Less(s) \in 0 .. s - 1
  <2> SUFFICES ASSUME NEW s \in 0 .. N, s >= ArenaMin PROVE Less(s) \in 0 .. s - 1
    OBVIOUS
  <2>1. s \in Nat /\ s >= 4
    BY <1>2
  <2>2. s \div 4 \in Nat /\ s \div 4 <= s /\ s \div 4 >= 1
    BY <2>1, SMTT(30)
  <2> QED
    BY <2>1, <2>2
<1> HIDE DEF N, Less
(* The loop's sizes shrink, so its outcome is a function of the size.      *)
<1>4. \E f : Eqn(f)
  <2> DEFINE S == {i \in 0 .. N : \E g : Upto(i, g)}
  <2>1. 0 \in S
    <3> DEFINE g == [s \in 0 .. N |-> Outcome(m, Null)]
    <3>1. g[0] = Value(0, g)
      BY <1>2
    <3>2. g = [s \in 0 .. N |-> g[s]]
      OBVIOUS
    <3> HIDE DEF g, Value
    <3>3. Upto(0, g)
      BY <3>1, <3>2
    <3> QED
      BY <1>2, <3>3
  <2>2. ASSUME NEW i \in 0 .. N - 1, i \in S PROVE i + 1 \in S
    <3>1. PICK g : Upto(i, g)
      BY <2>2
    <3> DEFINE j == i + 1
               w == Value(j, g)
               f == [s \in 0 .. N |-> IF s = j THEN w ELSE g[s]]
    <3>2. j \in 1 .. N /\ i = j - 1 /\ j \in Nat
      BY <1>2
    <3> HIDE DEF j, w
    <3>3. f[j] = w /\ \A s \in 0 .. N : s # j => f[s] = g[s]
      BY <3>2
    <3>4. f = [s \in 0 .. N |-> f[s]]
      OBVIOUS
    <3> HIDE DEF f
    <3>5. ASSUME NEW s \in 0 .. j PROVE Value(s, f) = Value(s, g)
      <4>1. CASE s < ArenaMin
        BY <4>1
      <4>2. CASE s >= ArenaMin
        <5>1. Less(s) \in 0 .. N /\ Less(s) # j
          BY <1>2, <1>3, <3>2, <4>2
        <5>2. f[Less(s)] = g[Less(s)]
          BY <3>3, <5>1
        <5> QED
          BY <5>2
      <4> QED
        BY <1>2, <3>2, <4>1, <4>2
    <3> HIDE DEF Value
    <3>6. ASSUME NEW s \in 0 .. j PROVE f[s] = Value(s, f)
      <4>1. CASE s = j
        BY <3>3, <3>5, <4>1 DEF w
      <4>2. CASE s # j
        <5>1. s \in 0 .. i /\ s \in 0 .. N
          BY <1>2, <3>2, <4>2
        <5>2. f[s] = g[s] /\ g[s] = Value(s, g)
          BY <3>1, <3>3, <4>2, <5>1
        <5> QED
          BY <3>5, <5>2
      <4> QED
        BY <4>1, <4>2
    <3>7. Upto(j, f)
      BY <3>4, <3>6
    <3> HIDE DEF Upto
    <3>8. j \in S
      BY <3>2, <3>7
    <3> QED
      BY <3>8 DEF j
  <2> HIDE DEF S
  <2>3. N \in S
    BY <1>2, <2>1, <2>2, SetInduction
  <2>4. PICK g : Upto(N, g)
    BY <2>3 DEF S
  <2>5. g = [s \in 0 .. N |-> Value(s, g)]
    <3> HIDE DEF Value
    <3>1. g = [s \in 0 .. N |-> g[s]] /\ \A s \in 0 .. N : g[s] = Value(s, g)
      BY <2>4
    <3> QED
      BY <3>1
  <2>6. Eqn(g)
    BY <2>5 DEF Less
  <2> QED
    BY <2>6
<1>5. F = [s \in 0 .. N |-> Value(s, F)]
  <2>1. Eqn(F)
    <3> HIDE DEF Eqn
    <3> QED
      BY <1>4
  <2> QED
    BY <2>1 DEF Less
<1> HIDE DEF F
<1>6. ASSUME NEW s \in 0 .. N, s >= ArenaMin PROVE Ok(HeapCreate(m, s, v))
  <2>1. s \in Nat /\ s + 4 > SoaMax
    BY <1>2, <1>6, Consts
  <2> QED
    BY <2>1, HeapCreated
<1> DEFINE T == {i \in 0 .. N : \A s \in 0 .. i : Ok(F[s])}
<1>7. \A s \in 0 .. N : F[s] = Value(s, F)
  <2> HIDE DEF Value
  <2> QED
    BY <1>5
<1>8. Ok(Outcome(m, Null))
  OBVIOUS
<1> HIDE DEF Ok
<1>9. ASSUME NEW s \in 0 .. N, s >= ArenaMin => Ok(F[Less(s)]) PROVE Ok(F[s])
  <2>1. CASE s < ArenaMin
    BY <1>7, <1>8, <2>1
  <2>2. CASE s >= ArenaMin
    <3>1. F[s] = OrElse(HeapCreate(m, s, v), F[Less(s)])
      BY <1>2, <1>7, <2>2
    <3> QED
      BY <1>6, <1>9, <2>2, <3>1 DEF OrElse
  <2> QED
    BY <1>2, <2>1, <2>2
<1> HIDE DEF Value
<1>10. 0 \in T
  <2>1. 0 \in 0 .. N /\ ~ (0 >= ArenaMin)
    BY <1>2
  <2>2. Ok(F[0])
    BY <1>9, <2>1
  <2> QED
    BY <1>2, <2>2
<1>11. ASSUME NEW i \in 0 .. N - 1, i \in T PROVE i + 1 \in T
  <2> DEFINE j == i + 1
  <2>1. j \in 0 .. N /\ i = j - 1 /\ \A s \in 0 .. j : s \in 0 .. i \/ s = j
    BY <1>2
  <2>2. \A s \in 0 .. i : Ok(F[s])
    BY <1>11
  <2> HIDE DEF j
  <2>3. j >= ArenaMin => Less(j) \in 0 .. i
    BY <1>3, <2>1
  <2>4. Ok(F[j])
    BY <1>9, <2>1, <2>2, <2>3
  <2>5. j \in T
    BY <2>1, <2>2, <2>4
  <2> QED
    BY <2>5 DEF j
<1> HIDE DEF T
<1>12. 0 .. N \subseteq T
  BY <1>2, <1>10, <1>11, SetInduction
<1>13. CASE N >= ArenaSlack
  <2> DEFINE d == N - ArenaSlack
  <2>1. d \in 0 .. N /\ Scratch(found, v) = F[d]
    BY <1>1, <1>2, <1>13
  <2> HIDE DEF d
  <2>2. d \in T /\ d \in 0 .. d
    BY <1>2, <1>12, <2>1
  <2>3. Ok(F[d])
    BY <2>2 DEF T
  <2> QED
    BY <2>1, <2>3 DEF Ok
<1>14. CASE N < ArenaSlack
  BY <1>1, <1>14
<1> QED
  BY <1>2, <1>13, <1>14
-----------------------------------------------------------------------------
(* Every step keeps the invariant.                                         *)
LEMMA NullIs ==
  Null = 0 /\ Machine = Base /\ Machine # Null /\ Avail \in Nat
BY MallocAssumption, Consts DEF Null

(* _heap_machine_get *)
LEMMA MachineReady ==
  ASSUME IInv, NEW m \in WithMachineHeap(mem)
  PROVE  /\ Good(m) /\ NoEmpty(m, {}) /\ Coupled(m, objects) /\ Uses(m) = Uses(mem)
         /\ Ready(m, arena) /\ Machine \in DOMAIN m.heap /\ CurHeap \in DOMAIN m.heap
         /\ m.heap[Machine].validate \in BOOLEAN
<1>1. CASE Machine \in DOMAIN mem.heap
  <2>1. m = mem /\ ~ NoHeap(mem)
    BY <1>1 DEF WithMachineHeap, NoHeap
  <2>2. Good(m) /\ NoEmpty(m, {}) /\ Coupled(m, objects) /\ Ready(m, arena)
    BY <2>1 DEF IInv, HeapsKnown
  <2>3. CurHeap \in DOMAIN m.heap
    BY <2>2, NullIs DEF Ready, CurHeap
  <2>4. m.heap[Machine].validate \in BOOLEAN
    BY <1>1, <2>1, <2>2, Types DEF Good, Placed, HeapRec
  <2> QED
    BY <1>1, <2>1, <2>2, <2>3, <2>4
<1>2. CASE Machine \notin DOMAIN mem.heap
  <2>1. NoHeap(mem) /\ arena = Null
    BY <1>2 DEF IInv, HeapsKnown, Ready
  <2>2. PICK v \in Validating : m = MachineHeapInitialize(mem, Machine, Avail, v)
    BY <1>2, NullIs DEF WithMachineHeap
  <2>3. v \in BOOLEAN
    BY MallocAssumption
  <2>4. /\ Good(m) /\ NoEmpty(m, {}) /\ Uses(m) = {} /\ DOMAIN m.heap = {Machine}
        /\ m.heap[Machine].validate = v
    BY <2>1, <2>2, <2>3, NullIs, MachineHeapMade
  <2>5. Uses(mem) = {} /\ Placed(mem)
    BY <2>1, NoHeapGood DEF Good
  <2>6. Coupled(m, objects)
    BY <2>4, <2>5 DEF IInv, Coupled
  <2>7. Ready(m, arena) /\ CurHeap \in DOMAIN m.heap
    BY <2>1, <2>4, NullIs DEF Ready, CurHeap
  <2> QED
    BY <2>3, <2>4, <2>5, <2>6, <2>7
<1> QED
  BY <1>1, <1>2

(* At first there is no heap, and nothing is held.                         *)
LEMMA InitKeeps ==
  Init => IInv
<1> SUFFICES ASSUME Init PROVE IInv
  OBVIOUS
<1>1. NoHeap(mem)
  <2>1. DOMAIN <<>> = {} /\ <<>> = [x \in {} |-> x]
    OBVIOUS
  <2>2. IsFiniteSet({})
    BY FS_EmptySet
  <2>3. /\ mem \in [heap : {mem.heap}, block : {mem.block}, arena : {mem.arena}, slab : {mem.slab}]
        /\ mem.heap = <<>> /\ mem.block = <<>> /\ mem.arena = <<>> /\ mem.slab = <<>>
    BY DEF Init
  <2> QED
    BY <2>1, <2>2, <2>3 DEF NoHeap, Memory
<1>2. Good(mem) /\ NoEmpty(mem, {}) /\ Uses(mem) = {}
  BY <1>1, NoHeapGood
<1>3. Coupled(mem, objects)
  BY <1>2 DEF Init, Coupled
<1> QED
  BY <1>1, <1>2, <1>3 DEF Init, IInv, HeapsKnown

(* When the heaps are those there were, they are known.                    *)
LEMMA StaysReady ==
  ASSUME NEW m, NEW k, SameHeaps(m, k), NEW a, Ready(m, a)
  PROVE  Ready(k, a)
BY DEF SameHeaps, Ready

(* malloc                                                                  *)
LEMMA MallocKeeps ==
  ASSUME IInv, NEW n \in Requests, Malloc(n)
  PROVE  IInv'
<1>1. n \in Nat \ {0}
  BY MallocAssumption
<1>2. PICK m \in WithMachineHeap(mem) :
        LET o == HeapAlloc(m, CurHeap, n)
        IN  /\ mem' = o.m
            /\ objects' = IF o.p = Null THEN objects ELSE objects \cup {Held(o.p, n)}
  BY DEF Malloc
<1> DEFINE o == HeapAlloc(m, CurHeap, n)
<1>3. mem' = o.m /\ objects' = (IF o.p = Null THEN objects ELSE objects \cup {Held(o.p, n)})
      /\ arena' = arena
  BY <1>2 DEF Malloc
<1>4. /\ Good(m) /\ NoEmpty(m, {}) /\ Coupled(m, objects)
      /\ Ready(m, arena) /\ CurHeap \in DOMAIN m.heap
  BY MachineReady
<1>5. Served(m, o, CurHeap, n)
  BY <1>1, <1>4, HeapServes
<1> HIDE DEF o
<1>6. Good(o.m) /\ NoEmpty(o.m, {}) /\ SameHeaps(m, o.m)
  BY <1>4, <1>5 DEF Served, Sound
<1>7. Ready(o.m, arena)
  BY <1>4, <1>6, StaysReady
<1>8. CASE o.p = Null
  <2>1. Uses(o.m) = Uses(m)
    BY <1>5, <1>8 DEF Served
  <2>2. Coupled(o.m, objects)
    BY <1>4, <2>1, CoupledSame
  <2> QED
    BY <1>3, <1>6, <1>7, <1>8, <2>2 DEF IInv, HeapsKnown
<1>9. CASE o.p # Null
  <2>1. PICK u : /\ u.p = o.p /\ u.n >= n /\ u \notin Uses(m) /\ Uses(o.m) = Uses(m) \cup {u}
    BY <1>5, <1>9 DEF Served, Gives
  <2>2. Placed(o.m)
    BY <1>6 DEF Good
  <2>3. Coupled(o.m, objects \cup {Held(o.p, n)})
    BY <1>1, <1>4, <2>1, <2>2, CoupledGain
  <2> QED
    BY <1>3, <1>6, <1>7, <1>9, <2>3 DEF IInv, HeapsKnown
<1> QED
  BY <1>8, <1>9

(* With a pointer in use there is a heap, and its owner is one.            *)
LEMMA InUse ==
  ASSUME IInv
  PROVE  /\ \A x \in objects : \E u \in Uses(mem) : u.p = x.p /\ x.n <= u.n
         /\ Uses(mem) # {} \/ DOMAIN mem.slab # {} \/ DOMAIN mem.heap # {} => Ready(mem, arena)
         /\ Ready(mem, arena) => \A p : OwnerHeap(p) \in DOMAIN mem.heap
         /\ Placed(mem)
<1>1. NoHeap(mem) => Uses(mem) = {} /\ DOMAIN mem.slab = {} /\ DOMAIN mem.heap = {}
  BY NoHeapGood DEF NoHeap
<1>2. Ready(mem, arena) => \A p : OwnerHeap(p) \in DOMAIN mem.heap
  BY DEF Ready, OwnerHeap
<1> QED
  BY <1>1, <1>2 DEF IInv, HeapsKnown, Coupled, Good

(* free                                                                    *)
LEMMA FreeKeeps ==
  ASSUME IInv, NEW x \in objects, NEW tag \in BOOLEAN, Free(x, tag)
  PROVE  IInv'
<1>1. PICK u \in Uses(mem) : u.p = x.p /\ x.n <= u.n
  BY InUse
<1>2. OwnerHeap(x.p) = u.heap
  BY <1>1, OwnerIs
<1> DEFINE o == HeapFree(mem, u.heap, u.p, tag)
<1>3. mem' = o.m /\ objects' = objects \ {x} /\ arena' = arena
  BY <1>1, <1>2 DEF Free
<1>4. Good(mem) /\ NoEmpty(mem, {}) /\ Coupled(mem, objects) /\ Placed(mem) /\ Ready(mem, arena)
  BY <1>1, InUse DEF IInv
<1>5. Freed(mem, o, u)
  BY <1>4, HeapFrees
<1> HIDE DEF o
<1>6. Good(o.m) /\ NoEmpty(o.m, {}) /\ SameHeaps(mem, o.m) /\ Uses(o.m) = Uses(mem) \ {u}
  BY <1>4, <1>5 DEF Freed, Sound
<1>7. Ready(o.m, arena)
  BY <1>4, <1>6, StaysReady
<1>8. Coupled(o.m, objects \ {x})
  BY <1>1, <1>4, <1>6, CoupledLoss
<1> QED
  BY <1>3, <1>6, <1>7, <1>8 DEF IInv, HeapsKnown

(* A second free of a cell.                                                *)
LEMMA FreeTwiceKeeps ==
  ASSUME IInv, NEW t \in DOMAIN mem.slab, NEW i, FreeTwice(t, i)
  PROVE  IInv'
<1>1. i \in ToSet(mem.slab[t].list)
  BY DEF FreeTwice
<1> DEFINE h == OwnerHeap(CellAt(mem, t, i))
<1>2. h \in DOMAIN mem.heap /\ Good(mem)
  BY InUse DEF IInv
<1> HIDE DEF h
<1>3. HeapFree(mem, h, CellAt(mem, t, i), TRUE) = Outcome(mem, Null)
  BY <1>1, <1>2, NoSecondFree
<1> DEFINE o == HeapFree(mem, h, CellAt(mem, t, i), TRUE)
<1>4. mem' = o.m /\ arena' = arena /\ objects' = objects
  BY DEF FreeTwice, h
<1>5. o = Outcome(mem, Null)
  BY <1>3
<1> HIDE DEF o
<1>6. o.m = mem
  BY <1>5 DEF Outcome
<1> QED
  BY <1>4, <1>6 DEF IInv, HeapsKnown

(* realloc                                                                 *)
LEMMA ReallocKeeps ==
  ASSUME IInv, NEW x \in objects, NEW n \in Requests, Realloc(x, n)
  PROVE  IInv'
<1>1. PICK u \in Uses(mem) : u.p = x.p /\ x.n <= u.n
  BY InUse
<1>2. OwnerHeap(x.p) = u.heap /\ n \in Nat \ {0}
  BY <1>1, OwnerIs, MallocAssumption
<1> DEFINE o == HeapReAlloc(mem, u.heap, u.p, n, TRUE)
<1>3. /\ mem' = o.m /\ arena' = arena
      /\ objects' = IF o.p = Null THEN objects ELSE (objects \ {x}) \cup {Held(o.p, n)}
  BY <1>1, <1>2 DEF Realloc
<1>4. Good(mem) /\ NoEmpty(mem, {}) /\ Coupled(mem, objects) /\ Placed(mem) /\ Ready(mem, arena)
  BY <1>1, InUse DEF IInv
<1>5. Regiven(mem, o, u, n)
  BY <1>2, <1>4, HeapRegives
<1> HIDE DEF o
<1>6. Good(o.m) /\ NoEmpty(o.m, {}) /\ SameHeaps(mem, o.m) /\ Placed(o.m)
  BY <1>4, <1>5 DEF Regiven, Sound, Good
<1>7. Ready(o.m, arena)
  BY <1>4, <1>6, StaysReady
<1>8. CASE o.p = Null
  <2>1. Coupled(o.m, objects)
    BY <1>4, <1>5, <1>8, CoupledSame DEF Regiven
  <2> QED
    BY <1>3, <1>6, <1>7, <1>8, <2>1 DEF IInv, HeapsKnown
<1>9. CASE o.p # Null
  <2>1. PICK v : /\ v.p = o.p /\ v.n >= n /\ v \notin Uses(mem) \ {u}
                 /\ Uses(o.m) = (Uses(mem) \ {u}) \cup {v}
    BY <1>5, <1>9 DEF Regiven
  <2>2. Coupled(o.m, (objects \ {x}) \cup {Held(o.p, n)})
    BY <1>1, <1>2, <1>4, <1>6, <2>1, CoupledTrade
  <2> QED
    BY <1>3, <1>6, <1>7, <1>9, <2>2 DEF IInv, HeapsKnown
<1> QED
  BY <1>8, <1>9

(* __heap_mark                                                             *)
LEMMA MarkKeeps ==
  ASSUME IInv, Mark
  PROVE  IInv'
<1>1. PICK m \in WithMachineHeap(mem) :
        LET o == Scratch(HeapCompact(m, Machine), m.heap[Machine].validate)
        IN  mem' = o.m /\ arena' = o.p
  BY DEF Mark
<1> DEFINE found == HeapCompact(m, Machine)
           v == m.heap[Machine].validate
           o == Scratch(found, v)
<1>2. mem' = o.m /\ arena' = o.p /\ objects' = objects /\ arena = Null
  BY <1>1 DEF Mark
<1>3. /\ Good(m) /\ NoEmpty(m, {}) /\ Coupled(m, objects) /\ Ready(m, arena)
      /\ Machine \in DOMAIN m.heap /\ v \in BOOLEAN
  BY MachineReady
<1>4. found.m = m /\ found.p \in Nat
  BY <1>3, CompactFinds
<1> HIDE DEF found, v
<1>5. o = Outcome(m, Null) \/ (o = Outcome(o.m, o.p) /\ Created(m, o.m, o.p))
  BY <1>3, <1>4, ScratchMade
<1> HIDE DEF o
<1>6. CASE o = Outcome(m, Null)
  BY <1>2, <1>3, <1>6 DEF Outcome, IInv, HeapsKnown
<1>7. CASE Created(m, o.m, o.p)
  <2>1. /\ Good(o.m) /\ NoEmpty(o.m, {}) /\ Uses(o.m) = Uses(m)
        /\ o.p # Null /\ o.p # Machine /\ DOMAIN o.m.heap = DOMAIN m.heap \cup {o.p}
    BY <1>3, <1>7, NullIs DEF Created
  <2>2. Coupled(o.m, objects)
    BY <1>3, <2>1, CoupledSame
  <2>3. Ready(o.m, o.p)
    BY <1>2, <1>3, <2>1 DEF Ready
  <2> QED
    BY <1>2, <2>1, <2>2, <2>3 DEF IInv, HeapsKnown
<1> QED
  BY <1>5, <1>6, <1>7

(* __heap_release: what the arena served is neither held nor in use.       *)
LEMMA ReleaseKeeps ==
  ASSUME IInv, Release
  PROVE  IInv'
<1>1. /\ arena # Null /\ mem' = HeapDestroy(mem, arena).m /\ arena' = Null
      /\ objects' = {x \in objects : OwnerHeap(x.p) = Machine}
  BY DEF Release
<1>2. Good(mem) /\ NoEmpty(mem, {}) /\ Coupled(mem, objects) /\ Placed(mem) /\ Ready(mem, arena)
  BY <1>1, InUse DEF IInv, HeapsKnown
<1>3. arena \in DOMAIN mem.heap /\ arena # Machine /\ DOMAIN mem.heap = {Machine, arena}
  BY <1>1, <1>2 DEF Ready
<1> DEFINE k == HeapDestroy(mem, arena).m
           Y == {x \in objects : OwnerHeap(x.p) = Machine}
<1>4. /\ Good(k) /\ NoEmpty(k, {}) /\ DOMAIN k.heap = DOMAIN mem.heap \ {arena}
      /\ Uses(k) = {u \in Uses(mem) : u.heap # arena}
  BY <1>2, <1>3, HeapDestroyed
<1> HIDE DEF k
<1>5. Ready(k, Null)
  BY <1>3, <1>4, NullIs DEF Ready
<1>6. \A u \in Uses(mem) : u \in Uses(k) <=> OwnerHeap(u.p) = Machine
  <2> SUFFICES ASSUME NEW u \in Uses(mem) PROVE u \in Uses(k) <=> OwnerHeap(u.p) = Machine
    OBVIOUS
  <2>1. OwnerHeap(u.p) = u.heap /\ u.heap \in {Machine, arena}
    BY <1>2, <1>3, OwnerIs, UseTypes
  <2> QED
    BY <1>3, <1>4, <2>1
<1>7. \A x \in Y : \E u \in Uses(k) : u.p = x.p /\ x.n <= u.n
  BY <1>2, <1>6 DEF Coupled
<1>8. \A u \in Uses(k) : \E x \in Y : u.p = x.p
  BY <1>2, <1>4, <1>6 DEF Coupled
<1>9. Coupled(k, Y)
  BY <1>2, <1>7, <1>8 DEF Coupled
<1> HIDE DEF Y
<1> QED
  BY <1>1, <1>4, <1>5, <1>9 DEF IInv, HeapsKnown, k, Y

(* What the clients hold is what lib/heap has in use, in every state.      *)
THEOREM InUseIsHeld == Spec => []IInv
<1>1. IInv /\ [Next]_vars => IInv'
  <2> SUFFICES ASSUME IInv, [Next]_vars PROVE IInv'
    OBVIOUS
  <2>1. ASSUME NEW n \in Requests, Malloc(n) PROVE IInv'
    BY <2>1, MallocKeeps
  <2>2. ASSUME NEW x \in objects, NEW tag \in BOOLEAN, Free(x, tag) PROVE IInv'
    BY <2>2, FreeKeeps
  <2>3. ASSUME NEW x \in objects, NEW n \in Requests, Realloc(x, n) PROVE IInv'
    BY <2>3, ReallocKeeps
  <2>4. ASSUME NEW t \in DOMAIN mem.slab, NEW i \in 0 .. mem.slab[t].total - 1, FreeTwice(t, i)
        PROVE  IInv'
    BY <2>4, FreeTwiceKeeps
  <2>5. CASE Mark
    BY <2>5, MarkKeeps
  <2>6. CASE Release
    BY <2>6, ReleaseKeeps
  <2>7. CASE UNCHANGED vars
    BY <2>7 DEF vars, IInv, HeapsKnown
  <2> QED
    BY <2>1, <2>2, <2>3, <2>4, <2>5, <2>6, <2>7 DEF Next
<1> QED
  BY <1>1, InitKeeps, PTL DEF Spec
-----------------------------------------------------------------------------
(* What the invariant says of the frees, of what is kept, and of the       *)
(* audits.                                                                 *)
LEMMA FreesFollow ==
  IInv => FreesAreRight
<1> SUFFICES ASSUME IInv PROVE FreesAreRight
  OBVIOUS
<1>1. Good(mem)
  BY DEF IInv
<1>2. ASSUME NEW x \in objects, NEW tag \in BOOLEAN
      PROVE  HeapFree(mem, OwnerHeap(x.p), x.p, tag).p = x.p
  <2>1. PICK u \in Uses(mem) : u.p = x.p
    BY InUse
  <2>2. OwnerHeap(x.p) = u.heap
    BY <2>1, OwnerIs
  <2>3. HeapFree(mem, u.heap, u.p, tag).p = u.p
    BY <1>1, HeapFrees DEF Freed
  <2> QED
    BY <2>1, <2>2, <2>3
<1>3. ASSUME NEW t \in DOMAIN mem.slab, NEW i, i \in ToSet(mem.slab[t].list)
      PROVE  HeapFree(mem, OwnerHeap(CellAt(mem, t, i)), CellAt(mem, t, i), TRUE)
               = Outcome(mem, Null)
  <2> DEFINE h == OwnerHeap(CellAt(mem, t, i))
  <2>1. h \in DOMAIN mem.heap
    BY InUse
  <2> HIDE DEF h
  <2>2. HeapFree(mem, h, CellAt(mem, t, i), TRUE) = Outcome(mem, Null)
    BY <1>1, <1>3, <2>1, NoSecondFree
  <2> QED
    BY <2>2 DEF h
<1> QED
  BY <1>2, <1>3 DEF FreesAreRight

(* A pointer in use is a cell or it is not, and which cell.                *)
LEMMA CellOrBlock ==
  ASSUME NEW m, Placed(m), NEW u \in Uses(m)
  PROVE  /\ u \in CellUses(m) <=> SlabFromPtr(m, u.p) # Null
         /\ SlabFromPtr(m, u.p) # Null =>
              LET t == SlabFromPtr(m, u.p)
              IN  t \in DOMAIN m.slab /\ \E i \in LiveIn(m, t) : u = CellUse(m, t, i)
<1>1. CASE u \in CellUses(m)
  <2>1. PICK t \in DOMAIN m.slab : \E i \in LiveIn(m, t) : u = CellUse(m, t, i)
    BY <1>1, CellUsed
  <2>2. SlabFromPtr(m, u.p) = t /\ t # Null
    BY <2>1, CellUseIs
  <2> QED
    BY <1>1, <2>1, <2>2
<1>2. CASE u \notin CellUses(m)
  <2>1. PICK b \in DOMAIN m.block : OwnBlock(m, b) /\ u = BlockUse(m, b)
    BY <1>2, BlockUsed DEF Uses
  <2>2. SlabFromPtr(m, u.p) = Null
    BY <2>1, BlockUseIs
  <2> QED
    BY <1>2, <2>2
<1> QED
  BY <1>1, <1>2

(* The audit, the walk and the count of each heap.                         *)
LEMMA AuditFollows ==
  IInv => Audited
<1> SUFFICES ASSUME IInv, NEW h \in DOMAIN mem.heap
             PROVE  LET cells == {x.p : x \in {y \in objects : /\ SlabFromPtr(mem, y.p) # Null
                                                               /\ OwnerHeap(y.p) = h}}
                        walk == Walked(mem, h)
                    IN  /\ SoaValid(mem, h)
                        /\ ToSet(walk) = cells /\ Len(walk) = Cardinality(cells)
                        /\ mem.heap[h].cells = Cardinality(cells)
  BY DEF Audited
<1>1. Good(mem) /\ Placed(mem) /\ Coupled(mem, objects)
  BY DEF IInv, Good
<1> DEFINE held == {y \in objects : SlabFromPtr(mem, y.p) # Null /\ OwnerHeap(y.p) = h}
           cells == {x.p : x \in held}
           P == {u.p : u \in CellsIn(mem, h)}
<1>2. SoaValid(mem, h)
  BY <1>1, GoodValid
<1>3. /\ ToSet(Walked(mem, h)) = P /\ Len(Walked(mem, h)) = Cardinality(P)
      /\ mem.heap[h].cells = Cardinality(P)
  BY <1>1, WalkLen
<1>4. ASSUME NEW x \in held PROVE x.p \in P
  <2>1. PICK u \in Uses(mem) : u.p = x.p
    BY InUse
  <2>2. u \in CellUses(mem) /\ u.heap = h
    BY <1>1, <2>1, CellOrBlock, OwnerIs
  <2> QED
    BY <2>1, <2>2 DEF CellsIn
<1>5. ASSUME NEW u \in CellsIn(mem, h) PROVE u.p \in cells
  <2>1. u \in CellUses(mem) /\ u.heap = h /\ u \in Uses(mem)
    BY DEF CellsIn, Uses
  <2>2. PICK x \in objects : u.p = x.p
    BY <1>1, <2>1 DEF Coupled
  <2>3. SlabFromPtr(mem, x.p) # Null /\ OwnerHeap(x.p) = h
    BY <1>1, <2>1, <2>2, CellOrBlock, OwnerIs
  <2> QED
    BY <2>2, <2>3
<1>6. cells = P
  BY <1>4, <1>5
<1> HIDE DEF P, cells
<1>7. /\ SoaValid(mem, h)
      /\ ToSet(Walked(mem, h)) = cells /\ Len(Walked(mem, h)) = Cardinality(cells)
      /\ mem.heap[h].cells = Cardinality(cells)
  BY <1>2, <1>3, <1>6
<1> QED
  BY <1>7 DEF cells

(* No block starts at the header of the machine heap.                      *)
LEMMA NoBlockAtMachine ==
  ASSUME NEW m, Placed(m), NEW b \in DOMAIN m.block
  PROVE  b + 1 # Machine
<1>1. \A c \in DOMAIN m.block :
        /\ c \in Nat /\ m.block[c].heap \in DOMAIN m.heap /\ First(m, m.block[c].heap) <= c
  BY Types DEF Placed, BlocksOK
<1>2. \A h \in DOMAIN m.heap : h \in Nat /\ First(m, h) = h + 2
  BY Types DEF Placed, HeapsOK, First, Header
<1>3. \A c \in DOMAIN m.block : m.block[c].heap = Machine => Machine + 2 <= c
  BY <1>1, <1>2
<1>4. CASE m.block[b].heap # Machine
  <2> DEFINE h == m.block[b].heap
             c == h - 1
  <2>1. c \in DOMAIN m.block /\ m.block[c].heap = Machine
    BY <1>1, <1>4 DEF Placed, HeapsOK
  <2>2. c \in Nat /\ c + 3 <= b /\ b \in Nat
    BY <1>1, <1>2, <1>4, <2>1
  <2>3. Machine + 2 <= c
    BY <1>3, <2>1
  <2> HIDE DEF h, c
  <2> QED
    BY <2>2, <2>3, Consts
<1> QED
  BY <1>1, <1>3, <1>4, Consts

(* Every block has a use, every arena a tile, every tile a live cell.      *)
LEMMA NoLeakFollows ==
  IInv => NoLeak
<1> SUFFICES ASSUME IInv PROVE NoLeak
  OBVIOUS
<1>1. Good(mem) /\ Placed(mem) /\ NoEmpty(mem, {}) /\ Coupled(mem, objects)
  BY DEF IInv, Good
<1>2. ASSUME NEW b \in DOMAIN mem.block
      PROVE  \/ \E x \in objects : x.p = b + 1
             \/ b + 1 = arena
             \/ \E h \in DOMAIN mem.heap : mem.heap[h].scb = b + 1
             \/ b + 1 \in DOMAIN mem.arena
  <2>1. CASE b + 1 \in DOMAIN mem.heap
    <3>1. Ready(mem, arena)
      BY <2>1, InUse
    <3>2. b + 1 # Machine
      BY <1>1, NoBlockAtMachine
    <3> QED
      BY <2>1, <3>1, <3>2 DEF Ready
  <2>2. CASE OwnBlock(mem, b)
    <3>1. BlockUse(mem, b) \in Uses(mem) /\ BlockUse(mem, b).p = b + 1
      BY <1>1, <2>2, OwnUse, BlockUseIs
    <3> QED
      BY <1>1, <3>1 DEF Coupled
  <2> QED
    BY <2>1, <2>2 DEF OwnBlock
<1>3. \A a \in DOMAIN mem.arena : Tiles(mem, a) # {}
  BY <1>1 DEF NoEmpty, Tiles
<1>4. ASSUME NEW t \in DOMAIN mem.slab
      PROVE  \E x \in objects : SlabFromPtr(mem, x.p) = t
  <2> DEFINE list == mem.slab[t].list
             n == mem.slab[t].total
  <2>1. /\ Len(list) < n /\ list \in Seq(Nat) /\ n \in Nat
        /\ Once(list) /\ ToSet(list) \subseteq 0 .. n - 1
    BY <1>1, Types DEF NoEmpty, Placed, SlabsOK
  <2> HIDE DEF list, n
  <2>2. Cardinality(ToSet(list)) = Len(list) /\ IsFiniteSet(0 .. n - 1)
    BY <2>1, OnceLen, FS_Interval
  <2>3. Cardinality(0 .. n - 1) = n
    BY <2>1, FS_Interval
  <2>4. ToSet(list) # 0 .. n - 1
    BY <2>1, <2>2, <2>3
  <2>5. PICK i \in 0 .. n - 1 : i \notin ToSet(list)
    BY <2>1, <2>4
  <2>6. i \in LiveIn(mem, t)
    BY <2>5 DEF LiveIn, list, n
  <2> DEFINE u == CellUse(mem, t, i)
  <2>7. u \in Uses(mem) /\ SlabFromPtr(mem, u.p) = t
    BY <1>1, <2>6, CellUsed, CellUseIs DEF Uses
  <2> HIDE DEF u
  <2> QED
    BY <1>1, <2>7 DEF Coupled
<1>5. \A h \in DOMAIN mem.heap : SoaCompact(mem, h) = mem
  BY <1>1, CompactSame
<1> QED
  BY <1>2, <1>3, <1>4, <1>5 DEF NoLeak
-----------------------------------------------------------------------------
(* What of memory is whose: the inside of a block that is no heap's, what  *)
(* lies in such blocks, and the headers and ends of the heaps.             *)
Plain(m, c) == c \in DOMAIN m.block /\ c + 1 \notin DOMAIN m.heap
Inner(m, c) == c + 1 .. End(m, c) - 1
In(m, c, S) == Plain(m, c) /\ S \subseteq Inner(m, c)

(* What lies in different blocks is apart.                                 *)
LEMMA InnersApart ==
  ASSUME NEW m, Placed(m), NEW c, NEW d, NEW S, NEW T, In(m, c, S), In(m, d, T), c # d
  PROVE  S \cap T = {}
<1>1. /\ c \in DOMAIN m.block /\ c + 1 \notin DOMAIN m.heap
      /\ d \in DOMAIN m.block /\ d + 1 \notin DOMAIN m.heap
  BY DEF In, Plain
<1>2. /\ c \in Nat /\ d \in Nat /\ End(m, c) \in Nat /\ End(m, d) \in Nat
      /\ m.block[c].heap \in DOMAIN m.heap
  BY <1>1, Types DEF Placed, BlocksOK
<1>3. End(m, d) <= c \/ End(m, c) <= d
  BY <1>1, <1>2, PlainBlock DEF Inside
<1>4. \A x \in S : x \in Int /\ c < x /\ x < End(m, c)
  BY <1>2 DEF In, Inner
<1>5. \A x \in T : x \in Int /\ d < x /\ x < End(m, d)
  BY <1>2 DEF In, Inner
<1> QED
  BY <1>2, <1>3, <1>4, <1>5

(* An arena's descriptor lies in its block.                                *)
LEMMA ArenaIn ==
  ASSUME NEW m, Placed(m), NEW a \in DOMAIN m.arena
  PROVE  In(m, a - 1, {a}) /\ a - 1 \in Nat /\ ~ OwnBlock(m, a - 1)
<1> DEFINE c == a - 1
<1>1. c \in DOMAIN m.block /\ a \notin DOMAIN m.heap /\ a \in Nat
  BY Types DEF Placed, ArenasOK
<1>2. c \in Nat /\ c + 1 = a /\ End(m, c) \in Nat /\ End(m, c) >= c + 2
  BY <1>1, Types DEF Placed, BlocksOK, End
<1> HIDE DEF c
<1>3. In(m, c, {a}) /\ ~ OwnBlock(m, c)
  BY <1>1, <1>2 DEF In, Plain, Inner, OwnBlock
<1> QED
  BY <1>2, <1>3 DEF c

(* A slab's header lies in its arena's block.                              *)
LEMMA SlabIn ==
  ASSUME NEW m, Placed(m), NEW t \in DOMAIN m.slab
  PROVE  In(m, m.slab[t].arena - 1, {t})
<1> DEFINE a == m.slab[t].arena
           c == a - 1
           e == End(m, c)
<1>1. a \in DOMAIN m.arena /\ t \in Nat /\ a < t /\ t + SlabSize <= e /\ c \in DOMAIN m.block
  BY SlabPlace
<1>2. a \notin DOMAIN m.heap /\ a \in Nat /\ e \in Nat /\ c + 1 = a /\ SlabSize \in Nat \ {0}
  BY <1>1, Types, Consts DEF Placed, ArenasOK
<1> HIDE DEF a, c, e
<1>3. t \in c + 1 .. e - 1
  BY <1>1, <1>2
<1>4. In(m, c, {t})
  BY <1>1, <1>2, <1>3 DEF In, Plain, Inner, e
<1> QED
  BY <1>4 DEF c, a

(* A control block lies in a block of its heap.                            *)
LEMMA ControlIn ==
  ASSUME NEW m, Placed(m), NEW h \in DOMAIN m.heap, m.heap[h].scb # Null
  PROVE  LET p == m.heap[h].scb
         IN  /\ In(m, p - 1, Span(p, ScbSize)) /\ m.block[p - 1].heap = h /\ p \in Nat
             /\ ~ OwnBlock(m, p - 1) /\ p \notin DOMAIN m.arena
<1> DEFINE p == m.heap[h].scb
           c == p - 1
           s == m.block[c].size
<1>1. /\ c \in DOMAIN m.block /\ m.block[c].heap = h /\ s > ScbSize /\ c + 1 \notin DOMAIN m.heap
      /\ p \in Nat
  BY Types DEF Placed, HeapsOK
<1>2. c \in Nat /\ s \in Nat /\ End(m, c) = c + s /\ c + 1 = p /\ ScbSize \in Nat \ {0}
  <2>1. Memory(m)
    BY DEF Placed
  <2> HIDE DEF c, s, p
  <2>2. c \in Nat /\ s \in Nat /\ p \in Nat
    BY <1>1, <2>1, Types DEF s
  <2> QED
    BY <1>1, <2>2, Consts DEF End, c, s
<1>3. p \notin DOMAIN m.arena
  BY DEF Placed, ArenasOK
<1>4. ~ OwnBlock(m, c)
  BY <1>2 DEF OwnBlock
<1> HIDE DEF c, s, p
<1>5. In(m, c, Span(p, ScbSize))
  BY <1>1, <1>2 DEF In, Plain, Inner, Span
<1> QED
  BY <1>1, <1>3, <1>4, <1>5 DEF p, c

(* A pointer in use is all of an own block, or a cell of a tile.           *)
IsCell(m, u, t) == t \in DOMAIN m.slab /\ \E i \in LiveIn(m, t) : u = CellUse(m, t, i)
(* A cell lies in its tile, in the block of its arena.                     *)
LEMMA CellIn ==
  ASSUME NEW m, Placed(m), NEW u, NEW t, IsCell(m, u, t)
  PROVE  In(m, m.slab[t].arena - 1, Span(u.p, u.n)) /\ Span(u.p, u.n) \subseteq t + 1 .. t + SlabSize - 1
<1>1. PICK i \in LiveIn(m, t) : u = CellUse(m, t, i)
  BY DEF IsCell
<1>2. t \in DOMAIN m.slab
  BY DEF IsCell
<1>3. /\ u.p = CellAt(m, t, i) /\ u.n = CellSz[m.slab[t].cls] /\ i \in 0 .. m.slab[t].total - 1
      /\ u.p \in Nat /\ u.n \in Nat \ {0}
  BY <1>1, <1>2, CellUseIs
<1>4. t < u.p /\ u.p + u.n <= t + SlabSize
  BY <1>2, <1>3, CellPtr
<1> DEFINE a == m.slab[t].arena
           c == a - 1
           e == End(m, c)
<1>5. a \in DOMAIN m.arena /\ t \in Nat /\ a < t /\ t + SlabSize <= e /\ c \in DOMAIN m.block
  BY <1>2, SlabPlace
<1>6. a \notin DOMAIN m.heap /\ a \in Nat /\ e \in Nat /\ c + 1 = a /\ SlabSize \in Nat
  <2>1. Memory(m)
    BY DEF Placed
  <2>2. a \notin DOMAIN m.heap
    BY <1>5 DEF Placed, ArenasOK
  <2> HIDE DEF a, c
  <2>3. a \in Nat /\ e \in Nat
    BY <1>5, <2>1, Types
  <2> QED
    BY <2>2, <2>3, Consts DEF c
<1> DEFINE p == u.p
           n == u.n
<1>7. p \in Nat /\ n \in Nat /\ t < p /\ p + n <= t + SlabSize
  BY <1>3, <1>4
<1> HIDE DEF a, c, e, p, n
<1>8. p .. p + n - 1 \subseteq c + 1 .. e - 1 /\ p .. p + n - 1 \subseteq t + 1 .. t + SlabSize - 1
  BY <1>5, <1>6, <1>7
<1> QED
  BY <1>5, <1>6, <1>8 DEF In, Plain, Inner, Span, a, c, e, p, n

(* A block of the client's own lies in itself.                             *)
LEMMA OwnIn ==
  ASSUME NEW m, Placed(m), NEW c, OwnBlock(m, c)
  PROVE  LET u == BlockUse(m, c) IN In(m, c, Span(u.p, u.n))
<1>1. c \in DOMAIN m.block /\ c + 1 \notin DOMAIN m.heap
  BY DEF OwnBlock
<1> DEFINE u == BlockUse(m, c)
<1>2. u.p = c + 1 /\ u.n = m.block[c].size - 1
  BY <1>1, BlockUseIs
<1>3. c \in Nat /\ m.block[c].size \in Nat
  BY <1>1, Types DEF Placed
<1> HIDE DEF u
<1>4. In(m, c, Span(u.p, u.n))
  BY <1>1, <1>2, <1>3 DEF In, Plain, Inner, End, Span
<1> QED
  BY <1>4 DEF u

(* There is no third kind.                                                 *)
LEMMA UseIs ==
  ASSUME NEW m, NEW u \in Uses(m)
  PROVE  (\E c : OwnBlock(m, c) /\ u = BlockUse(m, c)) \/ (\E t : IsCell(m, u, t))
<1>1. CASE u \in CellUses(m)
  BY <1>1, CellUsed DEF IsCell
<1>2. CASE u \in BlockUses(m)
  BY <1>2, BlockUsed
<1> QED
  BY <1>1, <1>2 DEF Uses

(* What lies in one block: two pointers in use, the arena and its tiles,   *)
(* a control block.                                                        *)
LEMMA CellsApart ==
  ASSUME NEW m, Placed(m), NEW u, NEW v, NEW s, NEW t, IsCell(m, u, s), IsCell(m, v, t), u # v
  PROVE  Span(u.p, u.n) \cap Span(v.p, v.n) = {}
<1>1. s \in DOMAIN m.slab /\ t \in DOMAIN m.slab
  BY DEF IsCell
<1>2. PICK i \in LiveIn(m, s) : u = CellUse(m, s, i)
  BY DEF IsCell
<1>3. PICK j \in LiveIn(m, t) : v = CellUse(m, t, j)
  BY DEF IsCell
<1>4. CASE s # t
  <2>1. s + SlabSize <= t \/ t + SlabSize <= s
    BY <1>1, <1>4, SlabsApart
  <2>2. /\ Span(u.p, u.n) \subseteq s + 1 .. s + SlabSize - 1
        /\ Span(v.p, v.n) \subseteq t + 1 .. t + SlabSize - 1
    BY CellIn
  <2>3. s \in Nat /\ t \in Nat /\ SlabSize \in Nat
    BY <1>1, Types, Consts DEF Placed
  <2>4. (s + 1 .. s + SlabSize - 1) \cap (t + 1 .. t + SlabSize - 1) = {}
    BY <2>1, <2>3
  <2> QED
    BY <2>2, <2>4
<1>5. CASE s = t
  <2> DEFINE c == m.slab[t].cls
             z == CellSz[c]
             e == i * z
             f == j * z
             q == t + SlabHdr
  <2>1. i # j
    BY <1>2, <1>3, <1>5
  <2>2. /\ i \in 0 .. m.slab[t].total - 1 /\ u.p = CellAt(m, t, i) /\ u.n = z
        /\ j \in 0 .. m.slab[t].total - 1 /\ v.p = CellAt(m, t, j) /\ v.n = z
    BY <1>1, <1>2, <1>3, <1>5, CellUseIs
  <2>3. m.slab[t].total = Total(c) /\ c \in Classes /\ t \in Nat /\ z \in Nat
    BY <1>1, SlabPlace, Consts
  <2>4. u.p = q + e /\ v.p = q + f /\ q \in Nat
    BY <2>2, <2>3 DEF CellAt, SlabHdr
  <2> HIDE DEF q, c
  <2>5. e \in Nat /\ f \in Nat /\ (i < j => e + z <= f) /\ (j < i => f + z <= e)
    BY <2>2, <2>3, CellFits
  <2>6. i \in Int /\ j \in Int
    BY <2>2, <2>3, CellFits
  <2> HIDE DEF e, f, z
  <2>7. e + z <= f \/ f + z <= e
    BY <2>1, <2>5, <2>6
  <2> QED
    BY <2>2, <2>3, <2>4, <2>5, <2>7 DEF Span
<1> QED
  BY <1>4, <1>5

(* No two pointers in use overlap.                                         *)
LEMMA UsesApart ==
  ASSUME NEW m, Placed(m), NEW u \in Uses(m), NEW v \in Uses(m), u # v
  PROVE  Span(u.p, u.n) \cap Span(v.p, v.n) = {}
<1>1. ASSUME NEW c, OwnBlock(m, c), u = BlockUse(m, c), NEW d, OwnBlock(m, d), v = BlockUse(m, d)
      PROVE  Span(u.p, u.n) \cap Span(v.p, v.n) = {}
  <2>1. c # d
    BY <1>1
  <2>2. In(m, c, Span(u.p, u.n)) /\ In(m, d, Span(v.p, v.n))
    BY <1>1, OwnIn
  <2> QED
    BY <2>1, <2>2, InnersApart
<1>2. ASSUME NEW w, NEW x, NEW c, OwnBlock(m, c), w = BlockUse(m, c), NEW t, IsCell(m, x, t)
      PROVE  Span(w.p, w.n) \cap Span(x.p, x.n) = {}
  <2>1. m.slab[t].arena \in DOMAIN m.arena
    BY <1>2, SlabPlace DEF IsCell
  <2> DEFINE d == m.slab[t].arena - 1
  <2>2. ~ OwnBlock(m, d)
    BY <2>1, ArenaIn
  <2>3. In(m, d, Span(x.p, x.n))
    BY <1>2, CellIn
  <2> HIDE DEF d
  <2>4. In(m, c, Span(w.p, w.n)) /\ c # d
    BY <1>2, <2>2, OwnIn
  <2> QED
    BY <2>3, <2>4, InnersApart
<1>3. ASSUME NEW s, NEW t, IsCell(m, u, s), IsCell(m, v, t)
      PROVE  Span(u.p, u.n) \cap Span(v.p, v.n) = {}
  BY <1>3, CellsApart
<1>4. (\E c : OwnBlock(m, c) /\ u = BlockUse(m, c)) \/ (\E t : IsCell(m, u, t))
  BY UseIs
<1>5. (\E c : OwnBlock(m, c) /\ v = BlockUse(m, c)) \/ (\E t : IsCell(m, v, t))
  BY UseIs
<1>6. CASE \E c : OwnBlock(m, c) /\ u = BlockUse(m, c)
  BY <1>1, <1>2, <1>5, <1>6
<1>7. CASE \E s : IsCell(m, u, s)
  <2>1. CASE \E c : OwnBlock(m, c) /\ v = BlockUse(m, c)
    <3>1. Span(v.p, v.n) \cap Span(u.p, u.n) = {}
      BY <1>2, <1>7, <2>1
    <3> QED
      BY <3>1
  <2>2. CASE \E t : IsCell(m, v, t)
    BY <1>3, <1>7, <2>2
  <2> QED
    BY <1>5, <2>1, <2>2
<1> QED
  BY <1>4, <1>6, <1>7

(* No slab header is on an arena's descriptor.                             *)
LEMMA SlabNotArena ==
  ASSUME NEW m, Placed(m), NEW t \in DOMAIN m.slab, NEW a \in DOMAIN m.arena
  PROVE  t # a
<1> DEFINE d == m.slab[t].arena - 1
           c == a - 1
<1>1. In(m, d, {t}) /\ In(m, c, {a})
  BY SlabIn, ArenaIn
<1>2. CASE c = d
  <2> DEFINE b == m.slab[t].arena
  <2>1. Memory(m)
    BY DEF Placed
  <2>2. b \in DOMAIN m.arena /\ b < t /\ t \in Nat
    BY SlabPlace
  <2> HIDE DEF b
  <2>3. b \in Nat /\ a \in Nat
    BY <2>1, <2>2, Types
  <2>4. b = a
    BY <1>2, <2>3 DEF b
  <2> QED
    BY <2>2, <2>3, <2>4
<1>3. CASE c # d
  <2> HIDE DEF c, d
  <2>1. {t} \cap {a} = {}
    BY <1>1, <1>3, InnersApart
  <2> QED
    BY <2>1
<1> QED
  BY <1>2, <1>3

(* Nothing in use is on an arena's descriptor.                             *)
LEMMA UseNotArena ==
  ASSUME NEW m, Placed(m), NEW u \in Uses(m), NEW a \in DOMAIN m.arena
  PROVE  a \notin Span(u.p, u.n)
<1> DEFINE c == a - 1
<1>1. In(m, c, {a}) /\ ~ OwnBlock(m, c) /\ a \in Nat /\ c + 1 = a
  BY ArenaIn, Types DEF Placed
<1>2. ASSUME NEW d, OwnBlock(m, d), u = BlockUse(m, d) PROVE a \notin Span(u.p, u.n)
  <2> HIDE DEF c
  <2>1. c # d /\ In(m, d, Span(u.p, u.n))
    BY <1>1, <1>2, OwnIn
  <2>2. {a} \cap Span(u.p, u.n) = {}
    BY <1>1, <2>1, InnersApart
  <2> QED
    BY <2>2
<1>3. ASSUME NEW t, IsCell(m, u, t) PROVE a \notin Span(u.p, u.n)
  <2> DEFINE d == m.slab[t].arena - 1
  <2>1. /\ In(m, d, Span(u.p, u.n)) /\ Span(u.p, u.n) \subseteq t + 1 .. t + SlabSize - 1
        /\ t \in DOMAIN m.slab
    BY <1>3, CellIn DEF IsCell
  <2>2. CASE m.slab[t].arena = a
    <3>1. a < t /\ t \in Nat
      BY <2>1, <2>2, SlabPlace
    <3>2. a \notin t + 1 .. t + SlabSize - 1
      BY <1>1, <3>1, Consts
    <3> QED
      BY <2>1, <3>2
  <2>3. CASE m.slab[t].arena # a
    <3>1. c # d
      BY <1>1, <2>1, <2>3, Types DEF Placed
    <3> HIDE DEF c, d
    <3>2. {a} \cap Span(u.p, u.n) = {}
      BY <1>1, <2>1, <3>1, InnersApart
    <3> QED
      BY <3>2
  <2> QED
    BY <2>2, <2>3
<1> QED
  BY <1>2, <1>3, UseIs

(* Nothing in use is on a slab's header.                                   *)
LEMMA UseNotSlab ==
  ASSUME NEW m, Placed(m), NEW u \in Uses(m), NEW s \in DOMAIN m.slab
  PROVE  s \notin Span(u.p, u.n)
<1> DEFINE c == m.slab[s].arena - 1
<1>1. In(m, c, {s}) /\ s \in Nat /\ ~ OwnBlock(m, c)
  BY SlabIn, SlabPlace, ArenaIn
<1>2. ASSUME NEW d, OwnBlock(m, d), u = BlockUse(m, d) PROVE s \notin Span(u.p, u.n)
  <2> HIDE DEF c
  <2>1. c # d /\ In(m, d, Span(u.p, u.n))
    BY <1>1, <1>2, OwnIn
  <2>2. {s} \cap Span(u.p, u.n) = {}
    BY <1>1, <2>1, InnersApart
  <2> QED
    BY <2>2
<1>3. ASSUME NEW t, IsCell(m, u, t) PROVE s \notin Span(u.p, u.n)
  <2>1. Span(u.p, u.n) \subseteq t + 1 .. t + SlabSize - 1 /\ t \in DOMAIN m.slab
    BY <1>3, CellIn DEF IsCell
  <2>2. t \in Nat /\ SlabSize \in Nat \ {0}
    BY <2>1, Types, Consts DEF Placed
  <2>3. s # t => s + SlabSize <= t \/ t + SlabSize <= s
    BY <2>1, SlabsApart
  <2>4. s \notin t + 1 .. t + SlabSize - 1
    BY <1>1, <2>2, <2>3
  <2> QED
    BY <2>1, <2>4
<1> QED
  BY <1>2, <1>3, UseIs

(* Nothing is on a control block.                                          *)
LEMMA ControlApart ==
  ASSUME NEW m, Placed(m), NEW h \in DOMAIN m.heap, m.heap[h].scb # Null, NEW S,
         S = Span(m.heap[h].scb, ScbSize)
  PROVE  /\ \A u \in Uses(m) : S \cap Span(u.p, u.n) = {}
         /\ \A a \in DOMAIN m.arena : a \notin S
         /\ \A t \in DOMAIN m.slab : t \notin S
         /\ \A j \in DOMAIN m.heap \ {h} :
              m.heap[j].scb # Null => S \cap Span(m.heap[j].scb, ScbSize) = {}
<1> DEFINE c == m.heap[h].scb - 1
<1>1. In(m, c, S) /\ m.block[c].heap = h /\ ~ OwnBlock(m, c) /\ c + 1 \notin DOMAIN m.arena
  BY ControlIn
<1> HIDE DEF c
<1>2. \A a \in DOMAIN m.arena : a - 1 # c
  BY <1>1, ArenaIn, Types DEF Placed
<1>3. ASSUME NEW u \in Uses(m) PROVE S \cap Span(u.p, u.n) = {}
  <2>1. ASSUME NEW d, OwnBlock(m, d), u = BlockUse(m, d) PROVE S \cap Span(u.p, u.n) = {}
    <3>1. c # d /\ In(m, d, Span(u.p, u.n))
      BY <1>1, <2>1, OwnIn
    <3> QED
      BY <1>1, <3>1, InnersApart
  <2>2. ASSUME NEW t, IsCell(m, u, t) PROVE S \cap Span(u.p, u.n) = {}
    <3> DEFINE d == m.slab[t].arena - 1
    <3>1. In(m, d, Span(u.p, u.n)) /\ d # c
      BY <1>2, <2>2, CellIn, SlabPlace DEF IsCell
    <3> HIDE DEF d
    <3> QED
      BY <1>1, <3>1, InnersApart
  <2> QED
    BY <2>1, <2>2, UseIs
<1>4. ASSUME NEW a \in DOMAIN m.arena PROVE a \notin S
  <2> DEFINE d == a - 1
  <2>1. In(m, d, {a}) /\ d # c
    BY <1>2, ArenaIn
  <2> HIDE DEF d
  <2>2. S \cap {a} = {}
    BY <1>1, <2>1, InnersApart
  <2> QED
    BY <2>2
<1>5. ASSUME NEW t \in DOMAIN m.slab PROVE t \notin S
  <2> DEFINE d == m.slab[t].arena - 1
  <2>1. In(m, d, {t}) /\ d # c
    BY <1>2, SlabIn, SlabPlace
  <2> HIDE DEF d
  <2>2. S \cap {t} = {}
    BY <1>1, <2>1, InnersApart
  <2> QED
    BY <2>2
<1>6. ASSUME NEW j \in DOMAIN m.heap \ {h}, m.heap[j].scb # Null
      PROVE  S \cap Span(m.heap[j].scb, ScbSize) = {}
  <2> DEFINE d == m.heap[j].scb - 1
             T == Span(m.heap[j].scb, ScbSize)
  <2>1. In(m, d, T) /\ m.block[d].heap = j
    BY <1>6, ControlIn
  <2> HIDE DEF d, T
  <2>2. S \cap T = {}
    BY <1>1, <2>1, InnersApart
  <2> QED
    BY <2>2 DEF T
<1> QED
  BY <1>3, <1>4, <1>5, <1>6

(* A block lies in a heap, or has the heap in it, or they are apart; and   *)
(* so do two heaps.                                                        *)
LEMMA BlockOrHeap ==
  ASSUME NEW m, Placed(m), NEW b \in DOMAIN m.block, NEW h \in DOMAIN m.heap
  PROVE  \/ First(m, h) <= b /\ End(m, b) <= Limit(m, h)
         \/ b + 1 = h \/ End(m, b) < h \/ Limit(m, h) < b
<1> DEFINE j == m.block[b].heap
<1>1. \A x \in DOMAIN m.heap : First(m, x) = x + 2 /\ x \in Nat /\ Limit(m, x) \in Nat
                               /\ First(m, x) < Limit(m, x)
  BY Types, LimitNat DEF Placed, HeapsOK, First, Header
<1>2. \A x \in DOMAIN m.block : /\ x \in Nat /\ End(m, x) \in Nat /\ x < End(m, x)
  BY Types DEF Placed, BlocksOK, End
<1>3. j \in DOMAIN m.heap /\ First(m, j) <= b /\ End(m, b) <= Limit(m, j)
  BY DEF Placed, BlocksOK
<1> HIDE DEF j
<1>4. CASE j = h
  BY <1>3, <1>4
<1>5. CASE h # Machine
  <2> DEFINE c == h - 1
  <2>1. c \in DOMAIN m.block /\ m.block[c].heap = Machine /\ Limit(m, h) < End(m, c) /\ c + 1 = h
    BY <1>1, <1>5, PrivateHeap
  <2> HIDE DEF c
  <2>2. CASE b = c
    BY <2>1, <2>2
  <2>3. CASE b # c
    <3>1. End(m, b) <= c \/ End(m, c) <= b \/ Inside(m, b, c) \/ Inside(m, c, b)
      BY <2>1, <2>3, BlocksNest
    <3>2. ~ Inside(m, b, c)
      BY <2>1 DEF Inside
    <3>3. Inside(m, c, b) => j = h
      BY <2>1 DEF Inside, j
    <3> QED
      BY <1>1, <1>2, <1>4, <2>1, <3>1, <3>2, <3>3
  <2> QED
    BY <2>2, <2>3
<1>6. CASE h = Machine /\ j # h
  <2> DEFINE c == j - 1
  <2>1. c \in DOMAIN m.block /\ m.block[c].heap = h /\ Limit(m, j) < End(m, c) /\ c + 1 = j
    BY <1>1, <1>3, <1>6, PrivateHeap
  <2> HIDE DEF c
  <2>2. First(m, h) <= c /\ End(m, c) <= Limit(m, h)
    BY <2>1 DEF Placed, BlocksOK
  <2> QED
    BY <1>1, <1>2, <1>3, <2>1, <2>2
<1> QED
  BY <1>4, <1>5, <1>6

(* Of two heaps one is behind the other or in a block of the other.        *)
LEMMA HeapsNest ==
  ASSUME NEW m, Placed(m), NEW h \in DOMAIN m.heap, NEW j \in DOMAIN m.heap, h # j
  PROVE  \/ Limit(m, h) < j \/ Limit(m, j) < h
         \/ h + 1 < j /\ Limit(m, j) < Limit(m, h)
         \/ j + 1 < h /\ Limit(m, h) < Limit(m, j)
<1>1. \A x \in DOMAIN m.heap : First(m, x) = x + 2 /\ x \in Nat /\ Limit(m, x) \in Nat
                               /\ First(m, x) < Limit(m, x)
  BY Types, LimitNat DEF Placed, HeapsOK, First, Header
<1>2. ASSUME NEW x \in DOMAIN m.heap, NEW y \in DOMAIN m.heap, x # y, x # Machine
      PROVE  Limit(m, x) < y \/ Limit(m, y) < x \/ (y + 1 < x /\ Limit(m, x) < Limit(m, y))
  <2> DEFINE c == x - 1
  <2>1. c \in DOMAIN m.block /\ Limit(m, x) < End(m, c) /\ c + 1 = x
    BY <1>1, <1>2, PrivateHeap
  <2> HIDE DEF c
  <2>3. c \in Nat /\ End(m, c) \in Nat
    BY <2>1, Types DEF Placed
  <2>2. \/ First(m, y) <= c /\ End(m, c) <= Limit(m, y)
        \/ c + 1 = y \/ End(m, c) < y \/ Limit(m, y) < c
    BY <2>1, BlockOrHeap
  <2> QED
    BY <1>1, <1>2, <2>1, <2>2, <2>3
<1> QED
  BY <1>2

(* The header and the end marker of a heap, the headers of the blocks and  *)
(* what lies in them.                                                      *)
Top(m, h) == Span(m.heap[h].lo, Header)

(* Nothing is on the header or the end marker of a heap.                   *)
LEMMA HeapEdges ==
  ASSUME NEW m, Placed(m), NEW h \in DOMAIN m.heap
  PROVE  /\ \A b \in DOMAIN m.block : b \notin Top(m, h) /\ b # Limit(m, h)
         /\ \A c, S : In(m, c, S) => S \cap Top(m, h) = {} /\ Limit(m, h) \notin S
         /\ \A j \in DOMAIN m.heap \ {h} : /\ Top(m, h) \cap Top(m, j) = {}
                                           /\ Limit(m, h) # Limit(m, j)
         /\ \A j \in DOMAIN m.heap : Limit(m, j) \notin Top(m, h)
<1>1. \A x \in DOMAIN m.heap : /\ First(m, x) = x + 2 /\ x \in Nat /\ Limit(m, x) \in Nat
                               /\ First(m, x) < Limit(m, x) /\ Top(m, x) = x .. x + 1
  BY Types, LimitNat DEF Placed, HeapsOK, First, Header, Top, Span
<1>2. \A x \in DOMAIN m.block : /\ x \in Nat /\ End(m, x) \in Nat /\ x + 2 <= End(m, x)
  BY Types DEF Placed, BlocksOK, End
<1>3. ASSUME NEW b \in DOMAIN m.block PROVE b \notin Top(m, h) /\ b # Limit(m, h)
  <2>1. \/ First(m, h) <= b /\ End(m, b) <= Limit(m, h)
        \/ b + 1 = h \/ End(m, b) < h \/ Limit(m, h) < b
    BY BlockOrHeap
  <2> QED
    BY <1>1, <1>2, <2>1
<1>4. ASSUME NEW c, NEW S, In(m, c, S) PROVE S \cap Top(m, h) = {} /\ Limit(m, h) \notin S
  <2>1. c \in DOMAIN m.block /\ c + 1 # h /\ S \subseteq c + 1 .. End(m, c) - 1
    BY <1>4 DEF In, Plain, Inner
  <2>2. \/ First(m, h) <= c /\ End(m, c) <= Limit(m, h)
        \/ End(m, c) < h \/ Limit(m, h) < c
    BY <2>1, BlockOrHeap
  <2> DEFINE l == Limit(m, h)
             e == End(m, c)
  <2>3. /\ l \in Nat /\ e \in Nat /\ c \in Nat /\ h \in Nat /\ h + 2 < l
        /\ (h + 2 <= c /\ e <= l) \/ e < h \/ l < c
    BY <1>1, <1>2, <2>1, <2>2
  <2> HIDE DEF l, e
  <2>4. (c + 1 .. e - 1) \cap (h .. h + 1) = {} /\ l \notin c + 1 .. e - 1
    BY <2>3
  <2>5. Top(m, h) = h .. h + 1 /\ S \subseteq c + 1 .. e - 1 /\ l = Limit(m, h)
    BY <1>1, <2>1 DEF e, l
  <2> QED
    BY <2>4, <2>5
<1>5. ASSUME NEW j \in DOMAIN m.heap \ {h}
      PROVE  Top(m, h) \cap Top(m, j) = {} /\ Limit(m, h) # Limit(m, j) /\ Limit(m, j) \notin Top(m, h)
  <2>1. \/ Limit(m, h) < j \/ Limit(m, j) < h
        \/ h + 1 < j /\ Limit(m, j) < Limit(m, h)
        \/ j + 1 < h /\ Limit(m, h) < Limit(m, j)
    BY HeapsNest
  <2> DEFINE l == Limit(m, h)
             k == Limit(m, j)
  <2>2. /\ l \in Nat /\ k \in Nat /\ h \in Nat /\ j \in Nat /\ h + 2 < l /\ j + 2 < k
        /\ l < j \/ k < h \/ (h + 1 < j /\ k < l) \/ (j + 1 < h /\ l < k)
        /\ Top(m, h) = h .. h + 1 /\ Top(m, j) = j .. j + 1
    BY <1>1, <2>1
  <2> HIDE DEF l, k
  <2>3. (h .. h + 1) \cap (j .. j + 1) = {} /\ l # k /\ k \notin h .. h + 1
    BY <2>2
  <2> QED
    BY <2>2, <2>3 DEF l, k
<1>6. Limit(m, h) \notin Top(m, h)
  BY <1>1
<1> QED
  BY <1>3, <1>4, <1>5, <1>6

(* Nothing that lies in a block is on a block header.                      *)
LEMMA HeaderOutside ==
  ASSUME NEW m, Placed(m), NEW b \in DOMAIN m.block, NEW c, NEW S, In(m, c, S)
  PROVE  b \notin S
<1>1. c \in DOMAIN m.block /\ c + 1 \notin DOMAIN m.heap /\ S \subseteq c + 1 .. End(m, c) - 1
  BY DEF In, Plain, Inner
<1>2. \A x \in DOMAIN m.block : /\ x \in Nat /\ End(m, x) \in Nat /\ x + 2 <= End(m, x)
  BY Types DEF Placed, BlocksOK, End
<1>3. b # c => End(m, b) <= c \/ End(m, c) <= b \/ b + 3 <= c
  BY <1>1, PlainBlock DEF Inside
<1>4. b \notin c + 1 .. End(m, c) - 1
  BY <1>1, <1>2, <1>3
<1> QED
  BY <1>1, <1>4

(* So nothing that is held or that the allocator keeps overlaps.           *)
LEMMA NothingOverlaps ==
  ASSUME IInv, NEW A \in Occupied, NEW B \in Occupied, A # B
  PROVE  A[2] \cap B[2] = {}
<1> DEFINE Objects == {<<"object", Span(x.p, x.n)>> : x \in objects}
           Headers == {<<"block", {a}>> : a \in DOMAIN mem.block}
           Descs == {<<"arena", {a}>> : a \in DOMAIN mem.arena}
           Slabs == {<<"slab", {t}>> : t \in DOMAIN mem.slab}
           Scbs == {k \in DOMAIN mem.heap : mem.heap[k].scb # Null}
           Controls == {<<"control", Span(mem.heap[h].scb, ScbSize)>> : h \in Scbs}
           Tops == {<<"heap", Span(mem.heap[h].lo, Header)>> : h \in DOMAIN mem.heap}
           Ends == {<<"end", {Limit(mem, h)}>> : h \in DOMAIN mem.heap}
           Apart2(F, G) == \A X \in F, Y \in G : X # Y => X[2] \cap Y[2] = {}
<1>1. Occupied = Objects \cup Headers \cup Descs \cup Slabs \cup Controls \cup Tops \cup Ends
  <2>1. UNION {{<<"heap", Span(mem.heap[h].lo, Header)>>, <<"end", {Limit(mem, h)}>>} :
               h \in DOMAIN mem.heap} = Tops \cup Ends
    OBVIOUS
  <2> QED
    BY <2>1 DEF Occupied
<1>2. Placed(mem) /\ Coupled(mem, objects)
  BY DEF IInv, Good
(* What each object is, and where what lies in blocks lies.                *)
<1>3. ASSUME NEW x \in objects
      PROVE  \E u \in Uses(mem) : u.p = x.p /\ Span(x.p, x.n) \subseteq Span(u.p, u.n)
  <2>1. PICK u \in Uses(mem) : u.p = x.p /\ x.n <= u.n
    BY InUse
  <2>2. x.p \in Nat /\ x.n \in Nat /\ u.n \in Nat
    BY <1>2, UseTypes DEF Coupled
  <2> QED
    BY <2>1, <2>2 DEF Span
<1>4. \A u \in Uses(mem) : \E c : In(mem, c, Span(u.p, u.n))
  BY <1>2, UseIs, OwnIn, CellIn
<1> DEFINE Inside2 == Objects \cup Descs \cup Slabs \cup Controls
<1>5. ASSUME NEW X \in Inside2 PROVE \E c : In(mem, c, X[2])
  <2>1. ASSUME NEW x \in objects PROVE \E c : In(mem, c, Span(x.p, x.n))
    BY <1>3, <1>4 DEF In
  <2>2. \A a \in DOMAIN mem.arena : \E c : In(mem, c, {a})
    BY <1>2, ArenaIn
  <2>3. \A t \in DOMAIN mem.slab : \E c : In(mem, c, {t})
    BY <1>2, SlabIn
  <2>4. \A h \in Scbs : \E c : In(mem, c, Span(mem.heap[h].scb, ScbSize))
    BY <1>2, ControlIn
  <2> QED
    BY <2>1, <2>2, <2>3, <2>4
<1> HIDE DEF Span
(* Within blocks.                                                          *)
<1>6. Apart2(Objects, Objects)
  <2> SUFFICES ASSUME NEW x \in objects, NEW y \in objects, x # y
               PROVE  Span(x.p, x.n) \cap Span(y.p, y.n) = {}
    OBVIOUS
  <2>1. PICK u \in Uses(mem) : u.p = x.p /\ Span(x.p, x.n) \subseteq Span(u.p, u.n)
    BY <1>3
  <2>2. PICK v \in Uses(mem) : v.p = y.p /\ Span(y.p, y.n) \subseteq Span(v.p, v.n)
    BY <1>3
  <2>3. u # v
    BY <1>2, <2>1, <2>2 DEF Coupled
  <2>4. Span(u.p, u.n) \cap Span(v.p, v.n) = {}
    BY <1>2, <2>3, UsesApart
  <2> QED
    BY <2>1, <2>2, <2>4
<1>7. Apart2(Objects, Descs) /\ Apart2(Objects, Slabs)
  <2> SUFFICES ASSUME NEW x \in objects
               PROVE  /\ \A a \in DOMAIN mem.arena : a \notin Span(x.p, x.n)
                      /\ \A t \in DOMAIN mem.slab : t \notin Span(x.p, x.n)
    OBVIOUS
  <2>1. PICK u \in Uses(mem) : u.p = x.p /\ Span(x.p, x.n) \subseteq Span(u.p, u.n)
    BY <1>3
  <2> QED
    BY <1>2, <2>1, UseNotArena, UseNotSlab
<1>8. Apart2(Descs, Descs) /\ Apart2(Slabs, Slabs) /\ Apart2(Headers, Headers)
  OBVIOUS
<1>9. Apart2(Descs, Slabs)
  BY <1>2, SlabNotArena
<1>10. Apart2(Controls, Descs) /\ Apart2(Controls, Slabs)
  <2> SUFFICES ASSUME NEW h \in Scbs
               PROVE  /\ \A a \in DOMAIN mem.arena : a \notin Span(mem.heap[h].scb, ScbSize)
                      /\ \A t \in DOMAIN mem.slab : t \notin Span(mem.heap[h].scb, ScbSize)
    OBVIOUS
  <2> QED
    BY <1>2, ControlApart
<1>11. Apart2(Controls, Controls)
  <2> SUFFICES ASSUME NEW h \in Scbs, NEW j \in Scbs, h # j
               PROVE  Span(mem.heap[h].scb, ScbSize) \cap Span(mem.heap[j].scb, ScbSize) = {}
    OBVIOUS
  <2> QED
    BY <1>2, ControlApart
<1>12. Apart2(Controls, Objects)
  <2> SUFFICES ASSUME NEW h \in Scbs, NEW x \in objects
               PROVE  Span(mem.heap[h].scb, ScbSize) \cap Span(x.p, x.n) = {}
    OBVIOUS
  <2>1. PICK u \in Uses(mem) : u.p = x.p /\ Span(x.p, x.n) \subseteq Span(u.p, u.n)
    BY <1>3
  <2>2. Span(mem.heap[h].scb, ScbSize) \cap Span(u.p, u.n) = {}
    BY <1>2, ControlApart
  <2> QED
    BY <2>1, <2>2
(* Against the headers and ends.                                           *)
<1>13. Apart2(Headers, Inside2)
  BY <1>2, <1>5, HeaderOutside
<1>14. \A h \in DOMAIN mem.heap : Span(mem.heap[h].lo, Header) = Top(mem, h)
  BY DEF Top
<1>15. Apart2(Headers, Tops) /\ Apart2(Headers, Ends)
  <2> SUFFICES ASSUME NEW b \in DOMAIN mem.block, NEW h \in DOMAIN mem.heap
               PROVE  b \notin Span(mem.heap[h].lo, Header) /\ b # Limit(mem, h)
    OBVIOUS
  <2> QED
    BY <1>2, <1>14, HeapEdges
<1>16. Apart2(Inside2, Tops) /\ Apart2(Inside2, Ends)
  <2> SUFFICES ASSUME NEW X \in Inside2, NEW h \in DOMAIN mem.heap
               PROVE  X[2] \cap Span(mem.heap[h].lo, Header) = {} /\ Limit(mem, h) \notin X[2]
    <3> HIDE DEF Inside2
    <3> QED
      OBVIOUS
  <2>1. PICK c : In(mem, c, X[2])
    BY <1>5
  <2> DEFINE S == X[2]
  <2>2. In(mem, c, S)
    BY <2>1
  <2> HIDE DEF S
  <2>3. S \cap Top(mem, h) = {} /\ Limit(mem, h) \notin S
    BY <1>2, <2>2, HeapEdges
  <2> QED
    BY <1>14, <2>3 DEF S
<1>17. Apart2(Tops, Tops) /\ Apart2(Ends, Ends)
  <2> SUFFICES ASSUME NEW h \in DOMAIN mem.heap, NEW j \in DOMAIN mem.heap, h # j
               PROVE  /\ Span(mem.heap[h].lo, Header) \cap Span(mem.heap[j].lo, Header) = {}
                      /\ Limit(mem, h) # Limit(mem, j)
    OBVIOUS
  <2> QED
    BY <1>2, <1>14, HeapEdges
<1>18. Apart2(Ends, Tops)
  <2> SUFFICES ASSUME NEW h \in DOMAIN mem.heap, NEW j \in DOMAIN mem.heap
               PROVE  Limit(mem, h) \notin Span(mem.heap[j].lo, Header)
    OBVIOUS
  <2> QED
    BY <1>2, <1>14, HeapEdges
<1>19. \A F, G : Apart2(F, G) => Apart2(G, F)
  OBVIOUS
<1> HIDE DEF Objects, Headers, Descs, Slabs, Controls, Tops, Ends
<1>20. Apart2(Inside2, Inside2)
  BY <1>6, <1>7, <1>8, <1>9, <1>10, <1>11, <1>12
<1>21. Occupied = Inside2 \cup Headers \cup Tops \cup Ends
  BY <1>1
<1> HIDE DEF Inside2
<1>22. Apart2(Occupied, Occupied)
  BY <1>8, <1>13, <1>15, <1>16, <1>17, <1>18, <1>20, <1>21
<1> QED
  BY <1>22

(* What is held is as large as asked, and nothing overlaps it.             *)
LEMMA ApartFollows ==
  IInv => Apart
<1> SUFFICES ASSUME IInv PROVE Apart
  OBVIOUS
<1>1. Placed(mem) /\ Coupled(mem, objects)
  BY DEF IInv, Good
<1>2. ASSUME NEW x \in objects
      PROVE  /\ Backed(x) /\ First(mem, OwnerHeap(x.p)) < x.p
             /\ x.p + x.n <= Limit(mem, OwnerHeap(x.p))
  <2>1. PICK u \in Uses(mem) : u.p = x.p /\ x.n <= u.n
    BY InUse
  <2>2. x.p \in Nat /\ x.n \in Nat /\ u.n \in Nat /\ OwnerHeap(x.p) = u.heap
    BY <1>1, <2>1, UseTypes, OwnerIs DEF Coupled
  <2>3. Backed(x)
    <3>1. CASE SlabFromPtr(mem, x.p) # Null
      <4> DEFINE t == SlabFromPtr(mem, x.p)
      <4>1. t \in DOMAIN mem.slab /\ \E i \in LiveIn(mem, t) : u = CellUse(mem, t, i)
        BY <1>1, <2>1, <3>1, CellOrBlock
      <4>2. PICK i \in LiveIn(mem, t) : u = CellUse(mem, t, i)
        BY <4>1
      <4> HIDE DEF t
      <4>3. /\ CellIndex(mem, t, u.p) = i /\ i \notin ToSet(mem.slab[t].list)
            /\ u.n = CellSz[mem.slab[t].cls]
        BY <1>1, <4>1, <4>2, CellUseIs
      <4> QED
        BY <2>1, <3>1, <4>3 DEF Backed, t
    <3>2. CASE SlabFromPtr(mem, x.p) = Null
      <4>1. u \in BlockUses(mem)
        BY <1>1, <2>1, <3>2, CellOrBlock DEF Uses
      <4>2. PICK b \in DOMAIN mem.block : OwnBlock(mem, b) /\ u = BlockUse(mem, b)
        BY <4>1, BlockUsed
      <4>3. u.p - 1 = b /\ u.n = mem.block[b].size - 1
        BY <1>1, <4>2, BlockUseIs
      <4> QED
        BY <2>1, <3>2, <4>3 DEF Backed
    <3> QED
      BY <3>1, <3>2
  <2>4. PICK b \in DOMAIN mem.block :
          /\ mem.block[b].heap = u.heap /\ b < u.p /\ u.p + u.n <= End(mem, b)
    BY <1>1, UseInBlock
  <2>5. /\ u.heap \in DOMAIN mem.heap /\ First(mem, u.heap) <= b /\ End(mem, b) <= Limit(mem, u.heap)
    BY <1>1, <2>4 DEF Placed, BlocksOK
  <2>6. /\ First(mem, u.heap) \in Nat /\ Limit(mem, u.heap) \in Int /\ b \in Nat /\ End(mem, b) \in Nat
    BY <1>1, <2>5, Types DEF Placed
  <2>7. First(mem, u.heap) < x.p /\ x.p + x.n <= Limit(mem, u.heap)
    BY <2>1, <2>2, <2>4, <2>5, <2>6
  <2> QED
    BY <2>2, <2>3, <2>7
<1>3. \A x, y \in objects : x # y => x.p # y.p
  BY <1>1 DEF Coupled
<1>4. \A A, B \in Occupied : A # B => A[2] \cap B[2] = {}
  BY NothingOverlaps
<1> QED
  BY <1>2, <1>3, <1>4 DEF Apart
-----------------------------------------------------------------------------
(* Nothing held overlaps anything held or any header, whatever is freed,   *)
(* moved or released, and each object is as large as was asked for.        *)
THEOREM ObjectsApart == Spec => []Apart
BY InUseIsHeld, ApartFollows, PTL

(* Every free of what is held succeeds, and no second free changes a cell. *)
THEOREM FreesSucceed == Spec => []FreesAreRight
BY InUseIsHeld, FreesFollow, PTL

(* Every block, tile and arena is there for something that is held.        *)
THEOREM NothingLost == Spec => []NoLeak
BY InUseIsHeld, NoLeakFollows, PTL

(* Each heap passes its audit, and an enumeration is of what is held.      *)
THEOREM HeapsAudited == Spec => []Audited
BY InUseIsHeld, AuditFollows, PTL
=============================================================================
