-------------------------- MODULE HeapBlocks_proofs --------------------------
(***************************************************************************)
(* The block heap, for every size of it.  First its headers: that they     *)
(* tile the heap, that free neighbours are merged, that the chains hold    *)
(* the free blocks.  Then the chains as HeapAlloc walks them, and that     *)
(* the heap implements Allocator.  Last what HeapCompact, HeapValidate     *)
(* and HeapWalk promise.                                                   *)
(***************************************************************************)
EXTENDS HeapWalk, Induction

(* Following f out of any set of headers leaves the set.                   *)
NoLoop(f) == \A S \in SUBSET Addr : S # {} => \E a \in S : f[a] \notin S

(* The free-chain links of the blocks in F, whatever their free bits say:  *)
(* in the middle of an operation the two differ.                           *)
Mirrored(h, F) ==
  /\ \A b \in Buckets : h.head[b] # Null =>
       /\ h.head[b] \in F /\ h.fprev[h.head[b]] = Null
       /\ Bucket(h.req[h.head[b]]) = b
  /\ \A a \in F :
       /\ h.fprev[a] = Null => h.head[Bucket(h.req[a])] = a
       /\ h.fprev[a] # Null => /\ h.fprev[a] \in F /\ h.fnext[h.fprev[a]] = a
                               /\ Bucket(h.req[h.fprev[a]]) = Bucket(h.req[a])
       /\ h.fnext[a] # Null => /\ h.fnext[a] \in F /\ h.fprev[h.fnext[a]] = a
                               /\ Bucket(h.req[h.fnext[a]]) = Bucket(h.req[a])
  /\ \A a \in Addr \ F : h.fprev[a] = Null /\ h.fnext[a] = Null

(* Every such chain also ends, in both directions.                         *)
LinksOK(h, F) == Mirrored(h, F) /\ NoLoop(h.fnext) /\ NoLoop(h.fprev)

SameBlocks(h, g) ==
  /\ g.magic = h.magic /\ g.size = h.size /\ g.prev = h.prev
  /\ g.next = h.next /\ g.first = h.first

LEMMA BucketType == \A d \in Int : Bucket(d) \in Buckets
  BY DEF Bucket, Buckets

LEMMA NullNotAddr == Null \notin Addr /\ Addr \subseteq Int
  BY HeapAssumption DEF Addr, Null

LEMMA ReqBucket ==
  ASSUME NEW h \in Heap, NEW a \in Addr
  PROVE  Bucket(h.req[a]) \in Buckets
<1>1. h.req[a] \in Int
  BY HeapAssumption DEF Heap
<1> QED
  BY <1>1, BucketType

LEMMA LinkedType ==
  ASSUME NEW S, NEW f \in [Addr -> S], NEW x, NEW y \in S
  PROVE  Linked(f, x, y) \in [Addr -> S]
  BY DEF Linked

LEMMA LinkedTrue ==
  ASSUME NEW f \in [Addr -> BOOLEAN], NEW x
  PROVE  /\ Linked(f, x, TRUE) \in [Addr -> BOOLEAN]
         /\ \A z \in Addr : Linked(f, x, TRUE)[z] <=> (z = x \/ f[z])
  BY Zenon DEF Linked

LEMMA LinkedFalse ==
  ASSUME NEW f \in [Addr -> BOOLEAN], NEW x
  PROVE  /\ Linked(f, x, FALSE) \in [Addr -> BOOLEAN]
         /\ \A z \in Addr : Linked(f, x, FALSE)[z] <=> (z # x /\ f[z])
  BY Zenon DEF Linked

(* What the list operations do to a forward or backward link, and that     *)
(* none of them closes a loop.                                             *)
LEMMA NoLoopUnlink ==
  ASSUME NEW f, NEW g, NoLoop(f), NEW a \in Addr, NEW p \in Link,
         p # Null => f[p] = a,
         \A z \in Addr : g[z] = IF z = a THEN Null ELSE IF z = p THEN f[a] ELSE f[z]
  PROVE  NoLoop(g)
<1> SUFFICES ASSUME NEW S \in SUBSET Addr, S # {}
             PROVE  \E c \in S : g[c] \notin S
  BY DEF NoLoop
<1>1. Null \notin S
  BY NullNotAddr
<1>2. CASE a \in S
  BY <1>1, <1>2
<1>3. CASE a \notin S
  <2> DEFINE T == IF p \in S THEN S \cup {a} ELSE S
  <2>1. T \in SUBSET Addr /\ T # {}
    OBVIOUS
  <2>2. PICK c \in T : f[c] \notin T
    BY <2>1 DEF NoLoop
  <2>3. CASE c = a
    <3>1. p \in S /\ p # a
      BY <1>3, <2>2, <2>3
    <3>2. g[p] = f[a] /\ f[a] \notin S
      BY <2>2, <2>3, <3>1
    <3> QED
      BY <3>1, <3>2
  <2>4. CASE c # a
    <3>1. c \in S
      BY <2>2, <2>4
    <3>2. c # p
      <4>1. c = p => f[c] = a /\ a \in T
        BY <1>1, <3>1
      <4> QED
        BY <2>2, <4>1
    <3>3. g[c] = f[c]
      BY <2>4, <3>1, <3>2
    <3> QED
      BY <2>2, <3>1, <3>3
  <2> QED
    BY <2>3, <2>4
<1> QED
  BY <1>2, <1>3

LEMMA NoLoopPush ==
  ASSUME NEW f, NEW g, NoLoop(f), NEW a \in Addr, NEW y \in Link, y # a,
         \A z \in Addr : f[z] # a,
         \A z \in Addr : g[z] = IF z = a THEN y ELSE f[z]
  PROVE  NoLoop(g)
<1> SUFFICES ASSUME NEW S \in SUBSET Addr, S # {}
             PROVE  \E c \in S : g[c] \notin S
  BY DEF NoLoop
<1>1. CASE S = {a}
  BY <1>1
<1>2. CASE S # {a}
  <2>1. S \ {a} \in SUBSET Addr /\ S \ {a} # {}
    BY <1>2
  <2>2. PICK c \in S \ {a} : f[c] \notin S \ {a}
    BY <2>1 DEF NoLoop
  <2>3. c \in Addr /\ g[c] = f[c] /\ f[c] # a
    BY <2>2
  <2> QED
    BY <2>2, <2>3
<1> QED
  BY <1>1, <1>2

LEMMA NoLoopBack ==
  ASSUME NEW f, NEW g, NoLoop(f), NEW a \in Addr, NEW y \in Link,
         \A z \in Addr : g[z] = IF z = a THEN Null ELSE IF z = y THEN a ELSE f[z]
  PROVE  NoLoop(g)
<1> SUFFICES ASSUME NEW S \in SUBSET Addr, S # {}
             PROVE  \E c \in S : g[c] \notin S
  BY DEF NoLoop
<1>1. CASE a \in S
  BY <1>1, NullNotAddr
<1>2. CASE a \notin S
  <2>1. PICK c \in S : f[c] \notin S
    BY DEF NoLoop
  <2>2. c \in Addr /\ c # a /\ g[c] \in {a, f[c]}
    BY <1>2, <2>1
  <2> QED
    BY <1>2, <2>1, <2>2
<1> QED
  BY <1>1, <1>2

LEMMA UnlinkFreeLinks ==
  ASSUME NEW h \in Heap, NEW F \in SUBSET Addr, LinksOK(h, F),
         NEW a \in F, h.free[a]
  PROVE  LET g == UnlinkFree(h, a)
         IN  /\ g \in Heap /\ LinksOK(g, F \ {a}) /\ SameBlocks(h, g)
             /\ g.free = h.free /\ g.req = h.req
<1> DEFINE g == UnlinkFree(h, a)
           p == h.fprev[a]
           n == h.fnext[a]
<1>t. /\ a \in Addr /\ p \in Link /\ n \in Link
      /\ h.req \in [Addr -> 0 .. Size] /\ h.head \in [Buckets -> Link]
      /\ h.fnext \in [Addr -> Link] /\ h.fprev \in [Addr -> Link]
  BY DEF Heap
<1>1. g = [h EXCEPT
        !.head = [b \in Buckets |->
                   IF p = Null /\ b = Bucket(h.req[a]) THEN n ELSE h.head[b]],
        !.fnext = Linked(Linked(h.fnext, p, n), a, Null),
        !.fprev = Linked(Linked(h.fprev, n, p), a, Null)]
  BY DEF UnlinkFree
<1>2. SameBlocks(h, g) /\ g.free = h.free /\ g.req = h.req
  BY <1>1 DEF SameBlocks, Heap
<1>3. /\ g.head = [b \in Buckets |->
                   IF p = Null /\ b = Bucket(h.req[a]) THEN n ELSE h.head[b]]
      /\ g.fnext = Linked(Linked(h.fnext, p, n), a, Null)
      /\ g.fprev = Linked(Linked(h.fprev, n, p), a, Null)
  BY <1>1 DEF Heap
<1>4. g.head \in [Buckets -> Link] /\ g.fnext \in [Addr -> Link] /\ g.fprev \in [Addr -> Link]
  BY <1>3, <1>t DEF Linked, Link
<1>5. g \in Heap
  BY <1>1, <1>3, <1>4 DEF Heap
<1> HIDE DEF g
<1>p. /\ \A z \in Addr : g.fnext[z] = IF z = a THEN Null ELSE IF z = p THEN n ELSE h.fnext[z]
      /\ \A z \in Addr : g.fprev[z] = IF z = a THEN Null ELSE IF z = n THEN p ELSE h.fprev[z]
      /\ \A b \in Buckets : g.head[b] = IF p = Null /\ b = Bucket(h.req[a]) THEN n ELSE h.head[b]
  BY <1>3 DEF Linked
<1>q. g.req = h.req
  BY <1>2
<1>6. ASSUME NEW b \in Buckets, g.head[b] # Null
      PROVE  /\ g.head[b] \in F \ {a} /\ g.fprev[g.head[b]] = Null
             /\ Bucket(g.req[g.head[b]]) = b
  BY <1>2, <1>3, <1>t, <1>6, BucketType DEF LinksOK, Mirrored, Linked, Link, Addr, Null
<1>7. ASSUME NEW c \in F \ {a}
      PROVE  /\ g.fprev[c] = Null => g.head[Bucket(g.req[c])] = c
             /\ g.fprev[c] # Null => /\ g.fprev[c] \in F \ {a} /\ g.fnext[g.fprev[c]] = c
                               /\ Bucket(g.req[g.fprev[c]]) = Bucket(g.req[c])
             /\ g.fnext[c] # Null => /\ g.fnext[c] \in F \ {a} /\ g.fprev[g.fnext[c]] = c
                               /\ Bucket(g.req[g.fnext[c]]) = Bucket(g.req[c])
  <2>1. /\ c \in Addr /\ c # a /\ c \in F /\ F \subseteq Addr /\ Null \notin Addr
        /\ Bucket(h.req[c]) \in Buckets /\ Bucket(h.req[a]) \in Buckets
    BY <1>t, ReqBucket, NullNotAddr
  <2>2. ASSUME g.fprev[c] = Null
        PROVE  g.head[Bucket(h.req[c])] = c
    <3>1. CASE c = n
      <4>1. p = Null /\ Bucket(h.req[c]) = Bucket(h.req[a])
        BY <1>p, <2>1, <2>2, <3>1 DEF LinksOK, Mirrored
      <4> QED
        BY <1>p, <2>1, <3>1, <4>1
    <3>2. CASE c # n
      <4>1. h.fprev[c] = Null /\ h.head[Bucket(h.req[c])] = c
        BY <1>p, <2>1, <2>2, <3>2 DEF LinksOK, Mirrored
      <4>2. p = Null => h.head[Bucket(h.req[a])] = a
        BY DEF LinksOK, Mirrored
      <4> QED
        BY <1>p, <2>1, <4>1, <4>2
    <3> QED
      BY <3>1, <3>2
  <2>3. g.fprev[c] # Null => /\ g.fprev[c] \in F \ {a} /\ g.fnext[g.fprev[c]] = c
                             /\ Bucket(h.req[g.fprev[c]]) = Bucket(h.req[c])
    BY <1>p, <2>1, <1>t DEF LinksOK, Mirrored
  <2>4. g.fnext[c] # Null => /\ g.fnext[c] \in F \ {a} /\ g.fprev[g.fnext[c]] = c
                             /\ Bucket(h.req[g.fnext[c]]) = Bucket(h.req[c])
    BY <1>p, <2>1, <1>t DEF LinksOK, Mirrored
  <2> QED
    BY <1>q, <2>2, <2>3, <2>4
<1>8. ASSUME NEW c \in Addr \ (F \ {a})
      PROVE  g.fprev[c] = Null /\ g.fnext[c] = Null
  <2>1. Null \notin Addr
    BY DEF Addr, Null
  <2> QED
    BY <1>p, <1>t, <2>1 DEF LinksOK, Mirrored
<1>9. Mirrored(g, F \ {a})
  BY <1>6, <1>7, <1>8 DEF Mirrored
<1>10. NoLoop(g.fnext)
  <2>1. NoLoop(h.fnext) /\ (p # Null => h.fnext[p] = a)
    BY DEF LinksOK, Mirrored
  <2>2. \A z \in Addr :
          g.fnext[z] = IF z = a THEN Null ELSE IF z = p THEN h.fnext[a] ELSE h.fnext[z]
    BY <1>p
  <2> QED
    BY <1>t, <2>1, <2>2, NoLoopUnlink, SMTT(30)
<1>11. NoLoop(g.fprev)
  <2>1. NoLoop(h.fprev) /\ (n # Null => h.fprev[n] = a)
    BY DEF LinksOK, Mirrored
  <2>2. \A z \in Addr :
          g.fprev[z] = IF z = a THEN Null ELSE IF z = n THEN h.fprev[a] ELSE h.fprev[z]
    BY <1>p
  <2> QED
    BY <1>t, <2>1, <2>2, NoLoopUnlink
<1> QED
  BY <1>2, <1>5, <1>9, <1>10, <1>11 DEF LinksOK, g

LEMMA InsertFreeLinks ==
  ASSUME NEW h \in Heap, NEW F \in SUBSET Addr, LinksOK(h, F),
         NEW a \in Addr \ F, h.size[a] >= 1
  PROVE  LET g == InsertFree(h, a)
         IN  /\ g \in Heap /\ LinksOK(g, F \cup {a}) /\ SameBlocks(h, g)
             /\ \A c \in Addr : g.free[c] <=> (c = a \/ h.free[c])
             /\ \A c \in Addr : g.req[c] = IF c = a THEN h.size[a] - 1 ELSE h.req[c]
<1> DEFINE g == InsertFree(h, a)
           d == h.size[a] - 1
           old == h.head[Bucket(d)]
<1>t. /\ a \in Addr /\ d \in 0 .. Size /\ Bucket(d) \in Buckets /\ old \in Link
      /\ h.free \in [Addr -> BOOLEAN]
      /\ h.req \in [Addr -> 0 .. Size] /\ h.head \in [Buckets -> Link]
      /\ h.fnext \in [Addr -> Link] /\ h.fprev \in [Addr -> Link]
  <2>1. d \in 0 .. Size
    BY HeapAssumption DEF Heap
  <2>2. Bucket(d) \in Buckets
    BY <2>1, BucketType, HeapAssumption
  <2> QED
    BY <2>1, <2>2 DEF Heap
<1>1. g = [h EXCEPT
        !.free = Linked(h.free, a, TRUE),
        !.req = Linked(h.req, a, d),
        !.head = [b \in Buckets |-> IF b = Bucket(d) THEN a ELSE h.head[b]],
        !.fnext = Linked(h.fnext, a, old),
        !.fprev = Linked(Linked(h.fprev, old, a), a, Null)]
  BY DEF InsertFree
<1>2. SameBlocks(h, g)
  BY <1>1 DEF SameBlocks, Heap
<1>3. /\ g.free = Linked(h.free, a, TRUE)
      /\ g.req = Linked(h.req, a, d)
      /\ g.head = [b \in Buckets |-> IF b = Bucket(d) THEN a ELSE h.head[b]]
      /\ g.fnext = Linked(h.fnext, a, old)
      /\ g.fprev = Linked(Linked(h.fprev, old, a), a, Null)
  BY <1>1 DEF Heap
<1>4. /\ g.head \in [Buckets -> Link] /\ g.fnext \in [Addr -> Link]
      /\ g.fprev \in [Addr -> Link] /\ g.req \in [Addr -> 0 .. Size]
  BY <1>3, <1>t DEF Linked, Link
<1>f. /\ g.free \in [Addr -> BOOLEAN]
      /\ \A z \in Addr : g.free[z] <=> (z = a \/ h.free[z])
  <2>1. h.free \in [Addr -> BOOLEAN]
    BY <1>t
  <2>2. g.free = Linked(h.free, a, TRUE)
    BY <1>3
  <2>3. Linked(h.free, a, TRUE) \in [Addr -> BOOLEAN]
    BY <2>1, LinkedTrue, Zenon
  <2>4. \A z \in Addr : Linked(h.free, a, TRUE)[z] <=> (z = a \/ h.free[z])
    BY <2>1, LinkedTrue, Zenon
  <2> QED
    BY <2>2, <2>3, <2>4, Zenon
<1> HIDE DEF g, d, old
<1>5. g \in Heap
  <2>1. /\ g.magic = h.magic /\ g.size = h.size /\ g.prev = h.prev
        /\ g.next = h.next /\ g.first = h.first
    BY <1>2 DEF SameBlocks
  <2>2. g = [magic |-> g.magic, free |-> g.free, size |-> g.size, req |-> g.req,
             prev |-> g.prev, next |-> g.next, fprev |-> g.fprev, fnext |-> g.fnext,
             first |-> g.first, head |-> g.head]
    BY <1>1 DEF Heap
  <2> QED
    BY <2>1, <2>2, <1>4, <1>f DEF Heap
<1>p. /\ \A z \in Addr : g.fnext[z] = IF z = a THEN old ELSE h.fnext[z]
      /\ \A z \in Addr : g.fprev[z] = IF z = a THEN Null ELSE IF z = old THEN a ELSE h.fprev[z]
      /\ \A b \in Buckets : g.head[b] = IF b = Bucket(d) THEN a ELSE h.head[b]
      /\ \A z \in Addr : g.req[z] = IF z = a THEN d ELSE h.req[z]
  BY <1>3, <1>t DEF Linked
<1>o. /\ F \subseteq Addr /\ Null \notin Addr
      /\ old # Null => old \in F /\ h.fprev[old] = Null /\ Bucket(h.req[old]) = Bucket(d)
      /\ \A c \in F : c # a /\ c \in Addr /\ Bucket(h.req[c]) \in Buckets
  BY <1>t, NullNotAddr, ReqBucket DEF LinksOK, Mirrored, old
<1>6. ASSUME NEW b \in Buckets, g.head[b] # Null
      PROVE  /\ g.head[b] \in F \cup {a} /\ g.fprev[g.head[b]] = Null
             /\ Bucket(g.req[g.head[b]]) = b
  <2>1. CASE b = Bucket(d)
    BY <1>p, <1>t, <2>1
  <2>2. CASE b # Bucket(d)
    <3>1. /\ g.head[b] = h.head[b] /\ h.head[b] \in F /\ h.fprev[h.head[b]] = Null
          /\ Bucket(h.req[h.head[b]]) = b
      BY <1>p, <1>6, <2>2 DEF LinksOK, Mirrored
    <3> QED
      BY <1>p, <1>o, <2>2, <3>1
  <2> QED
    BY <2>1, <2>2
<1>7. ASSUME NEW c \in F \cup {a}
      PROVE  /\ g.fprev[c] = Null => g.head[Bucket(g.req[c])] = c
             /\ g.fprev[c] # Null => /\ g.fprev[c] \in F \cup {a} /\ g.fnext[g.fprev[c]] = c
                               /\ Bucket(g.req[g.fprev[c]]) = Bucket(g.req[c])
             /\ g.fnext[c] # Null => /\ g.fnext[c] \in F \cup {a} /\ g.fprev[g.fnext[c]] = c
                               /\ Bucket(g.req[g.fnext[c]]) = Bucket(g.req[c])
  <2>1. CASE c = a
    BY <1>p, <1>t, <1>o, <2>1
  <2>2. CASE c # a
    <3>1. c \in F /\ c \in Addr /\ g.req[c] = h.req[c]
      BY <1>p, <1>o, <2>2
    <3>2. ASSUME g.fprev[c] = Null
          PROVE  g.head[Bucket(h.req[c])] = c
      <4>1. c # old /\ h.fprev[c] = Null /\ h.head[Bucket(h.req[c])] = c
        BY <1>p, <1>t, <1>o, <3>1, <3>2 DEF LinksOK, Mirrored
      <4> QED
        BY <1>p, <1>o, <3>1, <4>1 DEF old
    <3>3. ASSUME g.fprev[c] # Null
          PROVE  /\ g.fprev[c] \in F \cup {a} /\ g.fnext[g.fprev[c]] = c
                 /\ Bucket(g.req[g.fprev[c]]) = Bucket(h.req[c])
      <4>1. CASE c = old
        BY <1>p, <1>t, <1>o, <3>1, <3>3, <4>1
      <4>2. CASE c # old
        <5>1. /\ g.fprev[c] = h.fprev[c] /\ h.fprev[c] \in F
              /\ h.fnext[h.fprev[c]] = c /\ Bucket(h.req[h.fprev[c]]) = Bucket(h.req[c])
          BY <1>p, <2>2, <3>1, <3>3, <4>2 DEF LinksOK, Mirrored
        <5> QED
          BY <1>p, <1>o, <3>1, <5>1
      <4> QED
        BY <4>1, <4>2
    <3>4. ASSUME g.fnext[c] # Null
          PROVE  /\ g.fnext[c] \in F \cup {a} /\ g.fprev[g.fnext[c]] = c
                 /\ Bucket(g.req[g.fnext[c]]) = Bucket(h.req[c])
      <4>1. /\ g.fnext[c] = h.fnext[c] /\ h.fnext[c] \in F
            /\ h.fprev[h.fnext[c]] = c /\ Bucket(h.req[h.fnext[c]]) = Bucket(h.req[c])
        BY <1>p, <2>2, <3>1, <3>4 DEF LinksOK, Mirrored
      <4>2. h.fnext[c] # old
        BY <1>o, <3>1, <4>1
      <4> QED
        BY <1>p, <1>o, <4>1, <4>2
    <3> QED
      BY <3>1, <3>2, <3>3, <3>4
  <2> QED
    BY <2>1, <2>2
<1>8. ASSUME NEW c \in Addr \ (F \cup {a})
      PROVE  g.fprev[c] = Null /\ g.fnext[c] = Null
  BY <1>p, <1>o DEF LinksOK, Mirrored
<1>9. Mirrored(g, F \cup {a})
  BY <1>6, <1>7, <1>8 DEF Mirrored
<1>10. NoLoop(g.fnext)
  <2>1. NoLoop(h.fnext) /\ old # a
    BY <1>o, <1>t DEF LinksOK
  <2>2. \A z \in Addr : h.fnext[z] # a
    BY <1>o, <1>t DEF LinksOK, Mirrored
  <2> QED
    BY <1>t, <1>p, <2>1, <2>2, NoLoopPush
<1>11. NoLoop(g.fprev)
  <2>1. NoLoop(h.fprev)
    BY DEF LinksOK
  <2>2. a \in Addr /\ old \in Link
    BY <1>t
  <2>3. \A z \in Addr : g.fprev[z] = IF z = a THEN Null ELSE IF z = old THEN a ELSE h.fprev[z]
    BY <1>p
  <2> QED
    BY <2>1, <2>2, <2>3, NoLoopBack
<1>12. LinksOK(g, F \cup {a})
  BY <1>9, <1>10, <1>11 DEF LinksOK
<1> QED
  BY <1>2, <1>5, <1>12, <1>p, <1>f DEF g, d

LEMMA LinksFrame ==
  ASSUME NEW h, NEW g, NEW F \in SUBSET Addr, LinksOK(h, F), g.head = h.head,
         \A c \in Addr : g.fprev[c] = h.fprev[c] /\ g.fnext[c] = h.fnext[c],
         \A c \in F : g.req[c] = h.req[c]
  PROVE  LinksOK(g, F)
<1>1. ASSUME NEW b \in Buckets, g.head[b] # Null
      PROVE  /\ g.head[b] \in F /\ g.fprev[g.head[b]] = Null
             /\ Bucket(g.req[g.head[b]]) = b
  BY <1>1 DEF LinksOK, Mirrored
<1>2. ASSUME NEW a \in F
      PROVE  /\ g.fprev[a] = Null => g.head[Bucket(g.req[a])] = a
             /\ g.fprev[a] # Null => /\ g.fprev[a] \in F /\ g.fnext[g.fprev[a]] = a
                               /\ Bucket(g.req[g.fprev[a]]) = Bucket(g.req[a])
             /\ g.fnext[a] # Null => /\ g.fnext[a] \in F /\ g.fprev[g.fnext[a]] = a
                               /\ Bucket(g.req[g.fnext[a]]) = Bucket(g.req[a])
  BY DEF LinksOK, Mirrored
<1>3. Mirrored(g, F)
  BY <1>1, <1>2 DEF LinksOK, Mirrored
<1>4. NoLoop(h.fnext) /\ NoLoop(h.fprev)
  BY DEF LinksOK
<1>5. NoLoop(g.fnext) /\ NoLoop(g.fprev)
  BY <1>4 DEF NoLoop
<1> QED
  BY <1>3, <1>5 DEF LinksOK

LEMMA TiledFrame ==
  ASSUME NEW h, NEW g, Tiled(h), SameBlocks(h, g)
  PROVE  Tiled(g)
  BY DEF Tiled, SameBlocks

LEMMA SplitTiled ==
  ASSUME NEW h \in Heap, Tiled(h), NEW a \in Addr, h.magic[a],
         NEW n \in Int, 1 <= n, n < h.size[a]
  PROVE  LET g == Split(h, a, n)
             r == a + n
         IN  /\ g \in Heap /\ Tiled(g) /\ r \in Addr /\ ~ h.magic[r] /\ r # a
             /\ g.free = h.free /\ g.req = h.req /\ g.head = h.head
             /\ g.fprev = h.fprev /\ g.fnext = h.fnext
             /\ \A c \in Addr :
                  /\ g.magic[c] <=> (c = r \/ h.magic[c])
                  /\ g.size[c] = IF c = a THEN n
                                 ELSE IF c = r THEN h.size[a] - n ELSE h.size[c]
                  /\ g.next[c] = IF c = a THEN r ELSE IF c = r THEN h.next[a] ELSE h.next[c]
                  /\ g.prev[c] = IF c = r THEN a ELSE IF c = h.next[a] THEN r ELSE h.prev[c]
<1> DEFINE g == Split(h, a, n)
           r == a + n
           f == h.next[a]
<1>a. /\ Size \in Int /\ Size >= 1 /\ Addr = 0 .. Size - 1 /\ Null = -1
  BY HeapAssumption DEF Addr, Null
<1>t. /\ h.magic \in [Addr -> BOOLEAN] /\ h.size \in [Addr -> 0 .. Size]
      /\ h.next \in [Addr -> Link] /\ h.prev \in [Addr -> Link]
  BY DEF Heap
<1>r. /\ r \in Addr /\ r # a /\ r > a /\ r < a + h.size[a] /\ f \in Link
      /\ h.size[a] \in 0 .. Size /\ a + h.size[a] <= Size
  <2>1. f \in Link /\ h.size[a] \in 0 .. Size
    BY <1>t
  <2>2. a + h.size[a] <= Size
    BY DEF Tiled
  <2> QED
    BY <1>a, <2>1, <2>2
<1>m. ~ h.magic[r]
  <2>1. h.magic[r] => a + h.size[a] <= r
    BY <1>a, <1>r DEF Tiled
  <2>2. a \in Int /\ h.size[a] \in Int
    BY <1>a, <1>r
  <2> QED
    BY <2>1, <2>2, <1>r
<1>1. g = [h EXCEPT
        !.magic = Linked(h.magic, r, TRUE),
        !.size = Linked(Linked(h.size, r, h.size[a] - n), a, n),
        !.next = Linked(Linked(h.next, r, f), a, r),
        !.prev = Linked(Linked(h.prev, f, r), r, a)]
  BY DEF Split
<1>2. /\ g.free = h.free /\ g.req = h.req /\ g.head = h.head
      /\ g.fprev = h.fprev /\ g.fnext = h.fnext /\ g.first = h.first
  BY <1>1 DEF Heap
<1>3. /\ g.magic = Linked(h.magic, r, TRUE)
      /\ g.size = Linked(Linked(h.size, r, h.size[a] - n), a, n)
      /\ g.next = Linked(Linked(h.next, r, f), a, r)
      /\ g.prev = Linked(Linked(h.prev, f, r), r, a)
  BY <1>1 DEF Heap
<1>4. /\ g.size \in [Addr -> 0 .. Size] /\ g.next \in [Addr -> Link]
      /\ g.prev \in [Addr -> Link]
  <2>1. n \in 0 .. Size /\ h.size[a] - n \in 0 .. Size /\ r \in Link /\ a \in Link
    BY <1>r, <1>a DEF Link
  <2> QED
    BY <1>3, <1>t, <1>r, <2>1 DEF Linked
<1>8. /\ g.magic \in [Addr -> BOOLEAN]
      /\ \A c \in Addr : g.magic[c] <=> (c = r \/ h.magic[c])
  <2>1. h.magic \in [Addr -> BOOLEAN]
    BY <1>t
  <2>2. g.magic = Linked(h.magic, r, TRUE)
    BY <1>3
  <2>3. Linked(h.magic, r, TRUE) \in [Addr -> BOOLEAN]
    BY <2>1, LinkedTrue, Zenon
  <2>4. \A z \in Addr : Linked(h.magic, r, TRUE)[z] <=> (z = r \/ h.magic[z])
    BY <2>1, LinkedTrue, Zenon
  <2> QED
    BY <2>2, <2>3, <2>4, Zenon
<1>6. g \in Heap
  BY <1>1, <1>3, <1>4, <1>8 DEF Heap
<1> HIDE DEF g
<1>7. \A c \in Addr :
        /\ g.size[c] = IF c = a THEN n
                       ELSE IF c = r THEN h.size[a] - n ELSE h.size[c]
        /\ g.next[c] = IF c = a THEN r ELSE IF c = r THEN f ELSE h.next[c]
        /\ g.prev[c] = IF c = r THEN a ELSE IF c = f THEN r ELSE h.prev[c]
  BY <1>3 DEF Linked
<1>9. Tiled(g)
  <2>f. /\ f # Null => /\ f \in Addr /\ f = a + h.size[a] /\ h.magic[f] /\ h.prev[f] = a
        /\ f # a /\ f # r
        /\ f = Null => a + h.size[a] = Size
        /\ f # Null => a + h.size[a] # Size
    BY <1>r, <1>a DEF Tiled, Link
  <2>z. f # 0 /\ r # 0 /\ 0 \in Addr /\ a >= 0
    BY <2>f, <1>r, <1>a
  <2>1. g.first = 0 /\ g.magic[0] /\ g.prev[0] = Null
    <3>1. h.first = 0 /\ h.magic[0] /\ h.prev[0] = Null
      BY DEF Tiled
    <3> QED
      BY <3>1, <2>z, <1>2, <1>7, <1>8
  <2>2. ASSUME NEW c \in Addr, g.magic[c]
        PROVE  /\ g.size[c] >= 1 /\ c + g.size[c] <= Size
               /\ g.next[c] = IF c + g.size[c] = Size THEN Null ELSE c + g.size[c]
               /\ g.next[c] # Null => g.magic[g.next[c]] /\ g.prev[g.next[c]] = c
               /\ g.prev[c] # Null => g.magic[g.prev[c]] /\ g.next[g.prev[c]] = c
               /\ g.prev[c] = Null => c = 0
    <3>1. CASE c = a
      <4>1. /\ g.size[c] = n /\ g.next[c] = r /\ g.prev[c] = h.prev[a]
        BY <1>7, <1>r, <2>f, <3>1
      <4>2. h.prev[a] # Null => /\ h.prev[a] \in Addr /\ h.magic[h.prev[a]]
                                /\ h.next[h.prev[a]] = a /\ h.prev[a] # a /\ h.prev[a] # r
        BY <1>t, <1>m, <2>f DEF Tiled, Link
      <4>3. h.prev[a] = Null => a = 0
        BY DEF Tiled
      <4>4. g.magic[r] /\ g.prev[r] = a
        BY <1>7, <1>8, <1>r
      <4>5. h.prev[a] # Null => g.magic[h.prev[a]] /\ g.next[h.prev[a]] = a
        BY <4>2, <1>7, <1>8
      <4> QED
        BY <4>1, <4>3, <4>4, <4>5, <1>r, <1>a, <3>1
    <3>2. CASE c = r
      <4>1. /\ g.size[c] = h.size[a] - n /\ g.next[c] = f /\ g.prev[c] = a
        BY <1>7, <1>r, <3>2
      <4>2. g.size[c] >= 1 /\ c + g.size[c] = a + h.size[a] /\ a # Null
        BY <4>1, <1>r, <1>a, <3>2
      <4>3. f # Null => g.magic[f] /\ g.prev[f] = r
        BY <2>f, <1>7, <1>8
      <4>4. g.magic[a] /\ g.next[a] = r
        BY <1>7, <1>8
      <4> QED
        BY <4>1, <4>2, <4>3, <4>4, <2>f, <1>r, <3>2
    <3>3. CASE c # a /\ c # r
      <4>1. h.magic[c] /\ g.size[c] = h.size[c] /\ g.next[c] = h.next[c]
        BY <1>7, <1>8, <2>2, <3>3
      <4>2. /\ h.size[c] >= 1 /\ c + h.size[c] <= Size
            /\ h.next[c] = IF c + h.size[c] = Size THEN Null ELSE c + h.size[c]
            /\ h.next[c] # Null => /\ h.next[c] \in Addr /\ h.magic[h.next[c]]
                                   /\ h.prev[h.next[c]] = c /\ h.next[c] # f /\ h.next[c] # r
        BY <4>1, <1>t, <1>m, <2>f, <3>3 DEF Tiled, Link
      <4>3. CASE c = f
        <5>1. g.prev[c] = r /\ g.magic[r] /\ g.next[r] = f /\ r # Null
          BY <4>3, <3>3, <1>7, <1>8, <1>r, <1>a
        <5>2. g.next[c] # Null => g.magic[g.next[c]] /\ g.prev[g.next[c]] = c
          BY <4>1, <4>2, <3>3, <1>7, <1>8
        <5> QED
          BY <4>1, <4>2, <4>3, <5>1, <5>2
      <4>4. CASE c # f
        <5>1. /\ h.prev[c] # Null => /\ h.prev[c] \in Addr /\ h.magic[h.prev[c]]
                                     /\ h.next[h.prev[c]] = c /\ h.prev[c] # a /\ h.prev[c] # r
              /\ h.prev[c] = Null => c = 0
          BY <4>1, <4>4, <1>t, <1>m DEF Tiled, Link
        <5> QED
          BY <4>1, <4>2, <5>1, <3>3, <4>4, <1>7, <1>8
      <4> QED
        BY <4>3, <4>4
    <3> QED
      BY <3>1, <3>2, <3>3
  <2>3. ASSUME NEW c \in Addr, NEW d \in Addr, g.magic[c], g.magic[d], c < d
        PROVE  c + g.size[c] <= d
    <3>1. /\ h.magic[c] /\ h.magic[d] => c + h.size[c] <= d
          /\ h.magic[d] /\ a < d => a + h.size[a] <= d
          /\ h.magic[c] /\ c < a => c + h.size[c] <= a
      BY <2>3 DEF Tiled
    <3>2. h.size[c] \in Int /\ h.size[d] \in Int
      BY <1>t, <1>a
    <3>3. CASE c = a
      BY <3>1, <3>3, <2>3, <1>7, <1>8, <1>r, <1>a
    <3>4. CASE c = r
      BY <3>1, <3>2, <3>4, <2>3, <1>7, <1>8, <1>r, <1>a
    <3>5. CASE c # a /\ c # r
      <4>1. h.magic[c] /\ g.size[c] = h.size[c]
        BY <3>5, <2>3, <1>7, <1>8
      <4>2. CASE d = r
        <5>1. c < a \/ a < c
          BY <3>5, <1>a
        <5>2. a < c => a + h.size[a] <= c
          BY <4>1 DEF Tiled
        <5> QED
          BY <5>1, <5>2, <3>1, <3>2, <4>1, <4>2, <2>3, <1>r, <1>a
      <4>3. CASE d # r
        BY <3>1, <4>1, <4>3, <2>3, <1>8
      <4> QED
        BY <4>2, <4>3
    <3> QED
      BY <3>3, <3>4, <3>5
  <2> QED
    BY <2>1, <2>2, <2>3 DEF Tiled
<1> QED
  BY <1>2, <1>6, <1>7, <1>8, <1>9, <1>r, <1>m DEF g

LEMMA AbsorbTiled ==
  ASSUME NEW h0 \in Heap, Tiled(h0), NEW a \in Addr, h0.magic[a], h0.next[a] # Null,
         NEW F \in SUBSET Addr, LinksOK(h0, F), h0.free[h0.next[a]] <=> h0.next[a] \in F
  PROVE  LET g == Absorb(h0, a)
             b == h0.next[a]
         IN  /\ g \in Heap /\ Tiled(g) /\ LinksOK(g, F \ {b})
             /\ b \in Addr /\ b # a /\ h0.magic[b]
             /\ \A c \in Addr :
                  /\ g.magic[c] <=> (c # b /\ h0.magic[c])
                  /\ g.free[c] <=> (c # b /\ h0.free[c])
                  /\ c # b => g.req[c] = h0.req[c]
                  /\ g.size[c] = IF c = a THEN h0.size[a] + h0.size[b]
                                 ELSE IF c = b THEN 0 ELSE h0.size[c]
                  /\ g.next[c] = IF c = a THEN h0.next[b]
                                 ELSE IF c = b THEN Null ELSE h0.next[c]
                  /\ g.prev[c] = IF c = b THEN Null
                                 ELSE IF c = h0.next[b] THEN a ELSE h0.prev[c]
<1> DEFINE g == Absorb(h0, a)
           b == h0.next[a]
           h == UnlinkFree(h0, b)
           f == h0.next[b]
<1>a. /\ Size \in Int /\ Size >= 1 /\ Addr = 0 .. Size - 1 /\ Null = -1
  BY HeapAssumption DEF Addr, Null
<1>b. /\ b \in Addr /\ h0.magic[b] /\ h0.prev[b] = a /\ b = a + h0.size[a]
      /\ h0.size[a] \in 0 .. Size /\ h0.size[b] \in 0 .. Size /\ f \in Link
      /\ h0.size[a] >= 1 /\ h0.size[b] >= 1 /\ b + h0.size[b] <= Size
  BY DEF Tiled, Heap, Link
<1>c. b # a /\ b > a /\ h0.size[a] + h0.size[b] \in 0 .. Size /\ Null \notin Addr
  <2>1. /\ a \in Int /\ b \in Int /\ a >= 0 /\ Null \notin Addr
        /\ h0.size[a] \in Int /\ h0.size[b] \in Int /\ Size \in Int
    BY <1>a, <1>b
  <2>2. b = a + h0.size[a] /\ h0.size[a] >= 1 /\ h0.size[b] >= 1 /\ b + h0.size[b] <= Size
    BY <1>b
  <2> HIDE DEF b
  <2>3. b # a /\ b > a /\ h0.size[a] + h0.size[b] \in 0 .. Size
    BY <2>1, <2>2
  <2> QED
    BY <2>1, <2>3
<1>u. /\ h \in Heap /\ LinksOK(h, F \ {b}) /\ SameBlocks(h0, h)
      /\ h.free = h0.free /\ h.req = h0.req
  <2>1. CASE b \in F
    BY <2>1, UnlinkFreeLinks
  <2>2. CASE b \notin F
    <3>1. h = h0 /\ F \ {b} = F
      BY <2>2 DEF UnlinkFree
    <3> QED
      BY <3>1 DEF SameBlocks
  <2> QED
    BY <2>1, <2>2
<1>1. g = [h EXCEPT
        !.magic = Linked(h.magic, b, FALSE),
        !.free = Linked(h.free, b, FALSE),
        !.size = Linked(Linked(h.size, a, h.size[a] + h.size[b]), b, 0),
        !.req = Linked(h.req, b, 0),
        !.next = Linked(Linked(h.next, a, h.next[b]), b, Null),
        !.prev = Linked(Linked(h.prev, h.next[b], a), b, Null),
        !.fnext = Linked(h.fnext, b, Null),
        !.fprev = Linked(h.fprev, b, Null)]
  BY DEF Absorb
<1> HIDE DEF h, g
<1>s. /\ h.magic = h0.magic /\ h.size = h0.size /\ h.prev = h0.prev
      /\ h.next = h0.next /\ h.first = h0.first
  BY <1>u DEF SameBlocks
<1>2. /\ g.magic = Linked(h0.magic, b, FALSE)
      /\ g.free = Linked(h0.free, b, FALSE)
      /\ g.size = Linked(Linked(h0.size, a, h0.size[a] + h0.size[b]), b, 0)
      /\ g.req = Linked(h0.req, b, 0)
      /\ g.next = Linked(Linked(h0.next, a, f), b, Null)
      /\ g.prev = Linked(Linked(h0.prev, f, a), b, Null)
      /\ g.fnext = Linked(h.fnext, b, Null)
      /\ g.fprev = Linked(h.fprev, b, Null)
      /\ g.head = h.head /\ g.first = h0.first
  BY <1>1, <1>s, <1>u DEF Heap
<1>t. /\ h0.magic \in [Addr -> BOOLEAN] /\ h0.free \in [Addr -> BOOLEAN]
      /\ h0.size \in [Addr -> 0 .. Size] /\ h0.req \in [Addr -> 0 .. Size]
      /\ h0.next \in [Addr -> Link] /\ h0.prev \in [Addr -> Link]
      /\ h.fnext \in [Addr -> Link] /\ h.fprev \in [Addr -> Link]
  BY <1>u DEF Heap
<1>3. /\ g.magic \in [Addr -> BOOLEAN] /\ g.free \in [Addr -> BOOLEAN]
      /\ \A c \in Addr : g.magic[c] <=> (c # b /\ h0.magic[c])
      /\ \A c \in Addr : g.free[c] <=> (c # b /\ h0.free[c])
  <2>1. h0.magic \in [Addr -> BOOLEAN]
    BY <1>t
  <2>2. h0.free \in [Addr -> BOOLEAN]
    BY <1>t
  <2>3. g.magic = Linked(h0.magic, b, FALSE)
    BY <1>2
  <2>4. g.free = Linked(h0.free, b, FALSE)
    BY <1>2
  <2>5. Linked(h0.magic, b, FALSE) \in [Addr -> BOOLEAN]
    BY <2>1, LinkedFalse, Zenon
  <2>6. \A z \in Addr : Linked(h0.magic, b, FALSE)[z] <=> (z # b /\ h0.magic[z])
    BY <2>1, LinkedFalse, Zenon
  <2>7. Linked(h0.free, b, FALSE) \in [Addr -> BOOLEAN]
    BY <2>2, LinkedFalse, Zenon
  <2>8. \A z \in Addr : Linked(h0.free, b, FALSE)[z] <=> (z # b /\ h0.free[z])
    BY <2>2, LinkedFalse, Zenon
  <2> QED
    BY <2>3, <2>4, <2>5, <2>6, <2>7, <2>8, Zenon
<1>4. /\ g.size \in [Addr -> 0 .. Size] /\ g.req \in [Addr -> 0 .. Size]
      /\ g.next \in [Addr -> Link] /\ g.prev \in [Addr -> Link]
      /\ g.fnext \in [Addr -> Link] /\ g.fprev \in [Addr -> Link]
  <2>1. 0 \in 0 .. Size /\ Null \in Link /\ a \in Link
    BY <1>a DEF Link
  <2> QED
    BY <1>2, <1>t, <1>b, <1>c, <2>1 DEF Linked
<1>5. g \in Heap
  BY <1>1, <1>2, <1>3, <1>4, <1>u DEF Heap
<1>7. \A c \in Addr :
        /\ c # b => g.req[c] = h0.req[c]
        /\ g.size[c] = IF c = b THEN 0 ELSE IF c = a THEN h0.size[a] + h0.size[b] ELSE h0.size[c]
        /\ g.next[c] = IF c = b THEN Null ELSE IF c = a THEN f ELSE h0.next[c]
        /\ g.prev[c] = IF c = b THEN Null ELSE IF c = f THEN a ELSE h0.prev[c]
        /\ g.fnext[c] = IF c = b THEN Null ELSE h.fnext[c]
        /\ g.fprev[c] = IF c = b THEN Null ELSE h.fprev[c]
  BY <1>2 DEF Linked
<1>8. LinksOK(g, F \ {b})
  <2>1. \A c \in Addr : g.fprev[c] = h.fprev[c] /\ g.fnext[c] = h.fnext[c]
    BY <1>7, <1>u, <1>b DEF LinksOK, Mirrored
  <2>2. \A c \in F \ {b} : g.req[c] = h.req[c]
    BY <1>7, <1>u
  <2>3. g.head = h.head /\ F \ {b} \in SUBSET Addr
    BY <1>2
  <2> QED
    BY <1>u, <2>1, <2>2, <2>3, LinksFrame
<1>f. /\ f # Null => /\ f \in Addr /\ f = b + h0.size[b] /\ h0.magic[f] /\ h0.prev[f] = b
      /\ f # a /\ f # b /\ f # 0 /\ b # 0 /\ 0 \in Addr
      /\ f = Null => b + h0.size[b] = Size
      /\ f # Null => b + h0.size[b] # Size
  <2>1. f = IF b + h0.size[b] = Size THEN Null ELSE b + h0.size[b]
    BY <1>b DEF Tiled
  <2>2. f # Null => h0.magic[f] /\ h0.prev[f] = b
    BY <1>b DEF Tiled
  <2>3. /\ a >= 0 /\ b > 0 /\ 0 \in Addr /\ a \in Int /\ b \in Int /\ h0.size[b] \in Int
        /\ h0.size[b] >= 1
    BY <1>a, <1>b, <1>c
  <2>4. f # a /\ f # b /\ f # 0
    BY <1>a, <1>c, <2>1, <2>3
  <2> QED
    BY <1>a, <1>b, <2>1, <2>2, <2>3, <2>4 DEF Link
<1>9. Tiled(g)
  <2>1. g.first = 0 /\ g.magic[0] /\ g.prev[0] = Null
    <3>1. h0.first = 0 /\ h0.magic[0] /\ h0.prev[0] = Null
      BY DEF Tiled
    <3> QED
      BY <3>1, <1>f, <1>2, <1>3, <1>7
  <2>2. ASSUME NEW c \in Addr, g.magic[c]
        PROVE  /\ g.size[c] >= 1 /\ c + g.size[c] <= Size
               /\ g.next[c] = IF c + g.size[c] = Size THEN Null ELSE c + g.size[c]
               /\ g.next[c] # Null => g.magic[g.next[c]] /\ g.prev[g.next[c]] = c
               /\ g.prev[c] # Null => g.magic[g.prev[c]] /\ g.next[g.prev[c]] = c
               /\ g.prev[c] = Null => c = 0
    <3>1. c # b /\ h0.magic[c]
      BY <1>3, <2>2
    <3>2. CASE c = a
      <4>1. g.size[c] = h0.size[a] + h0.size[b] /\ g.next[c] = f /\ g.prev[c] = h0.prev[a]
        BY <1>7, <1>c, <1>f, <3>2
      <4>2. g.size[c] >= 1 /\ c + g.size[c] = b + h0.size[b]
        BY <4>1, <1>a, <1>b, <3>2
      <4>3. f # Null => g.magic[f] /\ g.prev[f] = a
        BY <1>3, <1>7, <1>f
      <4>4. h0.prev[a] # Null => /\ h0.prev[a] \in Addr /\ h0.magic[h0.prev[a]]
                                 /\ h0.next[h0.prev[a]] = a /\ h0.prev[a] # a /\ h0.prev[a] # b
        BY <1>t, <1>f, <1>c DEF Tiled, Link
      <4>5. h0.prev[a] = Null => a = 0
        BY DEF Tiled
      <4>6. g.prev[c] # Null => g.magic[g.prev[c]] /\ g.next[g.prev[c]] = c
        BY <4>1, <4>4, <1>3, <1>7, <3>2
      <4> QED
        BY <4>1, <4>2, <4>3, <4>5, <4>6, <1>f, <1>b, <3>2
    <3>3. CASE c # a
      <4>1. g.size[c] = h0.size[c] /\ g.next[c] = h0.next[c]
        BY <1>7, <3>1, <3>3
      <4>2. /\ h0.size[c] >= 1 /\ c + h0.size[c] <= Size
            /\ h0.next[c] = IF c + h0.size[c] = Size THEN Null ELSE c + h0.size[c]
            /\ h0.next[c] # Null => /\ h0.next[c] \in Addr /\ h0.magic[h0.next[c]]
                                    /\ h0.prev[h0.next[c]] = c /\ h0.next[c] # f /\ h0.next[c] # b
        BY <3>1, <3>3, <1>b, <1>t, <1>f DEF Tiled, Link
      <4>3. g.next[c] # Null => g.magic[g.next[c]] /\ g.prev[g.next[c]] = c
        BY <4>1, <4>2, <1>3, <1>7
      <4>4. CASE c = f
        <5>1. g.prev[c] = a /\ g.magic[a] /\ g.next[a] = c /\ a # Null
          BY <4>4, <1>7, <1>3, <1>c, <3>1
        <5> QED
          BY <4>1, <4>2, <4>3, <5>1
      <4>5. CASE c # f
        <5>1. /\ h0.prev[c] # Null => /\ h0.prev[c] \in Addr /\ h0.magic[h0.prev[c]]
                                      /\ h0.next[h0.prev[c]] = c /\ h0.prev[c] # a /\ h0.prev[c] # b
              /\ h0.prev[c] = Null => c = 0
          BY <3>1, <4>5, <1>t DEF Tiled, Link
        <5> QED
          BY <4>1, <4>2, <4>3, <5>1, <3>1, <4>5, <1>3, <1>7
      <4> QED
        BY <4>4, <4>5
    <3> QED
      BY <3>2, <3>3
  <2>3. ASSUME NEW c \in Addr, NEW d \in Addr, g.magic[c], g.magic[d], c < d
        PROVE  c + g.size[c] <= d
    <3>1. h0.magic[c] /\ h0.magic[d] /\ c # b /\ d # b
      BY <1>3, <2>3
    <3>2. c + h0.size[c] <= d
      BY <3>1, <2>3 DEF Tiled
    <3>3. CASE c = a
      <4>1. b < d
        BY <3>1, <3>2, <3>3, <1>b, <1>a
      <4>2. b + h0.size[b] <= d
        BY <4>1, <3>1, <1>b DEF Tiled
      <4>3. g.size[c] = h0.size[a] + h0.size[b]
        BY <1>7, <3>3, <3>1
      <4>4. c + g.size[c] = b + h0.size[b]
        BY <4>3, <3>3, <1>a, <1>b
      <4> QED
        BY <4>2, <4>4
    <3>4. CASE c # a
      BY <3>2, <3>4, <3>1, <1>7
    <3> QED
      BY <3>3, <3>4
  <2> QED
    BY <2>1, <2>2, <2>3 DEF Tiled
<1> QED
  BY <1>3, <1>5, <1>7, <1>8, <1>9, <1>b, <1>c DEF g

(* A whole heap between two API calls, and one whose block a is out of     *)
(* every bucket and about to change: the state each operation passes       *)
(* through.                                                                *)
FreeSet(h) == {a \in Addr : h.free[a]}

Consistent(h) ==
  /\ h \in Heap /\ Tiled(h) /\ LinksOK(h, FreeSet(h))
  /\ \A c \in Addr : h.free[c] => h.magic[c] /\ h.req[c] = h.size[c] - 1

Detached(h, a) ==
  /\ h \in Heap /\ Tiled(h) /\ LinksOK(h, FreeSet(h) \ {a})
  /\ h.magic[a]
  /\ \A c \in Addr : c # a /\ h.free[c] => h.magic[c] /\ h.req[c] = h.size[c] - 1

LEMMA FreeSetType == \A h : FreeSet(h) \in SUBSET Addr
  BY DEF FreeSet

LEMMA Detach ==
  ASSUME NEW h, Consistent(h), NEW a \in Addr, h.magic[a]
  PROVE  LET g == UnlinkFree(h, a)
         IN  Detached(g, a) /\ SameBlocks(h, g) /\ g.free = h.free /\ g.req = h.req
<1> DEFINE g == UnlinkFree(h, a)
<1>1. /\ g \in Heap /\ LinksOK(g, FreeSet(h) \ {a}) /\ SameBlocks(h, g)
      /\ g.free = h.free /\ g.req = h.req
  <2>1. CASE h.free[a]
    <3>1. h \in Heap /\ LinksOK(h, FreeSet(h)) /\ FreeSet(h) \in SUBSET Addr
      BY FreeSetType DEF Consistent
    <3>2. a \in FreeSet(h)
      BY <2>1 DEF FreeSet
    <3> QED
      BY <2>1, <3>1, <3>2, UnlinkFreeLinks
  <2>2. CASE ~ h.free[a]
    <3>1. g = h /\ FreeSet(h) \ {a} = FreeSet(h)
      BY <2>2 DEF UnlinkFree, FreeSet
    <3> QED
      BY <3>1 DEF Consistent, SameBlocks
  <2> QED
    BY <2>1, <2>2
<1> HIDE DEF g
<1>2. Tiled(g)
  BY <1>1, TiledFrame DEF Consistent
<1>3. FreeSet(g) = FreeSet(h)
  BY <1>1 DEF FreeSet
<1> QED
  BY <1>1, <1>2, <1>3 DEF Detached, Consistent, SameBlocks, g

LEMMA LiveIsDetached ==
  ASSUME NEW h, Consistent(h), NEW a \in Addr, h.magic[a], ~ h.free[a]
  PROVE  Detached(h, a)
<1>1. FreeSet(h) \ {a} = FreeSet(h)
  BY DEF FreeSet
<1> QED
  BY <1>1 DEF Consistent, Detached

LEMMA AbsorbDetached ==
  ASSUME NEW h, NEW a \in Addr, Detached(h, a), h.next[a] # Null
  PROVE  LET g == Absorb(h, a)
             b == h.next[a]
         IN  /\ Detached(g, a) /\ b \in Addr /\ b # a /\ h.magic[b]
             /\ \A c \in Addr :
                  /\ g.magic[c] <=> (c # b /\ h.magic[c])
                  /\ g.free[c] <=> (c # b /\ h.free[c])
                  /\ c # b => g.req[c] = h.req[c]
                  /\ g.size[c] = IF c = a THEN h.size[a] + h.size[b]
                                 ELSE IF c = b THEN 0 ELSE h.size[c]
                  /\ g.next[c] = IF c = a THEN h.next[b]
                                 ELSE IF c = b THEN Null ELSE h.next[c]
                  /\ g.prev[c] = IF c = b THEN Null
                                 ELSE IF c = h.next[b] THEN a ELSE h.prev[c]
<1> DEFINE g == Absorb(h, a)
           b == h.next[a]
           F == FreeSet(h) \ {a}
<1>1. /\ h \in Heap /\ Tiled(h) /\ LinksOK(h, F) /\ F \in SUBSET Addr /\ h.magic[a]
  BY FreeSetType DEF Detached
<1>2. b \in Addr /\ b # a
  <2>1. b \in Addr /\ b = a + h.size[a] /\ h.size[a] \in 0 .. Size /\ h.size[a] >= 1
    BY <1>1 DEF Tiled, Heap, Link
  <2> QED
    BY <2>1, HeapAssumption DEF Addr
<1>3. h.free[b] <=> b \in F
  BY <1>2 DEF FreeSet
<1>4. /\ g \in Heap /\ Tiled(g) /\ LinksOK(g, F \ {b}) /\ h.magic[b]
      /\ \A c \in Addr :
           /\ g.magic[c] <=> (c # b /\ h.magic[c])
           /\ g.free[c] <=> (c # b /\ h.free[c])
           /\ c # b => g.req[c] = h.req[c]
           /\ g.size[c] = IF c = a THEN h.size[a] + h.size[b]
                          ELSE IF c = b THEN 0 ELSE h.size[c]
           /\ g.next[c] = IF c = a THEN h.next[b]
                          ELSE IF c = b THEN Null ELSE h.next[c]
           /\ g.prev[c] = IF c = b THEN Null
                          ELSE IF c = h.next[b] THEN a ELSE h.prev[c]
  BY <1>1, <1>3, AbsorbTiled
<1> HIDE DEF g, b
<1>5. FreeSet(g) \ {a} = F \ {b}
  BY <1>4 DEF FreeSet
<1>6. \A c \in Addr : c # a /\ g.free[c] => g.magic[c] /\ g.req[c] = g.size[c] - 1
  BY <1>4 DEF Detached
<1>7. Detached(g, a)
  BY <1>1, <1>2, <1>4, <1>5, <1>6 DEF Detached
<1> QED
  BY <1>2, <1>4, <1>7 DEF g, b

LEMMA CutDetached ==
  ASSUME NEW h, NEW a \in Addr, Detached(h, a), NEW n \in Int, 1 <= n, n < h.size[a]
  PROVE  LET r == a + n
             g == InsertFree(Split(h, a, n), r)
         IN  /\ Detached(g, a) /\ r \in Addr /\ r # a /\ ~ h.magic[r]
             /\ \A c \in Addr :
                  /\ g.magic[c] <=> (c = r \/ h.magic[c])
                  /\ g.free[c] <=> (c = r \/ h.free[c])
                  /\ c # r => g.req[c] = h.req[c]
                  /\ g.size[c] = IF c = a THEN n
                                 ELSE IF c = r THEN h.size[a] - n ELSE h.size[c]
                  /\ g.next[c] = IF c = a THEN r
                                 ELSE IF c = r THEN h.next[a] ELSE h.next[c]
                  /\ g.prev[c] = IF c = r THEN a
                                 ELSE IF c = h.next[a] THEN r ELSE h.prev[c]
<1> DEFINE r == a + n
           k == Split(h, a, n)
           g == InsertFree(k, r)
           F == FreeSet(h) \ {a}
<1>1. /\ h \in Heap /\ Tiled(h) /\ LinksOK(h, F) /\ F \in SUBSET Addr /\ h.magic[a]
      /\ \A c \in Addr : c # a /\ h.free[c] => h.magic[c] /\ h.req[c] = h.size[c] - 1
  BY FreeSetType DEF Detached
<1>2. /\ k \in Heap /\ Tiled(k) /\ r \in Addr /\ ~ h.magic[r] /\ r # a
      /\ k.free = h.free /\ k.req = h.req /\ k.head = h.head
      /\ k.fprev = h.fprev /\ k.fnext = h.fnext
      /\ \A c \in Addr :
           /\ k.magic[c] <=> (c = r \/ h.magic[c])
           /\ k.size[c] = IF c = a THEN n
                          ELSE IF c = r THEN h.size[a] - n ELSE h.size[c]
           /\ k.next[c] = IF c = a THEN r ELSE IF c = r THEN h.next[a] ELSE h.next[c]
           /\ k.prev[c] = IF c = r THEN a ELSE IF c = h.next[a] THEN r ELSE h.prev[c]
  BY <1>1, SplitTiled
<1> HIDE DEF k, r
<1>3. r \in Addr \ F /\ ~ h.free[r]
  BY <1>1, <1>2 DEF FreeSet
<1>4. LinksOK(k, F)
  BY <1>1, <1>2, LinksFrame
<1>5. k.size[r] >= 1
  <2>1. k.size[r] = h.size[a] - n /\ h.size[a] \in Int
    BY <1>1, <1>2, HeapAssumption DEF Heap
  <2> QED
    BY <2>1
<1>6. /\ g \in Heap /\ LinksOK(g, F \cup {r}) /\ SameBlocks(k, g)
      /\ \A c \in Addr : g.free[c] <=> (c = r \/ k.free[c])
      /\ \A c \in Addr : g.req[c] = IF c = r THEN k.size[r] - 1 ELSE k.req[c]
  <2>1. k \in Heap
    BY <1>2
  <2>2. F \in SUBSET Addr
    BY <1>1
  <2>3. r \in Addr \ F
    BY <1>3
  <2> HIDE DEF F, g
  <2>4. LinksOK(k, F) /\ k.size[r] >= 1
    BY <1>4, <1>5
  <2>5. /\ InsertFree(k, r) \in Heap /\ LinksOK(InsertFree(k, r), F \cup {r})
        /\ SameBlocks(k, InsertFree(k, r))
    BY <2>1, <2>2, <2>3, <2>4, InsertFreeLinks
  <2>6. \A c \in Addr : InsertFree(k, r).free[c] <=> (c = r \/ k.free[c])
    BY <2>1, <2>2, <2>3, <2>4, InsertFreeLinks
  <2>7. InsertFree(k, r).req = Linked(k.req, r, k.size[r] - 1)
    BY <2>1 DEF InsertFree, Heap
  <2>8. \A c \in Addr : InsertFree(k, r).req[c] = IF c = r THEN k.size[r] - 1 ELSE k.req[c]
    BY <2>7 DEF Linked
  <2> QED
    BY <2>5, <2>6, <2>8 DEF g
<1> HIDE DEF g
<1>7. Tiled(g)
  BY <1>2, <1>6, TiledFrame
<1>8. \A c \in Addr :
        /\ g.magic[c] <=> (c = r \/ h.magic[c])
        /\ g.free[c] <=> (c = r \/ h.free[c])
        /\ c # r => g.req[c] = h.req[c]
        /\ g.size[c] = IF c = a THEN n
                       ELSE IF c = r THEN h.size[a] - n ELSE h.size[c]
        /\ g.next[c] = IF c = a THEN r ELSE IF c = r THEN h.next[a] ELSE h.next[c]
        /\ g.prev[c] = IF c = r THEN a ELSE IF c = h.next[a] THEN r ELSE h.prev[c]
  BY <1>2, <1>6 DEF SameBlocks
<1>9. FreeSet(g) \ {a} = F \cup {r}
  BY <1>2, <1>8 DEF FreeSet
<1>10. \A c \in Addr : c # a /\ g.free[c] => g.magic[c] /\ g.req[c] = g.size[c] - 1
  BY <1>1, <1>2, <1>6, <1>8 DEF SameBlocks
<1>11. Detached(g, a)
  BY <1>1, <1>6, <1>7, <1>8, <1>9, <1>10 DEF Detached
<1> QED
  BY <1>2, <1>8, <1>11 DEF g, k, r

LEMMA AttachFree ==
  ASSUME NEW h, NEW a \in Addr, Detached(h, a)
  PROVE  LET g == InsertFree(h, a)
         IN  /\ Consistent(g) /\ SameBlocks(h, g)
             /\ \A c \in Addr : g.free[c] <=> (c = a \/ h.free[c])
             /\ \A c \in Addr : c # a => g.req[c] = h.req[c]
<1> DEFINE g == InsertFree(h, a)
           F == FreeSet(h) \ {a}
<1>1. /\ h \in Heap /\ Tiled(h) /\ LinksOK(h, F) /\ F \in SUBSET Addr /\ h.magic[a]
      /\ a \in Addr \ F /\ h.size[a] >= 1
      /\ \A c \in Addr : c # a /\ h.free[c] => h.magic[c] /\ h.req[c] = h.size[c] - 1
  BY FreeSetType DEF Detached, Tiled
<1>2. /\ g \in Heap /\ LinksOK(g, F \cup {a}) /\ SameBlocks(h, g)
      /\ \A c \in Addr : g.free[c] <=> (c = a \/ h.free[c])
      /\ \A c \in Addr : g.req[c] = IF c = a THEN h.size[a] - 1 ELSE h.req[c]
  <2>1. h \in Heap /\ F \in SUBSET Addr /\ LinksOK(h, F)
    BY <1>1
  <2>2. a \in Addr \ F
    BY <1>1
  <2>3. h.size[a] >= 1
    BY <1>1
  <2> HIDE DEF F
  <2> QED
    BY <2>1, <2>2, <2>3, InsertFreeLinks
<1> HIDE DEF g
<1>3. Tiled(g)
  BY <1>1, <1>2, TiledFrame
<1>4. FreeSet(g) = F \cup {a}
  BY <1>2 DEF FreeSet
<1>5. \A c \in Addr : g.free[c] => g.magic[c] /\ g.req[c] = g.size[c] - 1
  BY <1>1, <1>2 DEF SameBlocks
<1> QED
  BY <1>2, <1>3, <1>4, <1>5 DEF Consistent, g

(* A live block leaves every bucket and holds a request that fits.         *)
LEMMA AttachFrame ==
  ASSUME NEW h, NEW a \in Addr, Detached(h, a), NEW r \in Nat, r + 1 <= h.size[a],
         NEW g \in Heap, SameBlocks(h, g), g.head = h.head,
         g.fprev = h.fprev, g.fnext = h.fnext,
         \A c \in Addr : g.free[c] <=> (c # a /\ h.free[c]),
         \A c \in Addr : g.req[c] = IF c = a THEN r ELSE h.req[c]
  PROVE  Consistent(g)
<1> DEFINE F == FreeSet(h) \ {a}
<1>1. LinksOK(h, F) /\ F \in SUBSET Addr /\ a \notin F
  BY FreeSetType DEF Detached
<1>2. FreeSet(g) = F
  BY DEF FreeSet
<1> HIDE DEF F
<1>3. LinksOK(g, F)
  BY <1>1, LinksFrame
<1>4. Tiled(g)
  BY TiledFrame DEF Detached
<1>5. \A c \in Addr : g.free[c] => g.magic[c] /\ g.req[c] = g.size[c] - 1
  BY DEF SameBlocks, Detached
<1> QED
  BY <1>2, <1>3, <1>4, <1>5 DEF Consistent

LEMMA AttachLive ==
  ASSUME NEW h, NEW a \in Addr, Detached(h, a), NEW r \in Nat, r + 1 <= h.size[a]
  PROVE  LET g == Given(h, a, r)
         IN  /\ Consistent(g) /\ SameBlocks(h, g)
             /\ \A c \in Addr : g.free[c] <=> (c # a /\ h.free[c])
             /\ \A c \in Addr : g.req[c] = IF c = a THEN r ELSE h.req[c]
<1> DEFINE g == Given(h, a, r)
<1>1. h \in Heap /\ h.free \in [Addr -> BOOLEAN] /\ h.req \in [Addr -> 0 .. Size]
      /\ h.size \in [Addr -> 0 .. Size]
  BY DEF Detached, Heap
<1>2. r \in 0 .. Size
  BY <1>1, HeapAssumption
<1>3. /\ SameBlocks(h, g) /\ g.head = h.head /\ g.fprev = h.fprev /\ g.fnext = h.fnext
      /\ g.free = Linked(h.free, a, FALSE) /\ g.req = Linked(h.req, a, r)
  BY <1>1 DEF SameBlocks, Heap, Given
<1>4. Linked(h.free, a, FALSE) \in [Addr -> BOOLEAN]
  BY <1>1, LinkedFalse, Zenon
<1>5. \A c \in Addr : Linked(h.free, a, FALSE)[c] <=> (c # a /\ h.free[c])
  BY <1>1, LinkedFalse, Zenon
<1>6. Linked(h.req, a, r) \in [Addr -> 0 .. Size]
  BY <1>1, <1>2, LinkedType
<1>7. \A c \in Addr : Linked(h.req, a, r)[c] = IF c = a THEN r ELSE h.req[c]
  BY <1>1 DEF Linked
<1>8. g \in Heap
  BY <1>1, <1>4, <1>6 DEF Heap, Given
<1> HIDE DEF g
<1>9. \A c \in Addr : g.free[c] <=> (c # a /\ h.free[c])
  BY <1>3, <1>5, Zenon
<1>10. \A c \in Addr : g.req[c] = IF c = a THEN r ELSE h.req[c]
  BY <1>3, <1>7
<1>11. Consistent(g)
  <2>1. SameBlocks(h, g) /\ g.head = h.head /\ g.fprev = h.fprev /\ g.fnext = h.fnext
    BY <1>3
  <2> QED
    BY <2>1, <1>8, <1>9, <1>10, AttachFrame
<1> QED
  BY <1>3, <1>9, <1>10, <1>11 DEF g

LEMMA ResizedLive ==
  ASSUME NEW h, NEW a \in Addr, Detached(h, a), ~ h.free[a],
         NEW r \in Nat, r + 1 <= h.size[a]
  PROVE  LET g == Resized(h, a, r)
         IN  /\ Consistent(g) /\ SameBlocks(h, g) /\ g.free = h.free
             /\ \A c \in Addr : g.req[c] = IF c = a THEN r ELSE h.req[c]
<1> DEFINE g == Resized(h, a, r)
<1>1. h \in Heap /\ h.req \in [Addr -> 0 .. Size] /\ h.size \in [Addr -> 0 .. Size]
  BY DEF Detached, Heap
<1>2. r \in 0 .. Size
  BY <1>1, HeapAssumption
<1>3. /\ SameBlocks(h, g) /\ g.head = h.head /\ g.fprev = h.fprev /\ g.fnext = h.fnext
      /\ g.free = h.free /\ g.req = Linked(h.req, a, r)
  BY <1>1 DEF SameBlocks, Heap, Resized
<1>6. Linked(h.req, a, r) \in [Addr -> 0 .. Size]
  BY <1>1, <1>2, LinkedType
<1>8. g \in Heap
  BY <1>1, <1>6 DEF Heap, Resized
<1> HIDE DEF g
<1>9. \A c \in Addr : g.free[c] <=> (c # a /\ h.free[c])
  BY <1>3
<1>10. \A c \in Addr : g.req[c] = IF c = a THEN r ELSE h.req[c]
  BY <1>1, <1>3 DEF Linked
<1>11. Consistent(g)
  BY <1>3, <1>8, <1>9, <1>10, AttachFrame
<1> QED
  BY <1>3, <1>10, <1>11 DEF g

(* No two adjacent blocks are free; SepBut leaves out the pairs of block a,*)
(* which an operation is still working on.                                 *)
SepBut(h, a) ==
  \A c \in Addr : c # a /\ h.magic[c] /\ h.free[c] /\ h.next[c] # Null /\ h.next[c] # a
                  => ~ h.free[h.next[c]]
Separated(h) ==
  \A c \in Addr : h.magic[c] /\ h.free[c] /\ h.next[c] # Null => ~ h.free[h.next[c]]

(* Block c is held by a client; the blocks held in g are those in h, as    *)
(* they were, but for a and b.                                             *)
Held(h, c) == h.magic[c] /\ ~ h.free[c]
Keeps(h, g, a, b) ==
  \A c \in Addr : c # a /\ c # b =>
    /\ Held(g, c) <=> Held(h, c)
    /\ Held(h, c) => g.req[c] = h.req[c] /\ g.size[c] = h.size[c]

LEMMA Neighbours ==
  ASSUME NEW h \in Heap, Tiled(h), NEW a \in Addr, h.magic[a]
  PROVE  /\ h.next[a] # Null => /\ h.next[a] \in Addr /\ h.magic[h.next[a]] /\ h.next[a] # a
                                /\ h.prev[h.next[a]] = a /\ h.next[a] = a + h.size[a]
                                /\ h.next[a] # h.prev[a]
         /\ h.prev[a] # Null => /\ h.prev[a] \in Addr /\ h.magic[h.prev[a]] /\ h.prev[a] # a
                                /\ h.next[h.prev[a]] = a
         /\ h.size[a] \in Int /\ h.size[a] >= 1 /\ a + h.size[a] <= Size
         /\ h.next[a] \in Link /\ h.prev[a] \in Link
<1>1. /\ h.size[a] \in Int /\ h.size[a] >= 1 /\ a + h.size[a] <= Size /\ a \in Int
      /\ h.next[a] \in Link /\ h.prev[a] \in Link
  BY NullNotAddr, HeapAssumption DEF Tiled, Heap
<1>2. h.next[a] # Null => /\ h.next[a] \in Addr /\ h.magic[h.next[a]]
                          /\ h.prev[h.next[a]] = a /\ h.next[a] = a + h.size[a]
  BY <1>1 DEF Tiled, Link
<1>3. h.prev[a] # Null => /\ h.prev[a] \in Addr /\ h.magic[h.prev[a]]
                          /\ h.next[h.prev[a]] = a
  BY <1>1 DEF Tiled, Link
<1>8. ASSUME NEW p \in Addr, h.magic[p], h.next[p] = a
      PROVE  a > p
  <2>1. a # Null /\ h.size[p] \in Int /\ p \in Int
    BY NullNotAddr, HeapAssumption DEF Heap
  <2>2. h.next[p] = p + h.size[p] /\ h.size[p] >= 1
    BY <1>8, <2>1 DEF Tiled
  <2> QED
    BY <1>8, <2>1, <2>2
<1>4. h.prev[a] # Null => a > h.prev[a]
  BY <1>3, <1>8
<1>5. h.next[a] # Null => h.next[a] > a /\ h.next[a] # a
  BY <1>1, <1>2
<1>6. h.prev[a] # Null => h.prev[a] # a
  BY <1>1, <1>4, <1>3, NullNotAddr
<1>7. h.next[a] # Null => h.next[a] # h.prev[a]
  <2>1. h.next[a] # Null /\ h.prev[a] # Null => h.next[a] > a /\ a > h.prev[a]
    BY <1>4, <1>5
  <2>2. h.prev[a] # Null => h.prev[a] \in Int
    BY <1>3, NullNotAddr
  <2>3. h.next[a] # Null => h.next[a] \in Int
    BY <1>2, NullNotAddr
  <2>4. h.next[a] # Null /\ h.prev[a] # Null => h.next[a] # h.prev[a]
    BY <2>1, <2>2, <2>3, <1>1
  <2> QED
    BY <2>4
<1> QED
  BY <1>1, <1>2, <1>3, <1>5, <1>6, <1>7

LEMMA AbsorbSep ==
  ASSUME NEW h, NEW a \in Addr, Detached(h, a), h.next[a] # Null, SepBut(h, a)
  PROVE  SepBut(Absorb(h, a), a)
<1> DEFINE g == Absorb(h, a)
           b == h.next[a]
<1>1. /\ b \in Addr /\ b # a /\ h.magic[b]
      /\ \A c \in Addr :
           /\ g.magic[c] <=> (c # b /\ h.magic[c])
           /\ g.free[c] <=> (c # b /\ h.free[c])
           /\ g.next[c] = IF c = a THEN h.next[b]
                          ELSE IF c = b THEN Null ELSE h.next[c]
  BY AbsorbDetached
<1>2. h \in Heap /\ Tiled(h)
  BY DEF Detached
<1> HIDE DEF g, b
<1>3. ASSUME NEW c \in Addr, c # a, g.magic[c], g.free[c], g.next[c] # Null, g.next[c] # a
      PROVE  ~ g.free[g.next[c]]
  <2>1. c # b /\ h.magic[c] /\ h.free[c] /\ g.next[c] = h.next[c]
    BY <1>1, <1>3
  <2>2. h.next[c] \in Addr /\ ~ h.free[h.next[c]]
    BY <1>2, <1>3, <2>1, Neighbours DEF SepBut
  <2> QED
    BY <1>1, <2>1, <2>2
<1> QED
  BY <1>3 DEF SepBut, g

LEMMA CutSep ==
  ASSUME NEW h, NEW a \in Addr, Detached(h, a), NEW n \in Int, 1 <= n, n < h.size[a],
         SepBut(h, a), ~ IsFree(h, h.next[a])
  PROVE  SepBut(InsertFree(Split(h, a, n), a + n), a)
<1> DEFINE r == a + n
           g == InsertFree(Split(h, a, n), r)
<1>1. /\ r \in Addr /\ r # a /\ ~ h.magic[r]
      /\ \A c \in Addr :
           /\ g.magic[c] <=> (c = r \/ h.magic[c])
           /\ g.free[c] <=> (c = r \/ h.free[c])
           /\ g.next[c] = IF c = a THEN r
                          ELSE IF c = r THEN h.next[a] ELSE h.next[c]
  BY CutDetached
<1>2. h \in Heap /\ Tiled(h) /\ h.magic[a]
  BY DEF Detached
<1> HIDE DEF g, r
<1>3. ASSUME NEW c \in Addr, c # a, g.magic[c], g.free[c], g.next[c] # Null, g.next[c] # a
      PROVE  ~ g.free[g.next[c]]
  <2>1. CASE c = r
    <3>1. g.next[c] = h.next[a] /\ h.next[a] # Null
      BY <1>1, <1>3, <2>1
    <3>2. h.next[a] \in Addr /\ h.magic[h.next[a]] /\ ~ h.free[h.next[a]]
      BY <1>2, <3>1, Neighbours DEF IsFree
    <3> QED
      BY <1>1, <3>1, <3>2
  <2>2. CASE c # r
    <3>1. h.magic[c] /\ h.free[c] /\ g.next[c] = h.next[c]
      BY <1>1, <1>3, <2>2
    <3>2. h.next[c] \in Addr /\ h.magic[h.next[c]] /\ ~ h.free[h.next[c]]
      BY <1>2, <1>3, <3>1, Neighbours DEF SepBut
    <3> QED
      BY <1>1, <3>1, <3>2
  <2> QED
    BY <2>1, <2>2
<1> QED
  BY <1>3 DEF SepBut, g, r

LEMMA AttachFreeSep ==
  ASSUME NEW h, NEW a \in Addr, Detached(h, a), SepBut(h, a),
         ~ IsFree(h, h.prev[a]), ~ IsFree(h, h.next[a])
  PROVE  Separated(InsertFree(h, a))
<1> DEFINE g == InsertFree(h, a)
<1>1. SameBlocks(h, g) /\ \A c \in Addr : g.free[c] <=> (c = a \/ h.free[c])
  BY AttachFree
<1>2. h \in Heap /\ Tiled(h) /\ h.magic[a]
  BY DEF Detached
<1> HIDE DEF g
<1>3. ASSUME NEW c \in Addr, h.magic[c], g.free[c], h.next[c] # Null
      PROVE  ~ g.free[h.next[c]]
  <2>1. h.next[c] \in Addr /\ h.prev[h.next[c]] = c /\ h.next[c] # c
    BY <1>2, <1>3, Neighbours
  <2>2. CASE c = a
    BY <1>1, <1>3, <2>1, <2>2 DEF IsFree
  <2>3. CASE c # a /\ h.next[c] = a
    <3>1. c # Null /\ h.free[c] /\ h.prev[a] = c
      BY <1>1, <1>3, <2>1, <2>3, NullNotAddr
    <3> QED
      BY <3>1 DEF IsFree
  <2>4. CASE c # a /\ h.next[c] # a
    BY <1>1, <1>3, <2>1, <2>4 DEF SepBut
  <2> QED
    BY <2>2, <2>3, <2>4
<1> QED
  BY <1>1, <1>3 DEF Separated, SameBlocks, g

(* An absorbed block a with its neighbours: what one step of the merge does*)
(* to the blocks held and to the bounds of base.                           *)
LEMMA AbsorbKeeps ==
  ASSUME NEW h, NEW a \in Addr, Detached(h, a), h.next[a] # Null
  PROVE  /\ Keeps(h, Absorb(h, a), a, h.next[a])
         /\ Absorb(h, a).next[a] = h.next[h.next[a]]
         /\ Absorb(h, a).prev[a] = h.prev[a]
         /\ h.prev[a] # h.next[a]
         /\ \A c \in Addr : Absorb(h, a).free[c] <=> (c # h.next[a] /\ h.free[c])
<1> DEFINE g == Absorb(h, a)
           b == h.next[a]
<1>1. /\ b \in Addr /\ b # a /\ h.magic[b]
      /\ \A c \in Addr :
           /\ g.magic[c] <=> (c # b /\ h.magic[c])
           /\ g.free[c] <=> (c # b /\ h.free[c])
           /\ c # b => g.req[c] = h.req[c]
           /\ g.size[c] = IF c = a THEN h.size[a] + h.size[b]
                          ELSE IF c = b THEN 0 ELSE h.size[c]
           /\ g.next[c] = IF c = a THEN h.next[b]
                          ELSE IF c = b THEN Null ELSE h.next[c]
           /\ g.prev[c] = IF c = b THEN Null
                          ELSE IF c = h.next[b] THEN a ELSE h.prev[c]
  BY AbsorbDetached
<1>2. h \in Heap /\ Tiled(h) /\ h.magic[a]
  BY DEF Detached
<1>3. h.prev[a] # b
  BY <1>1, <1>2, Neighbours
<1>4. h.next[b] # Null => h.next[b] # a
  BY <1>1, <1>2, <1>3, Neighbours
<1>5. a # Null
  BY NullNotAddr
<1> HIDE DEF g, b
<1> QED
  BY <1>1, <1>3, <1>4, <1>5 DEF Keeps, Held, g, b

(* __HeapCoalesce: the heap is consistent again, the blocks held by the    *)
(* clients are untouched but for block a, which is theirs no more, and the *)
(* merged block has no free neighbour.                                     *)
LEMMA CoalesceOK ==
  ASSUME NEW h, Consistent(h), NEW a \in Addr, h.magic[a], Merges(h, a)
  PROVE  LET g == Coalesce(h, a)
         IN  /\ Consistent(g) /\ Keeps(h, g, a, a) /\ ~ Held(g, a)
             /\ SepBut(h, a) => Separated(g)
<1> DEFINE below == IsFree(h, h.prev[a])
           above == IsFree(h, h.next[a])
           base == IF below THEN h.prev[a] ELSE a
           h1 == UnlinkFree(h, base)
           h2 == IF below THEN Absorb(h1, base) ELSE h1
           h3 == IF above THEN Absorb(h2, base) ELSE h2
           g == InsertFree(h3, base)
<1>g. Coalesce(h, a) = g
  BY DEF Coalesce
<1>h. h \in Heap /\ Tiled(h) /\ h.prev[a] \in Link
  BY Neighbours DEF Consistent
<1>b. /\ base \in Addr /\ h.magic[base]
      /\ below => base # a /\ h.next[base] = a /\ h.prev[a] = base /\ h.free[base]
      /\ ~ below => base = a
  BY <1>h, Neighbours DEF IsFree
<1>n. /\ above => h.next[a] # Null /\ h.free[h.next[a]]
      /\ h.next[a] # Null => /\ h.next[a] \in Addr /\ h.magic[h.next[a]]
                             /\ h.next[a] # a /\ h.next[a] # base
  BY <1>h, <1>b, Neighbours DEF IsFree
<1>s. SepBut(h, a) => ~ IsFree(h, h.prev[base])
  <2>1. CASE below
    <3>1. h.prev[base] # Null => /\ h.prev[base] \in Addr /\ h.magic[h.prev[base]]
                                 /\ h.next[h.prev[base]] = base /\ h.prev[base] # a
      BY <1>h, <1>b, <2>1, Neighbours
    <3>2. h.free[base] /\ base # a /\ base # Null
      BY <1>b, <2>1, NullNotAddr
    <3> QED
      BY <3>1, <3>2 DEF SepBut, IsFree
  <2>2. CASE ~ below
    BY <1>b, <2>2
  <2> QED
    BY <2>1, <2>2
<1>t. ASSUME SepBut(h, a), above PROVE ~ IsFree(h, h.next[h.next[a]])
  <2> DEFINE x == h.next[a]
  <2>1. x # Null /\ x \in Addr /\ h.magic[x] /\ x # a /\ h.free[x]
    BY <1>t, <1>n
  <2>3. h.prev[x] = a
    BY <1>h, <2>1, Neighbours
  <2> HIDE DEF x
  <2>4. h.next[x] # Null => h.next[x] # h.prev[x]
    BY <1>h, <2>1, Neighbours
  <2>2. h.next[h.next[a]] # Null => h.next[h.next[a]] # a
    BY <2>3, <2>4 DEF x
  <2> QED
    BY <1>t, <2>1, <2>2 DEF SepBut, IsFree, x
<1>u. /\ Detached(h1, base) /\ SameBlocks(h, h1) /\ h1.free = h.free /\ h1.req = h.req
  BY <1>b, Detach
<1>2. /\ Detached(h2, base) /\ Keeps(h, h2, a, base)
      /\ h2.next[base] = h.next[a] /\ h2.prev[base] = h.prev[base]
      /\ \A c \in Addr : c # a => (h2.free[c] <=> h.free[c])
      /\ ~ below => h2.next = h.next
      /\ below => /\ ~ h2.magic[a] /\ h2.next = Absorb(h1, base).next
                  /\ \A c \in Addr : h2.magic[c] => c # a /\ h.magic[c]
                  /\ \A c \in Addr : c # a /\ c # base => h2.next[c] = h.next[c]
  <2>1. CASE below
    <3>1. h1.next[base] = a /\ h1.next[base] # Null /\ h2 = Absorb(h1, base)
      BY <1>u, <1>b, <2>1, NullNotAddr DEF SameBlocks
    <3>2. /\ Detached(Absorb(h1, base), base) /\ Keeps(h1, Absorb(h1, base), base, a)
          /\ Absorb(h1, base).next[base] = h1.next[a]
          /\ Absorb(h1, base).prev[base] = h1.prev[base]
          /\ \A c \in Addr : /\ Absorb(h1, base).free[c] <=> (c # a /\ h1.free[c])
                             /\ Absorb(h1, base).magic[c] <=> (c # a /\ h1.magic[c])
                             /\ Absorb(h1, base).next[c] = IF c = base THEN h1.next[a]
                                  ELSE IF c = a THEN Null ELSE h1.next[c]
      <4> HIDE DEF base, h1, h2
      <4>1. base \in Addr /\ Detached(h1, base) /\ h1.next[base] # Null
        BY <3>1, <1>u, <1>b
      <4>2. /\ Keeps(h1, Absorb(h1, base), base, h1.next[base])
            /\ Absorb(h1, base).next[base] = h1.next[h1.next[base]]
            /\ Absorb(h1, base).prev[base] = h1.prev[base]
            /\ \A c \in Addr : Absorb(h1, base).free[c] <=> (c # h1.next[base] /\ h1.free[c])
        BY <4>1, AbsorbKeeps
      <4>3. /\ Detached(Absorb(h1, base), base)
            /\ \A c \in Addr :
                 /\ Absorb(h1, base).magic[c] <=> (c # h1.next[base] /\ h1.magic[c])
                 /\ Absorb(h1, base).next[c] =
                      IF c = base THEN h1.next[h1.next[base]]
                      ELSE IF c = h1.next[base] THEN Null ELSE h1.next[c]
        BY <4>1, AbsorbDetached
      <4>4. h1.next[base] = a
        BY <3>1
      <4> QED
        BY <4>2, <4>3, <4>4
    <3> HIDE DEF h1, h2, base
    <3> QED
      BY <3>1, <3>2, <1>u, <1>b, <2>1 DEF Keeps, Held, SameBlocks
  <2>2. CASE ~ below
    <3>1. h2 = h1 /\ base = a
      BY <2>2
    <3> HIDE DEF h1, h2, base
    <3> QED
      BY <3>1, <1>u, <2>2 DEF Keeps, Held, SameBlocks
  <2> QED
    BY <2>1, <2>2
<1>i. ~ Held(h2, a) \/ base = a
  BY <1>2, <1>b DEF Held
<1>j. SepBut(h, a) => SepBut(h2, base)
  <2>1. CASE below
    <3>1. ASSUME SepBut(h, a), NEW c \in Addr, c # base, h2.magic[c], h2.free[c],
                 h2.next[c] # Null, h2.next[c] # base
          PROVE  ~ h2.free[h2.next[c]]
      <4>1. /\ c # a /\ h.magic[c] /\ h.free[c] /\ h2.next[c] = h.next[c]
        BY <1>2, <2>1, <3>1
      <4>2. h.next[c] \in Addr /\ h.prev[h.next[c]] = c
        BY <1>h, <3>1, <4>1, Neighbours
      <4>3. h.next[c] # a
        BY <1>b, <2>1, <3>1, <4>2
      <4>4. ~ h.free[h.next[c]]
        BY <3>1, <4>1, <4>3 DEF SepBut
      <4> QED
        BY <1>2, <4>1, <4>2, <4>3, <4>4
    <3> HIDE DEF h2, base
    <3> QED
      BY <3>1 DEF SepBut
  <2>2. CASE ~ below
    <3>1. h2 = h1 /\ base = a
      BY <2>2
    <3> HIDE DEF h1, h2, base
    <3> QED
      BY <3>1, <1>u DEF SepBut, SameBlocks
  <2> QED
    BY <2>1, <2>2
<1>k. /\ \A c \in Addr : c # a /\ c # base => (Held(h2, c) <=> Held(h, c))
      /\ below => h.free[base]
  BY <1>2, <1>b DEF Keeps
<1> HIDE DEF h1, h2
<1>3. /\ Detached(h3, base) /\ Keeps(h2, h3, base, base)
      /\ h3.prev[base] = h2.prev[base]
      /\ \A c \in Addr : h3.free[c] => h2.free[c]
      /\ SepBut(h, a) => SepBut(h3, base) /\ ~ IsFree(h3, h3.next[base])
  <2>1. CASE above
    <3>1. h2.next[base] = h.next[a] /\ h2.next[base] # Null /\ h3 = Absorb(h2, base)
      BY <1>2, <1>n, <2>1
    <3> HIDE DEF base, h3
    <3>2. /\ Detached(h3, base) /\ Keeps(h2, h3, base, h.next[a])
          /\ h3.next[base] = h2.next[h.next[a]]
          /\ h3.prev[base] = h2.prev[base]
          /\ \A c \in Addr : h3.free[c] <=> (c # h.next[a] /\ h2.free[c])
      <4>1. base \in Addr /\ Detached(h2, base) /\ h2.next[base] # Null
        BY <3>1, <1>2, <1>b
      <4>2. /\ Keeps(h2, Absorb(h2, base), base, h2.next[base])
            /\ Absorb(h2, base).next[base] = h2.next[h2.next[base]]
            /\ Absorb(h2, base).prev[base] = h2.prev[base]
            /\ \A c \in Addr : Absorb(h2, base).free[c] <=> (c # h2.next[base] /\ h2.free[c])
        BY <4>1, AbsorbKeeps
      <4>3. Detached(Absorb(h2, base), base)
        BY <4>1, AbsorbDetached
      <4> QED
        BY <3>1, <4>2, <4>3
    <3>3. SepBut(h, a) => SepBut(h3, base)
      BY <3>1, <1>2, <1>b, <1>j, AbsorbSep
    <3>4. ~ Held(h2, h.next[a]) /\ ~ Held(h3, h.next[a])
      <4>1. ~ Held(h2, h.next[a])
        BY <1>2, <1>n, <2>1 DEF Held
      <4>2. ~ h3.magic[h.next[a]]
        BY <3>1, <1>2, <1>b, <1>n, AbsorbDetached
      <4> QED
        BY <4>1, <4>2 DEF Held
    <3>5. Keeps(h2, h3, base, base)
      BY <3>2, <3>4 DEF Keeps
    <3>6. SepBut(h, a) => ~ IsFree(h3, h3.next[base])
      <4>1. h2.next[h.next[a]] = h.next[h.next[a]]
        BY <1>2, <1>n, <2>1
      <4>2. h.next[h.next[a]] # Null => /\ h.next[h.next[a]] \in Addr
                                        /\ h.next[h.next[a]] # a
        BY <1>h, <1>n, <2>1, Neighbours
      <4>3. SepBut(h, a) => ~ IsFree(h, h.next[h.next[a]])
        BY <1>t, <2>1
      <4> QED
        BY <3>2, <4>1, <4>2, <4>3, <1>2 DEF IsFree
    <3> QED
      BY <3>2, <3>3, <3>5, <3>6
  <2>2. CASE ~ above
    <3>1. h3 = h2
      BY <2>2
    <3> HIDE DEF h3, base
    <3>2. ~ IsFree(h3, h3.next[base])
      BY <3>1, <1>2, <1>n, <2>2 DEF IsFree
    <3> QED
      BY <3>1, <3>2, <1>2, <1>j DEF Keeps
  <2> QED
    BY <2>1, <2>2
<1>l. SepBut(h, a) => ~ IsFree(h3, h3.prev[base])
  <2>1. h3.prev[base] = h.prev[base]
    BY <1>2, <1>3
  <2>2. h.prev[base] # Null => h.prev[base] \in Addr /\ h.next[h.prev[base]] = base
    BY <1>h, <1>b, Neighbours
  <2>3. h.prev[base] # Null => h.prev[base] # a
    BY <1>h, <1>b, <1>n, <2>2, Neighbours
  <2>4. SepBut(h, a) => ~ IsFree(h, h.prev[base])
    BY <1>s
  <2> HIDE DEF base, h3
  <2> QED
    BY <1>2, <1>3, <2>1, <2>2, <2>3, <2>4 DEF IsFree
<1> HIDE DEF h3
<1>4. /\ Consistent(g) /\ SameBlocks(h3, g)
      /\ \A c \in Addr : g.free[c] <=> (c = base \/ h3.free[c])
      /\ \A c \in Addr : c # base => g.req[c] = h3.req[c]
  BY <1>3, <1>b, AttachFree
<1>5. SepBut(h, a) => Separated(g)
  BY <1>3, <1>l, <1>b, AttachFreeSep
<1> HIDE DEF g, base
<1>6. Keeps(h3, g, base, base) /\ ~ Held(g, base)
  BY <1>4, <1>b DEF Keeps, Held, SameBlocks
<1>7. ~ Held(g, a)
  <2>1. CASE base = a
    BY <1>6, <2>1
  <2>2. CASE base # a
    BY <1>i, <1>3, <1>6, <2>2 DEF Keeps
  <2> QED
    BY <2>1, <2>2
<1>8. Keeps(h, g, a, a)
  <2>1. Keeps(h, g, a, base)
    BY <1>2, <1>3, <1>6 DEF Keeps
  <2>2. base # a => ~ Held(h, base)
    BY <1>b DEF Held
  <2> QED
    BY <2>1, <2>2, <1>6 DEF Keeps
<1> QED
  BY <1>g, <1>4, <1>5, <1>7, <1>8

LEMMA CutKeeps ==
  ASSUME NEW h, NEW a \in Addr, Detached(h, a), NEW n \in Int, 1 <= n, n < h.size[a]
  PROVE  Keeps(h, InsertFree(Split(h, a, n), a + n), a, a)
<1> DEFINE r == a + n
           g == InsertFree(Split(h, a, n), r)
<1>1. /\ r \in Addr /\ r # a /\ ~ h.magic[r]
      /\ \A c \in Addr :
           /\ g.magic[c] <=> (c = r \/ h.magic[c])
           /\ g.free[c] <=> (c = r \/ h.free[c])
           /\ c # r => g.req[c] = h.req[c]
           /\ g.size[c] = IF c = a THEN n
                          ELSE IF c = r THEN h.size[a] - n ELSE h.size[c]
  BY CutDetached
<1> HIDE DEF g, r
<1> QED
  BY <1>1 DEF Keeps, Held, g, r

LEMMA HeldType ==
  ASSUME NEW h, Consistent(h), NEW a \in Addr, Held(h, a)
  PROVE  Detached(h, a) /\ h.size[a] \in Int /\ h.req[a] \in Int
<1>1. Detached(h, a)
  BY LiveIsDetached DEF Held
<1>2. h.size[a] \in Int /\ h.req[a] \in Int
  BY HeapAssumption DEF Consistent, Heap
<1> QED
  BY <1>1, <1>2

(* HeapFree on a block a client holds.                                     *)
LEMMA FreeBlockOK ==
  ASSUME NEW h, Consistent(h), NEW a \in Addr, Held(h, a)
  PROVE  LET g == FreeBlock(h, a)
         IN  /\ Consistent(g) /\ Keeps(h, g, a, a) /\ ~ Held(g, a)
             /\ Coalescing /\ Separated(h) => Separated(g)
<1> DEFINE g == FreeBlock(h, a)
<1>1. Separated(h) => SepBut(h, a)
  BY DEF Separated, SepBut
<1>2. Detached(h, a)
  BY HeldType
<1>3. CASE Coalescing /\ Merges(h, a)
  <2>1. g = Coalesce(h, a) /\ h.magic[a]
    BY <1>3 DEF FreeBlock, Held
  <2> HIDE DEF g
  <2> QED
    BY <1>1, <1>3, <2>1, CoalesceOK DEF g
<1>4. CASE ~ (Coalescing /\ Merges(h, a))
  <2>1. g = InsertFree(h, a)
    BY <1>4 DEF FreeBlock
  <2>2. /\ Consistent(g) /\ SameBlocks(h, g)
        /\ \A c \in Addr : g.free[c] <=> (c = a \/ h.free[c])
        /\ \A c \in Addr : c # a => g.req[c] = h.req[c]
    BY <1>2, <2>1, AttachFree
  <2>3. Coalescing /\ Separated(h) => Separated(g)
    BY <1>1, <1>2, <1>4, <2>1, AttachFreeSep DEF Merges
  <2>4. Keeps(h, g, a, a) /\ ~ Held(g, a)
    BY <2>2 DEF Keeps, Held, SameBlocks
  <2> QED
    BY <2>2, <2>3, <2>4
<1> QED
  BY <1>3, <1>4

(* Block a is given to a client: what the end of HeapAlloc and of          *)
(* HeapReAlloc leaves, from a heap in which a is in no bucket.             *)
LEMMA AttachLiveKeeps ==
  ASSUME NEW h, NEW a \in Addr, Detached(h, a), NEW r \in Nat, r + 1 <= h.size[a]
  PROVE  LET g == Given(h, a, r)
         IN  /\ Consistent(g) /\ Keeps(h, g, a, a) /\ Held(g, a)
             /\ g.req[a] = r /\ r + 1 <= g.size[a]
             /\ SepBut(h, a) => Separated(g)
<1> DEFINE g == Given(h, a, r)
<1>1. /\ Consistent(g) /\ SameBlocks(h, g)
      /\ \A c \in Addr : g.free[c] <=> (c # a /\ h.free[c])
      /\ \A c \in Addr : g.req[c] = IF c = a THEN r ELSE h.req[c]
  BY AttachLive
<1>2. h.magic[a] /\ h \in Heap /\ Tiled(h)
  BY DEF Detached
<1> HIDE DEF g
<1>3. ASSUME SepBut(h, a), NEW c \in Addr, h.magic[c], g.free[c], h.next[c] # Null
      PROVE  ~ g.free[h.next[c]]
  <2>1. h.next[c] \in Addr
    BY <1>2, <1>3, Neighbours
  <2> QED
    BY <1>1, <1>3, <2>1 DEF SepBut
<1>4. SepBut(h, a) => Separated(g)
  BY <1>1, <1>3 DEF Separated, SameBlocks
<1>5. /\ Keeps(h, g, a, a) /\ Held(g, a)
      /\ g.req[a] = r /\ r + 1 <= g.size[a]
  BY <1>1, <1>2 DEF Keeps, Held, SameBlocks
<1> QED
  BY <1>1, <1>4, <1>5 DEF g

LEMMA ResizedKeeps ==
  ASSUME NEW h, NEW a \in Addr, Detached(h, a), ~ h.free[a],
         NEW r \in Nat, r + 1 <= h.size[a]
  PROVE  LET g == Resized(h, a, r)
         IN  /\ Consistent(g) /\ Keeps(h, g, a, a) /\ Held(g, a)
             /\ g.req[a] = r /\ r + 1 <= g.size[a]
             /\ SepBut(h, a) => Separated(g)
             /\ Separated(h) => Separated(g)
<1> DEFINE g == Resized(h, a, r)
<1>1. /\ Consistent(g) /\ SameBlocks(h, g) /\ g.free = h.free
      /\ \A c \in Addr : g.req[c] = IF c = a THEN r ELSE h.req[c]
  BY ResizedLive
<1>2. h.magic[a] /\ h \in Heap /\ Tiled(h)
  BY DEF Detached
<1> HIDE DEF g
<1>3. Separated(h) => Separated(g)
  BY <1>1 DEF Separated, SameBlocks
<1>4. SepBut(h, a) => Separated(h)
  BY DEF SepBut, Separated
<1>5. /\ Keeps(h, g, a, a) /\ Held(g, a)
      /\ g.req[a] = r /\ r + 1 <= g.size[a]
  BY <1>1, <1>2 DEF Keeps, Held, SameBlocks
<1> QED
  BY <1>1, <1>3, <1>4, <1>5 DEF g

LEMMA KeepsTrans ==
  ASSUME NEW h, NEW k, NEW g, NEW a, NEW b, Keeps(h, k, a, b), Keeps(k, g, a, b)
  PROVE  Keeps(h, g, a, b)
  BY DEF Keeps

(* The end of HeapAlloc's block path, on the free block it found.          *)
LEMMA TakeBlockOK ==
  ASSUME NEW h, Consistent(h), NEW a \in Addr, h.free[a],
         NEW r \in Nat, r + 1 <= h.size[a]
  PROVE  LET g == TakeBlock(h, a, r)
         IN  /\ Consistent(g) /\ Keeps(h, g, a, a) /\ Held(g, a)
             /\ g.req[a] = r /\ r + 1 <= g.size[a]
             /\ Separated(h) => Separated(g)
<1> DEFINE h1 == UnlinkFree(h, a)
           h2 == InsertFree(Split(h1, a, r + 1), a + (r + 1))
           g == TakeBlock(h, a, r)
<1>1. h.magic[a] /\ h \in Heap /\ Tiled(h) /\ h.size[a] \in Int /\ a \in Int
  BY NullNotAddr, HeapAssumption DEF Consistent, Heap
<1>2. /\ Detached(h1, a) /\ SameBlocks(h, h1) /\ h1.free = h.free /\ h1.req = h.req
  BY <1>1, Detach
<1>3. Keeps(h, h1, a, a)
  BY <1>2 DEF Keeps, Held, SameBlocks
<1>4. Separated(h) => SepBut(h1, a) /\ ~ IsFree(h1, h1.next[a])
  BY <1>1, <1>2 DEF Separated, SepBut, SameBlocks, IsFree
<1>5. r + 1 \in Int /\ 1 <= r + 1 /\ h1.size[a] = h.size[a] /\ a + r + 1 = a + (r + 1)
  BY <1>1, <1>2 DEF SameBlocks
<1>6. g = IF h.size[a] - (r + 1) > 1 THEN Given(h2, a, r) ELSE Given(h1, a, r)
  BY <1>5 DEF TakeBlock
<1> HIDE DEF h1, h2, g
<1>7. CASE h.size[a] - (r + 1) > 1
  <2>1. r + 1 < h1.size[a]
    BY <1>1, <1>5, <1>7
  <2>2. Detached(h2, a) /\ h2.size[a] = r + 1
    BY <1>2, <1>5, <2>1, CutDetached DEF h2
  <2>3. Keeps(h1, h2, a, a)
    BY <1>2, <1>5, <2>1, CutKeeps DEF h2
  <2>4. Separated(h) => SepBut(h2, a)
    BY <1>2, <1>4, <1>5, <2>1, CutSep DEF h2
  <2>5. r + 1 <= h2.size[a]
    BY <2>2
  <2>6. /\ Consistent(Given(h2, a, r)) /\ Keeps(h2, Given(h2, a, r), a, a)
        /\ Held(Given(h2, a, r), a) /\ Given(h2, a, r).req[a] = r
        /\ r + 1 <= Given(h2, a, r).size[a]
        /\ SepBut(h2, a) => Separated(Given(h2, a, r))
    BY <2>2, <2>5, AttachLiveKeeps
  <2>7. g = Given(h2, a, r)
    BY <1>6, <1>7
  <2> QED
    BY <1>3, <2>3, <2>4, <2>6, <2>7, KeepsTrans DEF g
<1>8. CASE ~ (h.size[a] - (r + 1) > 1)
  <2>1. r + 1 <= h1.size[a]
    BY <1>5
  <2>2. /\ Consistent(Given(h1, a, r)) /\ Keeps(h1, Given(h1, a, r), a, a)
        /\ Held(Given(h1, a, r), a) /\ Given(h1, a, r).req[a] = r
        /\ r + 1 <= Given(h1, a, r).size[a]
        /\ SepBut(h1, a) => Separated(Given(h1, a, r))
    BY <1>2, <2>1, AttachLiveKeeps
  <2>3. g = Given(h1, a, r)
    BY <1>6, <1>8
  <2> QED
    BY <1>3, <1>4, <2>2, <2>3, KeepsTrans DEF g
<1> QED
  BY <1>7, <1>8

(* HeapReAlloc to a smaller or equal rounded size.                         *)
LEMMA ShrunkOK ==
  ASSUME NEW h, Consistent(h), NEW p \in Addr, Held(h, p),
         NEW r \in Nat, r + 1 <= h.size[p]
  PROVE  LET g == Shrunk(h, p, r)
         IN  /\ Consistent(g) /\ Keeps(h, g, p, p) /\ Held(g, p)
             /\ g.req[p] = r /\ r + 1 <= g.size[p]
             /\ Coalescing /\ Separated(h) => Separated(g)
<1> DEFINE f == p + (r + 1)
           h1 == InsertFree(Split(h, p, r + 1), f)
           h2 == IF Coalescing THEN Coalesce(h1, f) ELSE h1
           g == Shrunk(h, p, r)
<1>1. Detached(h, p) /\ h.size[p] \in Int /\ p \in Int /\ h.magic[p] /\ ~ h.free[p]
  BY HeldType, NullNotAddr DEF Held
<1>2. r + 1 \in Int /\ 1 <= r + 1 /\ p + r + 1 = f
  BY <1>1
<1>3. g = IF h.size[p] - (r + 1) <= 1 THEN Resized(h, p, r) ELSE Resized(h2, p, r)
  BY <1>2 DEF Shrunk
<1>4. Separated(h) => SepBut(h, p)
  BY DEF Separated, SepBut
<1>5. CASE h.size[p] - (r + 1) <= 1
  <2>1. g = Resized(h, p, r)
    BY <1>3, <1>5
  <2> HIDE DEF g
  <2> QED
    BY <1>1, <2>1, ResizedKeeps DEF g
<1>6. CASE ~ (h.size[p] - (r + 1) <= 1)
  <2>1. r + 1 < h.size[p]
    BY <1>1, <1>6
  <2>2. /\ Detached(h1, p) /\ f \in Addr /\ f # p /\ ~ h.magic[f]
        /\ \A c \in Addr :
             /\ h1.magic[c] <=> (c = f \/ h.magic[c])
             /\ h1.free[c] <=> (c = f \/ h.free[c])
             /\ h1.size[c] = IF c = p THEN r + 1
                             ELSE IF c = f THEN h.size[p] - (r + 1) ELSE h.size[c]
             /\ h1.next[c] = IF c = p THEN f
                             ELSE IF c = f THEN h.next[p] ELSE h.next[c]
             /\ h1.prev[c] = IF c = f THEN p
                             ELSE IF c = h.next[p] THEN f ELSE h.prev[c]
    BY <1>1, <1>2, <2>1, CutDetached
  <2>3. Keeps(h, h1, p, p)
    BY <1>1, <1>2, <2>1, CutKeeps
  <2>a. h2 = IF Coalescing THEN Coalesce(h1, f) ELSE h1
    OBVIOUS
  <2>b. g = Resized(h2, p, r)
    BY <1>3, <1>6
  <2> HIDE DEF f, h1, h2, g
  <2>4. /\ h1 \in Heap /\ Tiled(h1) /\ h1.magic[f] /\ h1.free[f] /\ h1.prev[f] = p
        /\ h1.magic[p] /\ ~ h1.free[p] /\ h1.size[p] = r + 1 /\ p # Null
    BY <1>1, <2>2, NullNotAddr DEF Detached
  <2>5. Separated(h) => SepBut(h1, f) /\ ~ IsFree(h1, h1.prev[f])
    <3>1. ASSUME Separated(h), NEW c \in Addr, c # f, h1.magic[c], h1.free[c],
                 h1.next[c] # Null, h1.next[c] # f
          PROVE  ~ h1.free[h1.next[c]]
      <4>1. c # p /\ h.magic[c] /\ h.free[c] /\ h1.next[c] = h.next[c] /\ h.next[c] \in Addr
        BY <1>1, <2>2, <2>4, <3>1, Neighbours
      <4> QED
        BY <2>2, <3>1, <4>1 DEF Separated
    <3> QED
      BY <2>4, <3>1 DEF SepBut, IsFree
  <2>6. Consistent(h1) /\ Held(h1, p)
    <3>1. FreeSet(h1) \ {p} = FreeSet(h1)
      BY <2>4 DEF FreeSet
    <3>2. \A c \in Addr : h1.free[c] => c # p
      BY <2>4
    <3> QED
      BY <2>2, <2>4, <3>1, <3>2 DEF Consistent, Detached, Held
  <2>7. /\ Consistent(h2) /\ Keeps(h1, h2, f, f) /\ ~ Held(h2, f)
        /\ Coalescing /\ Separated(h) => Separated(h2)
    <3>1. CASE Coalescing /\ Merges(h1, f)
      <4>1. h2 = Coalesce(h1, f)
        BY <2>a, <3>1
      <4> QED
        BY <2>2, <2>4, <2>5, <2>6, <3>1, <4>1, CoalesceOK
    <3>2. CASE ~ (Coalescing /\ Merges(h1, f))
      <4>1. h2 = h1
        BY <2>a, <3>2 DEF Coalesce
      <4>2. Coalescing /\ Separated(h) => Separated(h1)
        <5>1. ASSUME Coalescing, Separated(h), NEW c \in Addr, h1.magic[c], h1.free[c],
                     h1.next[c] # Null
              PROVE  ~ h1.free[h1.next[c]]
          <6>1. CASE c = f
            BY <3>2, <5>1, <6>1 DEF Merges, IsFree
          <6>2. CASE c # f /\ h1.next[c] = f
            <7>1. h1.prev[f] = c
              BY <2>4, <5>1, <6>2, Neighbours
            <7> QED
              BY <2>4, <5>1, <7>1
          <6>3. CASE c # f /\ h1.next[c] # f
            BY <2>5, <5>1, <6>3 DEF SepBut
          <6> QED
            BY <6>1, <6>2, <6>3
        <5> QED
          BY <5>1 DEF Separated
      <4> QED
        BY <2>4, <2>6, <4>1, <4>2 DEF Keeps, Held
    <3> QED
      BY <3>1, <3>2
  <2>8. Held(h2, p) /\ h2.size[p] = r + 1
    BY <2>2, <2>4, <2>6, <2>7 DEF Keeps
  <2>9. /\ Consistent(g) /\ Keeps(h2, g, p, p) /\ Held(g, p)
        /\ g.req[p] = r /\ r + 1 <= g.size[p]
        /\ Separated(h2) => Separated(g)
    <3>1. Detached(h2, p) /\ ~ h2.free[p] /\ r + 1 <= h2.size[p]
      BY <2>7, <2>8, <1>2, HeldType DEF Held
    <3> QED
      BY <2>b, <3>1, ResizedKeeps
  <2>10. Keeps(h, g, p, p)
    <3>1. ~ Held(h, f) /\ ~ Held(h1, f)
      BY <2>2, <2>4 DEF Held
    <3> QED
      BY <2>3, <2>7, <2>9, <3>1 DEF Keeps
  <2> QED
    BY <2>7, <2>9, <2>10 DEF g
<1> QED
  BY <1>5, <1>6

(* HeapReAlloc into the free block that follows.                           *)
LEMMA GrownOK ==
  ASSUME NEW h, Consistent(h), NEW p \in Addr, Held(h, p), NEW r \in Nat,
         CanGrow(h, p, r), r + 1 > h.size[p]
  PROVE  LET g == Grown(h, p, r)
         IN  /\ Consistent(g) /\ Keeps(h, g, p, p) /\ Held(g, p)
             /\ g.req[p] = r /\ r + 1 <= g.size[p]
             /\ Separated(h) => Separated(g)
<1> DEFINE b == h.next[p]
           rest == h.size[p] + h.size[b] - (r + 1)
           h1 == Absorb(h, p)
           h2 == InsertFree(Split(h1, p, r + 1), p + (r + 1))
           g == Grown(h, p, r)
<1>1. Detached(h, p) /\ h.size[p] \in Int /\ p \in Int /\ h.magic[p] /\ ~ h.free[p]
  BY HeldType, NullNotAddr DEF Held
<1>h. h \in Heap /\ Tiled(h)
  BY DEF Consistent
<1>2. /\ b # Null /\ h.free[b] /\ h.size[b] >= r + 1 - h.size[p] /\ b \in Addr
      /\ h.magic[b] /\ b # p /\ h.next[b] # p
  <2>1. b # Null /\ h.free[b] /\ h.size[b] >= r + 1 - h.size[p]
    BY DEF CanGrow, IsFree
  <2>2. b \in Addr /\ h.magic[b] /\ b # p /\ h.prev[b] = p
    BY <1>1, <1>h, <2>1, Neighbours
  <2>3. h.next[b] # p
    BY <1>h, <2>2, Neighbours, NullNotAddr
  <2> QED
    BY <2>1, <2>2, <2>3
<1>3. h.size[b] \in Int
  BY <1>h, <1>2, HeapAssumption DEF Heap
<1>4. r + 1 \in Int /\ 1 <= r + 1 /\ p + r + 1 = p + (r + 1) /\ rest \in Int /\ rest >= 0
  BY <1>1, <1>2, <1>3
<1>5. g = IF rest = 0 THEN Resized(h1, p, r) ELSE Resized(h2, p, r)
  BY <1>4 DEF Grown
<1>6. /\ Detached(h1, p) /\ h1.size[p] = h.size[p] + h.size[b] /\ ~ h1.free[p]
      /\ Keeps(h, h1, p, b) /\ ~ Held(h, b) /\ ~ Held(h1, b)
      /\ h1.next[p] = h.next[b]
      /\ \A c \in Addr : h1.free[c] <=> (c # b /\ h.free[c])
  <2>1. /\ Detached(h1, p)
        /\ \A c \in Addr :
             /\ h1.magic[c] <=> (c # b /\ h.magic[c])
             /\ h1.free[c] <=> (c # b /\ h.free[c])
             /\ h1.size[c] = IF c = p THEN h.size[p] + h.size[b]
                             ELSE IF c = b THEN 0 ELSE h.size[c]
    BY <1>1, <1>2, AbsorbDetached
  <2>2. Keeps(h, h1, p, b) /\ h1.next[p] = h.next[b]
    BY <1>1, <1>2, AbsorbKeeps
  <2> HIDE DEF h1, b
  <2> QED
    BY <1>1, <1>2, <2>1, <2>2 DEF Held
<1>7. Keeps(h, h1, p, p)
  BY <1>6 DEF Keeps
<1>8. Separated(h) => SepBut(h1, p) /\ ~ IsFree(h1, h1.next[p])
  <2>1. Separated(h) => SepBut(h, p)
    BY DEF Separated, SepBut
  <2>2. SepBut(h, p) => SepBut(h1, p)
    BY <1>1, <1>2, AbsorbSep
  <2>3. Separated(h) => ~ IsFree(h, h.next[b])
    BY <1>2 DEF Separated, IsFree
  <2>4. h.next[b] # Null => h.next[b] \in Addr
    BY <1>h, <1>2, Neighbours
  <2> HIDE DEF h1, b
  <2> QED
    BY <1>6, <2>1, <2>2, <2>3, <2>4 DEF IsFree
<1> HIDE DEF h1, b, g
<1>9. CASE rest = 0
  <2>1. g = Resized(h1, p, r) /\ r + 1 <= h1.size[p]
    BY <1>1, <1>3, <1>4, <1>5, <1>6, <1>9
  <2>2. /\ Consistent(g) /\ Keeps(h1, g, p, p) /\ Held(g, p)
        /\ g.req[p] = r /\ r + 1 <= g.size[p]
        /\ SepBut(h1, p) => Separated(g)
    BY <1>6, <2>1, ResizedKeeps
  <2> QED
    BY <1>7, <1>8, <2>2, KeepsTrans DEF g
<1>10. CASE rest # 0
  <2>1. g = Resized(h2, p, r) /\ r + 1 < h1.size[p]
    BY <1>1, <1>3, <1>4, <1>5, <1>6, <1>10
  <2>2. /\ Detached(h2, p) /\ h2.size[p] = r + 1 /\ ~ h2.free[p]
    <3>1. /\ Detached(h2, p) /\ p + (r + 1) # p
          /\ \A c \in Addr :
               /\ h2.free[c] <=> (c = p + (r + 1) \/ h1.free[c])
               /\ h2.size[c] = IF c = p THEN r + 1
                               ELSE IF c = p + (r + 1) THEN h1.size[p] - (r + 1)
                               ELSE h1.size[c]
      BY <1>4, <1>6, <2>1, CutDetached
    <3> HIDE DEF h2
    <3> QED
      BY <1>6, <3>1
  <2>3. Keeps(h1, h2, p, p)
    BY <1>4, <1>6, <2>1, CutKeeps
  <2>4. Separated(h) => SepBut(h2, p)
    BY <1>4, <1>6, <1>8, <2>1, CutSep
  <2> HIDE DEF h2
  <2>5. r + 1 <= h2.size[p]
    BY <1>4, <2>2
  <2>6. /\ Consistent(g) /\ Keeps(h2, g, p, p) /\ Held(g, p)
        /\ g.req[p] = r /\ r + 1 <= g.size[p]
        /\ SepBut(h2, p) => Separated(g)
    BY <2>1, <2>2, <2>5, ResizedKeeps
  <2> QED
    BY <1>7, <2>3, <2>4, <2>6, KeepsTrans DEF g
<1> QED
  BY <1>9, <1>10

(* HeapReAlloc by allocating, copying and freeing.                         *)
LEMMA MoveToOK ==
  ASSUME NEW h, Consistent(h), NEW p \in Addr, Held(h, p), NEW a \in Addr, h.free[a],
         NEW r \in Nat, r + 1 <= h.size[a]
  PROVE  LET g == MoveTo(h, p, a, r)
         IN  /\ Consistent(g) /\ Keeps(h, g, a, p) /\ Held(g, a) /\ ~ Held(g, p)
             /\ g.req[a] = r /\ r + 1 <= g.size[a] /\ a # p
             /\ Coalescing /\ Separated(h) => Separated(g)
<1> DEFINE k == TakeBlock(h, a, r)
           g == MoveTo(h, p, a, r)
<1>1. /\ Consistent(k) /\ Keeps(h, k, a, a) /\ Held(k, a)
      /\ k.req[a] = r /\ r + 1 <= k.size[a]
      /\ Separated(h) => Separated(k)
  BY TakeBlockOK
<1>2. a # p
  BY DEF Held
<1> HIDE DEF k
<1>3. Held(k, p)
  BY <1>1, <1>2 DEF Keeps
<1>4. g = FreeBlock(k, p)
  BY DEF MoveTo, k
<1>5. /\ Consistent(g) /\ Keeps(k, g, p, p) /\ ~ Held(g, p)
      /\ Coalescing /\ Separated(k) => Separated(g)
  BY <1>1, <1>3, <1>4, FreeBlockOK
<1> HIDE DEF g
<1>6. Keeps(h, g, a, p) /\ Held(g, a) /\ g.req[a] = r /\ g.size[a] = k.size[a]
  BY <1>1, <1>2, <1>5 DEF Keeps
<1> QED
  BY <1>1, <1>2, <1>5, <1>6 DEF g

-----------------------------------------------------------------------------
(* The inductive invariant.  TypeOK and BlocksTile are not inductive: that *)
(* a step keeps them depends on the free chains, because a merge unlinks   *)
(* its neighbours through the bucket bhRequestSize names.                  *)
Fits(h) == \A a \in Addr : Held(h, a) => h.req[a] + 1 <= h.size[a]
Errors == {"SUCCESS", "OUT_OF_MEMORY", "INVALID_BLOCK", "BLOCK_NOT_FREE"}
HeapInv == Consistent(heap) /\ Fits(heap) /\ (Coalescing => Separated(heap))
IInv == HeapInv /\ err \in Errors

LEMMA FitsKept ==
  ASSUME NEW h, NEW g, NEW a, NEW b, Fits(h), Keeps(h, g, a, b),
         Held(g, a) => g.req[a] + 1 <= g.size[a],
         Held(g, b) => g.req[b] + 1 <= g.size[b]
  PROVE  Fits(g)
<1>1. ASSUME NEW c \in Addr, c # a, c # b, Held(g, c)
      PROVE  g.req[c] + 1 <= g.size[c]
  <2>1. Held(h, c) /\ g.req[c] = h.req[c] /\ g.size[c] = h.size[c]
    BY <1>1 DEF Keeps
  <2> QED
    BY <2>1 DEF Fits
<1> QED
  BY <1>1 DEF Fits

LEMMA InitInv == Init => IInv
<1> SUFFICES ASSUME Init PROVE IInv
  OBVIOUS
<1>a. /\ Size \in Int /\ Size >= 1 /\ Addr = 0 .. Size - 1 /\ Null = -1 /\ Null \notin Addr
      /\ 0 \in Addr /\ Bucket(Size - 1) \in Buckets /\ Size - 1 \in 0 .. Size
  BY HeapAssumption, BucketType DEF Addr, Null
<1>m. heap.magic = [a \in Addr |-> a = 0] /\ heap.free = [a \in Addr |-> a = 0]
  BY DEF Init
<1>b. heap.magic \in [Addr -> BOOLEAN] /\ heap.free \in [Addr -> BOOLEAN]
  <2>1. [a \in Addr |-> a = 0] \in [Addr -> BOOLEAN]
    BY Zenon
  <2> QED
    BY <1>m, <2>1, Zenon
<1>c. \A c \in Addr : (heap.magic[c] <=> c = 0) /\ (heap.free[c] <=> c = 0)
  BY <1>m, Zenon
<1>d. /\ heap.first = 0
      /\ \A c \in Addr : /\ heap.size[c] = IF c = 0 THEN Size ELSE 0
                         /\ heap.req[c] = IF c = 0 THEN Size - 1 ELSE 0
                         /\ heap.prev[c] = Null /\ heap.next[c] = Null
                         /\ heap.fprev[c] = Null /\ heap.fnext[c] = Null
      /\ \A b \in Buckets : heap.head[b] = IF b = Bucket(Size - 1) THEN 0 ELSE Null
  BY DEF Init
<1>e. heap \in Heap
  <2>1. heap \in [magic : {heap.magic}, free : {heap.free}, size : [Addr -> 0 .. Size],
                  req : [Addr -> 0 .. Size], prev : [Addr -> Link], next : [Addr -> Link],
                  fprev : [Addr -> Link], fnext : [Addr -> Link],
                  first : Link, head : [Buckets -> Link]]
    BY <1>a DEF Init, Link
  <2> QED
    BY <1>b, <2>1 DEF Heap
<1>f. Tiled(heap)
  BY <1>a, <1>c, <1>d DEF Tiled
<1>g. FreeSet(heap) = {0}
  BY <1>a, <1>c DEF FreeSet
<1>h. LinksOK(heap, {0})
  <2>1. Mirrored(heap, {0})
    BY <1>a, <1>d DEF Mirrored
  <2>2. NoLoop(heap.fnext) /\ NoLoop(heap.fprev)
    <3>1. \A c \in Addr : heap.fnext[c] \notin Addr /\ heap.fprev[c] \notin Addr
      BY <1>a, <1>d
    <3> QED
      BY <3>1 DEF NoLoop
  <2> QED
    BY <2>1, <2>2 DEF LinksOK
<1>i. Consistent(heap)
  BY <1>a, <1>c, <1>d, <1>e, <1>f, <1>g, <1>h DEF Consistent
<1>j. Fits(heap) /\ Separated(heap)
  BY <1>c, <1>d DEF Fits, Separated, Held
<1>k. err \in Errors
  BY DEF Init, Errors
<1> QED
  BY <1>i, <1>j, <1>k DEF IInv, HeapInv

LEMMA HeldIsValid ==
  \A h : \A p : ValidBlock(h, p) <=> p \in Addr /\ Held(h, p)
  BY DEF ValidBlock, Held

LEMMA AllocInv ==
  ASSUME HeapInv, NEW r \in 0 .. MaxRequest, Alloc(r)
  PROVE  IInv'
<1> DEFINE a == FirstFit(heap, r + 1)
<1>1. r \in Nat
  BY HeapAssumption
<1>2. \/ Found(heap, a, r + 1) /\ heap' = TakeBlock(heap, a, r) /\ err' = "SUCCESS"
      \/ heap' = heap /\ err' \in Errors
  BY DEF Alloc, Fail, Errors
<1> HIDE DEF a
<1>3. CASE Found(heap, a, r + 1) /\ heap' = TakeBlock(heap, a, r) /\ err' = "SUCCESS"
  <2>1. a \in Addr /\ heap.free[a] /\ r + 1 <= heap.size[a] /\ Consistent(heap)
    <3>1. a \in Addr /\ heap.free[a] /\ heap.size[a] >= r + 1 /\ Consistent(heap)
      BY <1>3 DEF Found, IInv, HeapInv
    <3>2. heap.size[a] \in Int
      BY <3>1, HeapAssumption DEF Consistent, Heap
    <3> QED
      BY <1>1, <3>1, <3>2
  <2>2. /\ Consistent(heap') /\ Keeps(heap, heap', a, a)
        /\ heap'.req[a] = r /\ r + 1 <= heap'.size[a]
        /\ Separated(heap) => Separated(heap')
    BY <1>1, <1>3, <2>1, TakeBlockOK
  <2>3. Fits(heap')
    BY <2>2, FitsKept DEF IInv, HeapInv
  <2> QED
    BY <1>3, <2>2, <2>3 DEF IInv, HeapInv, Errors
<1>4. CASE heap' = heap /\ err' \in Errors
  BY <1>4 DEF IInv, HeapInv
<1> QED
  BY <1>2, <1>3, <1>4

LEMMA FreeInv ==
  ASSUME HeapInv, NEW p \in Link, Free(p)
  PROVE  IInv'
<1>1. CASE ValidBlock(heap, p) /\ heap' = FreeBlock(heap, p) /\ err' = "SUCCESS"
  <2>1. p \in Addr /\ Held(heap, p) /\ Consistent(heap)
    BY <1>1, HeldIsValid DEF IInv, HeapInv
  <2>2. /\ Consistent(heap') /\ Keeps(heap, heap', p, p) /\ ~ Held(heap', p)
        /\ Coalescing /\ Separated(heap) => Separated(heap')
    BY <1>1, <2>1, FreeBlockOK
  <2>3. Fits(heap')
    BY <2>2, FitsKept DEF IInv, HeapInv
  <2> QED
    BY <1>1, <2>2, <2>3 DEF IInv, HeapInv, Errors
<1>2. CASE heap' = heap /\ err' \in Errors
  BY <1>2 DEF IInv, HeapInv
<1> QED
  BY <1>1, <1>2 DEF Free, Fail, Errors

(* What HeapReAlloc on a valid block can do to the heap.                   *)
LEMMA ReAllocCases ==
  ASSUME NEW p \in Link, NEW r \in 0 .. MaxRequest, NEW inPlaceOnly \in BOOLEAN,
         ReAlloc(p, r, inPlaceOnly)
  PROVE  \/ /\ ValidBlock(heap, p) /\ r + 1 <= heap.size[p]
            /\ heap' = Shrunk(heap, p, r) /\ err' = "SUCCESS"
         \/ /\ ValidBlock(heap, p) /\ r + 1 > heap.size[p] /\ CanGrow(heap, p, r)
            /\ heap' = Grown(heap, p, r) /\ err' = "SUCCESS"
         \/ /\ ValidBlock(heap, p)
            /\ \E a \in Addr : /\ Found(heap, a, r + 1)
                               /\ heap' = MoveTo(heap, p, a, r) /\ err' = "SUCCESS"
         \/ ValidBlock(heap, p) /\ heap' = heap /\ err' = "OUT_OF_MEMORY"
         \/ ValidBlock(heap, p) /\ heap' = heap /\ err' = "BLOCK_NOT_FREE"
         \/ ~ ValidBlock(heap, p) /\ heap' = heap /\ err' = "INVALID_BLOCK"
<1> DEFINE a == FirstFit(heap, r + 1)
<1>1. Found(heap, a, r + 1) => a \in Addr
  BY DEF Found
<1> QED
  BY <1>1, Zenon DEF ReAlloc, Fail

LEMMA ReAllocInv ==
  ASSUME HeapInv, NEW p \in Link, NEW r \in 0 .. MaxRequest, NEW inPlaceOnly \in BOOLEAN,
         ReAlloc(p, r, inPlaceOnly)
  PROVE  IInv'
<1>1. r \in Nat /\ Consistent(heap) /\ Fits(heap)
  BY HeapAssumption DEF IInv, HeapInv
<1>2. CASE /\ ValidBlock(heap, p) /\ r + 1 <= heap.size[p]
           /\ heap' = Shrunk(heap, p, r) /\ err' = "SUCCESS"
  <2>1. p \in Addr /\ Held(heap, p)
    BY <1>2, HeldIsValid
  <2>2. /\ Consistent(heap') /\ Keeps(heap, heap', p, p)
        /\ heap'.req[p] = r /\ r + 1 <= heap'.size[p]
        /\ Coalescing /\ Separated(heap) => Separated(heap')
    BY <1>1, <1>2, <2>1, ShrunkOK
  <2>3. Fits(heap')
    BY <1>1, <2>2, FitsKept
  <2> QED
    BY <1>2, <2>2, <2>3 DEF IInv, HeapInv, Errors
<1>3. CASE /\ ValidBlock(heap, p) /\ r + 1 > heap.size[p] /\ CanGrow(heap, p, r)
           /\ heap' = Grown(heap, p, r) /\ err' = "SUCCESS"
  <2>1. p \in Addr /\ Held(heap, p)
    BY <1>3, HeldIsValid
  <2>2. /\ Consistent(heap') /\ Keeps(heap, heap', p, p)
        /\ heap'.req[p] = r /\ r + 1 <= heap'.size[p]
        /\ Separated(heap) => Separated(heap')
    BY <1>1, <1>3, <2>1, GrownOK
  <2>3. Fits(heap')
    BY <1>1, <2>2, FitsKept
  <2> QED
    BY <1>3, <2>2, <2>3 DEF IInv, HeapInv, Errors
<1>4. ASSUME ValidBlock(heap, p), NEW a \in Addr, Found(heap, a, r + 1),
             heap' = MoveTo(heap, p, a, r), err' = "SUCCESS"
      PROVE  IInv'
  <2>1. p \in Addr /\ Held(heap, p)
    BY <1>4, HeldIsValid
  <2>2. heap.free[a] /\ r + 1 <= heap.size[a]
    <3>1. heap.free[a] /\ heap.size[a] >= r + 1
      BY <1>4 DEF Found
    <3>2. heap.size[a] \in Int
      BY <1>1, HeapAssumption DEF Consistent, Heap
    <3> QED
      BY <1>1, <3>1, <3>2
  <2>3. /\ Consistent(heap') /\ Keeps(heap, heap', a, p) /\ ~ Held(heap', p)
        /\ heap'.req[a] = r /\ r + 1 <= heap'.size[a]
        /\ Coalescing /\ Separated(heap) => Separated(heap')
    BY <1>1, <1>4, <2>1, <2>2, MoveToOK
  <2>4. Fits(heap')
    BY <1>1, <2>3, FitsKept
  <2> QED
    BY <1>4, <2>3, <2>4 DEF IInv, HeapInv, Errors
<1>5. CASE heap' = heap /\ err' \in Errors
  BY <1>5 DEF IInv, HeapInv
<1> QED
  BY <1>2, <1>3, <1>4, <1>5, ReAllocCases DEF Errors

(* A call keeps the heap sound whatever was called before it.              *)
LEMMA CallInv == HeapInv /\ Next => IInv'
<1> SUFFICES ASSUME HeapInv, Next PROVE IInv'
  OBVIOUS
<1>1. ASSUME NEW r \in 0 .. MaxRequest, Alloc(r) PROVE IInv'
  BY <1>1, AllocInv
<1>2. ASSUME NEW p \in Link, Free(p) PROVE IInv'
  BY <1>2, FreeInv
<1>3. ASSUME NEW p \in Link, NEW r \in 0 .. MaxRequest, NEW inPlaceOnly \in BOOLEAN,
             ReAlloc(p, r, inPlaceOnly)
      PROVE  IInv'
  BY <1>3, ReAllocInv
<1> QED
  BY <1>1, <1>2, <1>3 DEF Next

LEMMA StepInv == IInv /\ [Next]_vars => IInv'
<1>1. IInv /\ UNCHANGED vars => IInv'
  BY DEF IInv, HeapInv, vars
<1> QED
  BY <1>1, CallInv DEF IInv

LEMMA Inductive == Spec => []IInv
<1> QED
  BY InitInv, StepInv, PTL DEF Spec

(* The headers keep their types through every call: no size goes negative  *)
(* or past the heap, and no link leaves the data area.                     *)
THEOREM TypeCorrect == Spec => []TypeOK
<1>1. IInv => TypeOK
  BY DEF IInv, HeapInv, TypeOK, Consistent, Errors
<1> QED
  BY <1>1, Inductive, PTL

(* Alloc, Free and ReAlloc leave blocks that tile the heap, and every      *)
(* request inside its block.                                               *)
THEOREM Tiling == Spec => []BlocksTile
<1>1. IInv => BlocksTile
  BY DEF IInv, HeapInv, BlocksTile, Consistent, Fits, Held, Live, Blocks
<1> QED
  BY <1>1, Inductive, PTL

(* A heap that coalesces never has two free blocks in a row.               *)
THEOREM Coalesced ==
  ASSUME Coalescing
  PROVE  Spec => []NoAdjacentFree
<1>1. IInv => NoAdjacentFree
  BY DEF IInv, HeapInv, NoAdjacentFree, Separated, Blocks, IsFree
<1> QED
  BY <1>1, Inductive, PTL

-----------------------------------------------------------------------------
(* The refinement of Allocator: what a client sees of the heap.            *)
HeldMap(h) == [c \in {b \in Addr : Held(h, b)} |-> h.req[c]]
Others(h, p) == {b \in Addr : Held(h, b)} \ {p}
Handed(h, p, a, r) ==
  [b \in Others(h, p) \cup {a} |-> IF b = a THEN r ELSE HeldMap(h)[b]]

LEMMA LiveIsHeld ==
  /\ [a \in Live |-> heap.req[a]] = HeldMap(heap)
  /\ [a \in Live |-> heap.req[a]]' = HeldMap(heap')
<1>1. Live = {b \in Addr : Held(heap, b)}
  BY DEF Live, Blocks, Held
<1>2. Live' = {b \in Addr : Held(heap', b)}
  BY DEF Live, Blocks, Held
<1> QED
  BY <1>1, <1>2 DEF HeldMap

LEMMA HeldApart ==
  ASSUME NEW h, Consistent(h), Fits(h), NEW a \in Addr, Held(h, a)
  PROVE  /\ h.req[a] \in Int /\ a + h.req[a] < Size
         /\ \A b \in Addr : b # a /\ Held(h, b) => b + h.req[b] < a \/ a + h.req[a] < b
<1>1. \A b \in Addr : /\ b \in Int /\ h.req[b] \in Int /\ h.size[b] \in Int
  BY NullNotAddr, HeapAssumption DEF Consistent, Heap
<1>2. \A b \in Addr : Held(h, b) => h.req[b] + 1 <= h.size[b] /\ h.magic[b]
  BY DEF Fits, Held
<1>3. h.magic[a] /\ a + h.size[a] <= Size
  BY DEF Held, Consistent, Tiled
<1>4. ASSUME NEW b \in Addr, b # a, Held(h, b)
      PROVE  b + h.req[b] < a \/ a + h.req[a] < b
  <2>1. a < b \/ b < a
    BY <1>1, <1>4
  <2>2. a < b => a + h.size[a] <= b
    BY <1>2, <1>3, <1>4 DEF Consistent, Tiled
  <2>3. b < a => b + h.size[b] <= a
    BY <1>2, <1>3, <1>4 DEF Consistent, Tiled
  <2> QED
    BY <1>1, <1>2, <1>4, <2>1, <2>2, <2>3
<1> QED
  BY <1>1, <1>2, <1>3, <1>4, HeapAssumption

(* A step that hands block a to a client for r granules, taking block p    *)
(* back from it (p = a when there is none), is a step of the abstract      *)
(* allocator on the blocks held.                                           *)
LEMMA GivenIsHolding ==
  ASSUME NEW h, NEW g, NEW a \in Addr, NEW p \in Addr, NEW r \in Nat,
         Keeps(h, g, a, p), Held(g, a), g.req[a] = r, p = a \/ ~ Held(g, p),
         Consistent(g), Fits(g)
  PROVE  /\ HeldMap(g) = Handed(h, p, a, r) /\ a + r < Size
         /\ \A b \in Others(h, p) : b # a => b + HeldMap(h)[b] < a \/ a + r < b
<1> DEFINE held == {b \in Addr : Held(h, b)} \ {p}
<1>1. {b \in Addr : Held(g, b)} = held \cup {a}
  BY DEF Keeps
<1>2. \A b \in held : HeldMap(h)[b] = h.req[b]
  BY DEF HeldMap
<1>3. \A b \in held : b # a => g.req[b] = h.req[b] /\ Held(g, b) /\ b \in Addr
  BY DEF Keeps
<1>4. HeldMap(g) = [b \in held \cup {a} |-> g.req[b]]
  BY <1>1 DEF HeldMap
<1>5. HeldMap(g) = [b \in held \cup {a} |-> IF b = a THEN r ELSE HeldMap(h)[b]]
  BY <1>2, <1>3, <1>4
<1>6. a + r < Size
  BY HeldApart
<1>7. \A b \in held : b # a => b + HeldMap(h)[b] < a \/ a + r < b
  BY <1>2, <1>3, HeldApart
<1> QED
  BY <1>5, <1>6, <1>7 DEF Others, Handed

LEMMA GivenAlone ==
  ASSUME NEW h, NEW g, NEW a \in Addr, NEW r \in Nat,
         Keeps(h, g, a, a), Held(g, a), g.req[a] = r, Consistent(g), Fits(g)
  PROVE  /\ HeldMap(g) = Handed(h, a, a, r) /\ a + r < Size
         /\ \A b \in Others(h, a) : b # a => b + HeldMap(h)[b] < a \/ a + r < b
<1>1. PICK p \in Addr : p = a
  OBVIOUS
<1>2. Keeps(h, g, a, p) /\ (p = a \/ ~ Held(g, p))
  BY <1>1
<1>3. /\ HeldMap(g) = Handed(h, p, a, r) /\ a + r < Size
      /\ \A b \in Others(h, p) : b # a => b + HeldMap(h)[b] < a \/ a + r < b
  BY <1>2, GivenIsHolding
<1> QED
  BY <1>1, <1>3

LEMMA RefinesInit == Init => A!Init
<1> SUFFICES ASSUME Init PROVE A!Init
  OBVIOUS
<1>1. heap.magic = [a \in Addr |-> a = 0] /\ heap.free = [a \in Addr |-> a = 0]
  BY DEF Init
<1>2. \A c \in Addr : (heap.magic[c] <=> c = 0) /\ (heap.free[c] <=> c = 0)
  BY <1>1, Zenon
<1>3. Live = {}
  BY <1>2 DEF Live, Blocks
<1>4. [a \in Live |-> heap.req[a]] = [a \in {} |-> 0]
  BY <1>3
<1> QED
  BY <1>4 DEF A!Init, Init

LEMMA RefinesAlloc ==
  ASSUME IInv, IInv', err' # "BLOCK_NOT_FREE", NEW r \in 0 .. MaxRequest, Alloc(r)
  PROVE  A!Alloc(r)
<1>1. r \in Nat /\ Consistent(heap)
  BY HeapAssumption DEF IInv, HeapInv
<1>2. \/ \E a \in Addr : /\ Found(heap, a, r + 1)
                         /\ heap' = TakeBlock(heap, a, r) /\ err' = "SUCCESS"
      \/ heap' = heap /\ err' = "OUT_OF_MEMORY"
  <2> DEFINE a == FirstFit(heap, r + 1)
  <2>1. Found(heap, a, r + 1) => a \in Addr
    BY DEF Found
  <2> QED
    BY <2>1, Zenon DEF Alloc, Fail
<1>3. ASSUME NEW a \in Addr, Found(heap, a, r + 1),
             heap' = TakeBlock(heap, a, r), err' = "SUCCESS"
      PROVE  A!Alloc(r)
  <2>1. a \in Addr /\ heap.free[a] /\ r + 1 <= heap.size[a]
    <3>1. a \in Addr /\ heap.free[a] /\ heap.size[a] >= r + 1
      BY <1>3 DEF Found
    <3>2. heap.size[a] \in Int
      BY <1>1, <3>1, HeapAssumption DEF Consistent, Heap
    <3> QED
      BY <1>1, <3>1, <3>2
  <2>2. /\ Keeps(heap, heap', a, a) /\ Held(heap', a) /\ heap'.req[a] = r
    BY <1>1, <1>3, <2>1, TakeBlockOK
  <2>3. Consistent(heap') /\ Fits(heap')
    BY DEF IInv, HeapInv
  <2>4. /\ HeldMap(heap') = Handed(heap, a, a, r) /\ a + r < Size
        /\ \A b \in Others(heap, a) : b # a => b + HeldMap(heap)[b] < a \/ a + r < b
    <3>1. r \in Nat
      BY <1>1
    <3>2. Keeps(heap, heap', a, a)
      BY <2>2
    <3>3. Held(heap', a)
      BY <2>2
    <3>4. heap'.req[a] = r
      BY <2>2
    <3> QED
      BY <2>3, <3>1, <3>2, <3>3, <3>4, GivenAlone
  <2>5. DOMAIN HeldMap(heap) = Others(heap, a) /\ a \notin Others(heap, a)
    BY <2>1 DEF HeldMap, Held, Others
  <2>6. a \in A!Addr
    BY <2>1 DEF A!Addr, Addr
  <2> QED
    BY <1>3, <2>4, <2>5, <2>6, LiveIsHeld DEF A!Alloc, A!FitsAt, A!Holding, Handed
<1>4. CASE heap' = heap /\ err' = "OUT_OF_MEMORY"
  BY <1>4, LiveIsHeld DEF A!Alloc, A!Refuse
<1> QED
  BY <1>2, <1>3, <1>4

LEMMA RefinesFree ==
  ASSUME IInv, IInv', NEW p \in Link, Free(p)
  PROVE  A!Free(p)
<1>1. DOMAIN HeldMap(heap) = {b \in Addr : Held(heap, b)}
  BY DEF HeldMap
<1>2. ValidBlock(heap, p) <=> p \in DOMAIN HeldMap(heap)
  BY <1>1, HeldIsValid
<1>3. CASE ValidBlock(heap, p) /\ heap' = FreeBlock(heap, p) /\ err' = "SUCCESS"
  <2>1. p \in Addr /\ Held(heap, p) /\ Consistent(heap)
    BY <1>3, HeldIsValid DEF IInv, HeapInv
  <2>2. Keeps(heap, heap', p, p) /\ ~ Held(heap', p)
    BY <1>3, <2>1, FreeBlockOK
  <2>3. {b \in Addr : Held(heap', b)} = {b \in Addr : Held(heap, b)} \ {p}
    BY <2>2 DEF Keeps
  <2>4. \A b \in {b \in Addr : Held(heap', b)} : HeldMap(heap)[b] = heap'.req[b]
    BY <2>2, <2>3 DEF Keeps, HeldMap
  <2>5. HeldMap(heap') = [b \in DOMAIN HeldMap(heap) \ {p} |-> HeldMap(heap)[b]]
    BY <1>1, <2>3, <2>4 DEF HeldMap
  <2> QED
    BY <1>2, <1>3, <2>5, LiveIsHeld DEF A!Free
<1>4. CASE ~ ValidBlock(heap, p) /\ heap' = heap /\ err' \in {"SUCCESS", "INVALID_BLOCK"}
  BY <1>2, <1>4, LiveIsHeld DEF A!Free, A!Refuse
<1>5. Null \notin Addr
  BY NullNotAddr
<1> QED
  BY <1>3, <1>4, <1>5 DEF Free, Fail, ValidBlock

LEMMA RefinesReAlloc ==
  ASSUME IInv, IInv', err' # "BLOCK_NOT_FREE", NEW p \in Link, NEW r \in 0 .. MaxRequest,
         NEW inPlaceOnly \in BOOLEAN, ReAlloc(p, r, inPlaceOnly)
  PROVE  A!ReAlloc(p, r)
<1>1. /\ r \in Nat /\ Consistent(heap) /\ Fits(heap)
      /\ Consistent(heap') /\ Fits(heap')
  BY HeapAssumption DEF IInv, HeapInv
<1>2. DOMAIN HeldMap(heap) = {b \in Addr : Held(heap, b)}
  BY DEF HeldMap
<1>3. ValidBlock(heap, p) <=> p \in DOMAIN HeldMap(heap)
  BY <1>2, HeldIsValid
<1>4. ASSUME ValidBlock(heap, p), Keeps(heap, heap', p, p), Held(heap', p),
             heap'.req[p] = r, err' = "SUCCESS"
      PROVE  A!ReAlloc(p, r)
  <2>1. p \in Addr /\ Held(heap, p)
    BY <1>4, HeldIsValid
  <2>2. /\ HeldMap(heap') = Handed(heap, p, p, r) /\ p + r < Size
        /\ \A b \in Others(heap, p) : b # p => b + HeldMap(heap)[b] < p \/ p + r < b
    BY <1>1, <1>4, <2>1, GivenIsHolding
  <2>3. /\ Others(heap, p) = DOMAIN HeldMap(heap) \ {p} /\ p \notin Others(heap, p)
        /\ Others(heap, p) \cup {p} = DOMAIN HeldMap(heap) \cup {p}
    BY <1>2 DEF Others
  <2> QED
    BY <1>3, <1>4, <2>2, <2>3, LiveIsHeld DEF A!ReAlloc, A!FitsAt, A!Holding, Handed
<1>5. CASE /\ ValidBlock(heap, p) /\ r + 1 <= heap.size[p]
           /\ heap' = Shrunk(heap, p, r) /\ err' = "SUCCESS"
  <2>1. p \in Addr /\ Held(heap, p)
    BY <1>5, HeldIsValid
  <2> QED
    BY <1>1, <1>4, <1>5, <2>1, ShrunkOK
<1>6. CASE /\ ValidBlock(heap, p) /\ r + 1 > heap.size[p] /\ CanGrow(heap, p, r)
           /\ heap' = Grown(heap, p, r) /\ err' = "SUCCESS"
  <2>1. p \in Addr /\ Held(heap, p)
    BY <1>6, HeldIsValid
  <2> QED
    BY <1>1, <1>4, <1>6, <2>1, GrownOK
<1>7. ASSUME ValidBlock(heap, p), NEW a \in Addr, Found(heap, a, r + 1),
             heap' = MoveTo(heap, p, a, r), err' = "SUCCESS"
      PROVE  A!ReAlloc(p, r)
  <2>1. p \in Addr /\ Held(heap, p)
    BY <1>7, HeldIsValid
  <2>2. heap.free[a] /\ r + 1 <= heap.size[a] /\ ~ Held(heap, a)
    <3>1. heap.free[a] /\ heap.size[a] >= r + 1
      BY <1>7 DEF Found
    <3>2. heap.size[a] \in Int
      BY <1>1, HeapAssumption DEF Consistent, Heap
    <3> QED
      BY <1>1, <3>1, <3>2 DEF Held
  <2>3. /\ Keeps(heap, heap', a, p) /\ Held(heap', a) /\ ~ Held(heap', p)
        /\ heap'.req[a] = r
    BY <1>1, <1>7, <2>1, <2>2, MoveToOK
  <2>4. HeldMap(heap') = Handed(heap, p, a, r)
    BY <1>1, <2>1, <2>3, GivenIsHolding
  <2> DEFINE k == TakeBlock(heap, a, r)
  <2>5. /\ Consistent(k) /\ Keeps(heap, k, a, a) /\ Held(k, a) /\ k.req[a] = r
        /\ r + 1 <= k.size[a]
    BY <1>1, <2>2, TakeBlockOK
  <2>6. Fits(k)
    BY <1>1, <2>5, FitsKept
  <2> HIDE DEF k
  <2>7. a + r < Size /\ \A b \in Others(heap, a) : b # a => b + HeldMap(heap)[b] < a \/ a + r < b
    BY <2>5, <2>6, GivenIsHolding
  <2>8. /\ Others(heap, a) = DOMAIN HeldMap(heap) /\ a \notin Others(heap, a)
        /\ Others(heap, p) = DOMAIN HeldMap(heap) \ {p} /\ a \in A!Addr
    BY <1>2, <2>2 DEF A!Addr, Addr, Others
  <2> QED
    BY <1>3, <1>7, <2>4, <2>7, <2>8, LiveIsHeld DEF A!ReAlloc, A!FitsAt, A!Holding, Handed
<1>8. CASE ValidBlock(heap, p) /\ heap' = heap /\ err' = "OUT_OF_MEMORY"
  BY <1>3, <1>8, LiveIsHeld DEF A!ReAlloc, A!Refuse
<1>9. CASE ~ ValidBlock(heap, p) /\ heap' = heap /\ err' = "INVALID_BLOCK"
  BY <1>3, <1>9, LiveIsHeld DEF A!ReAlloc, A!Refuse
<1> QED
  BY <1>5, <1>6, <1>7, <1>8, <1>9, ReAllocCases

(* HeapAlloc has not met a block that is not free in a free chain.         *)
ChainsIntact == err # "BLOCK_NOT_FREE"

LEMMA RefinesStep ==
  IInv /\ IInv' /\ ChainsIntact' /\ [Next]_vars => [A!Next]_(A!vars)
<1> SUFFICES ASSUME IInv, IInv', ChainsIntact', [Next]_vars
             PROVE  [A!Next]_(A!vars)
  OBVIOUS
<1>l. Link = A!Addr \cup {-1}
  BY DEF Link, Addr, Null, A!Addr
<1>z. 0 \in 0 .. MaxRequest
  BY HeapAssumption
<1>1. ASSUME NEW r \in 0 .. MaxRequest, Alloc(r) PROVE A!Next
  BY <1>1, RefinesAlloc DEF A!Next, ChainsIntact
<1>2. ASSUME NEW p \in Link, Free(p) PROVE A!Next
  BY <1>2, <1>l, <1>z, RefinesFree DEF A!Next
<1>3. ASSUME NEW p \in Link, NEW r \in 0 .. MaxRequest, NEW inPlaceOnly \in BOOLEAN,
             ReAlloc(p, r, inPlaceOnly)
      PROVE  A!Next
  BY <1>3, <1>l, RefinesReAlloc DEF A!Next, ChainsIntact
<1>4. CASE UNCHANGED vars
  BY <1>4, LiveIsHeld DEF A!vars, vars
<1> QED
  BY <1>1, <1>2, <1>3, <1>4 DEF Next

(* Every behaviour of the heap in which HeapAlloc does not report a corrupt*)
(* free chain is one of the abstract allocator: the blocks clients hold    *)
(* never overlap, never change but by their holder's own call, and a call  *)
(* that fails changes nothing.                                             *)
LEMMA Refinement == Spec /\ []ChainsIntact => Allocates
<1>1. IInv /\ IInv' /\ ChainsIntact' /\ [Next]_vars => [A!Next]_(A!vars)
  BY RefinesStep
<1>2. Init => A!Init
  BY RefinesInit
<1> QED
  BY <1>1, <1>2, Inductive, PTL DEF Spec, Allocates, A!Spec
-----------------------------------------------------------------------------
(***************************************************************************)
(* What HeapAlloc finds when it walks the free chains of HeapBlocks.  That *)
(* the links mirror each other and never close a loop (LinksOK, part of    *)
(* the invariant) is a fact about single headers; here it becomes one      *)
(* about the sequences that following them yields.                         *)
(***************************************************************************)

(* The walk from every header, as Chain computes it.                       *)
WalkEqn(h, w) ==
  w = [a \in Link |-> IF a = Null THEN << >> ELSE <<a>> \o w[h.fnext[a]]]
Along(h) == CHOOSE w : WalkEqn(h, w)

LEMMA ChainIsAlong == \A h, b : Chain(h, b) = Along(h)[h.head[b]]
  BY DEF Chain, Along, WalkEqn

(* Induction along the links: what holds at the end of the chain, and of a *)
(* header when it holds of the next, holds of every header.                *)
LEMMA LinkInduction ==
  ASSUME NEW f \in [Addr -> Link], NoLoop(f), NEW T, Null \in T,
         \A a \in Addr : f[a] \in T => a \in T
  PROVE  Link \subseteq T
<1> DEFINE S == {a \in Addr : a \notin T}
<1>1. CASE S = {}
  BY <1>1 DEF Link
<1>2. CASE S # {}
  <2>1. PICK a \in S : f[a] \notin S
    BY <1>2 DEF NoLoop
  <2>2. f[a] \in T
    BY <2>1 DEF Link
  <2> QED
    BY <2>1, <2>2
<1> QED
  BY <1>1, <1>2

LEMMA LinkFinite == IsFiniteSet(Link)
<1>1. IsFiniteSet(Addr)
  <2>1. 0 \in Int /\ Size - 1 \in Int
    BY HeapAssumption
  <2>2. IsFiniteSet(0 .. Size - 1)
    BY <2>1, FS_Interval
  <2> QED
    BY <2>2 DEF Addr
<1> QED
  BY <1>1, FS_AddElement DEF Link

(* Every walk ends, so a recursion along the links defines a function: w   *)
(* is v0 at the end of the chain, and at a header what Step makes of w at  *)
(* the next.  The largest set of headers the links do not lead out of, and *)
(* on which such a function exists, is the set of them all.                *)
Recursive(f, V, v0, Step, w) ==
  /\ w \in [Link -> V] /\ w[Null] = v0
  /\ \A a \in Addr : w[a] = Step[a][w[f[a]]]
Partial(f, V, v0, Step, C, w) ==
  /\ C \in SUBSET Link /\ Null \in C /\ \A a \in C : a # Null => f[a] \in C
  /\ w \in [Link -> V] /\ w[Null] = v0
  /\ \A a \in C \ {Null} : w[a] = Step[a][w[f[a]]]

LEMMA PartialGrows ==
  ASSUME NEW f \in [Addr -> Link], NEW V, NEW v0, NEW Step \in [Addr -> [V -> V]],
         NEW C, NEW w, Partial(f, V, v0, Step, C, w),
         NEW a \in Addr, a \notin C, f[a] \in C
  PROVE  \E v : Partial(f, V, v0, Step, C \cup {a}, v)
<1> DEFINE v == [w EXCEPT ![a] = Step[a][w[f[a]]]]
<1>1. /\ C \in SUBSET Link /\ Null \in C /\ w \in [Link -> V] /\ a \in Link /\ a # Null
      /\ w[Null] = v0
  BY NullNotAddr DEF Partial, Link
<1>2. Step[a][w[f[a]]] \in V
  BY <1>1
<1>3. v \in [Link -> V] /\ v[Null] = v0
  BY <1>1, <1>2 DEF Link
<1>4. v[a] = Step[a][v[f[a]]]
  BY <1>1
<1>5. ASSUME NEW c \in C \ {Null}
      PROVE  v[c] = Step[c][v[f[c]]]
  <2>1. /\ c # a /\ c \in Link /\ w[c] = Step[c][w[f[c]]]
        /\ f[c] \in C /\ f[c] # a /\ f[c] \in Link
    BY <1>1 DEF Partial
  <2> QED
    BY <1>1, <2>1
<1> HIDE DEF v
<1>6. Partial(f, V, v0, Step, C \cup {a}, v)
  BY <1>1, <1>3, <1>4, <1>5 DEF Partial
<1> QED
  BY <1>6

LEMMA LinkRecursion ==
  ASSUME NEW f \in [Addr -> Link], NoLoop(f),
         NEW V, NEW v0 \in V, NEW Step \in [Addr -> [V -> V]]
  PROVE  \E w : Recursive(f, V, v0, Step, w)
<1> DEFINE Good == {C \in SUBSET Link : \E w : Partial(f, V, v0, Step, C, w)}
           Sizes == {Cardinality(Link \ C) : C \in Good}
<1>1. {Null} \in Good
  <2>1. Partial(f, V, v0, Step, {Null}, [a \in Link |-> v0])
    BY DEF Partial, Link
  <2> QED
    BY <2>1 DEF Link
<1>2. ASSUME NEW C \in Good
      PROVE  IsFiniteSet(Link \ C) /\ Cardinality(Link \ C) \in Nat
  BY LinkFinite, FS_Subset, FS_CardinalityType
<1>3. Sizes \in SUBSET Nat /\ Sizes # {}
  BY <1>1, <1>2
<1>4. PICK C \in Good : \A D \in Good : Cardinality(Link \ C) <= Cardinality(Link \ D)
  <2> HIDE DEF Good
  <2>1. PICK n \in Sizes : \A m \in Sizes : n <= m
    BY <1>3, LeastNat
  <2> QED
    BY <2>1
<1>5. PICK w : Partial(f, V, v0, Step, C, w)
  OBVIOUS
<1>6. Link \ C = {}
  <2> SUFFICES ASSUME Link \ C # {} PROVE FALSE
    OBVIOUS
  <2>1. Link \ C \in SUBSET Addr
    BY <1>5 DEF Partial, Link
  <2>2. PICK a \in Link \ C : f[a] \notin Link \ C
    BY <2>1 DEF NoLoop
  <2>3. a \in Addr /\ a \notin C /\ f[a] \in C
    BY <2>1, <2>2
  <2>4. C \cup {a} \in Good
    BY <1>5, <2>3, PartialGrows DEF Link
  <2>5. Link \ (C \cup {a}) = (Link \ C) \ {a}
    OBVIOUS
  <2> DEFINE R == Link \ C
  <2>6. IsFiniteSet(R) /\ Cardinality(R) \in Nat /\ a \in R
    BY <1>2
  <2> HIDE DEF R
  <2>7. Cardinality(R \ {a}) = Cardinality(R) - 1
    BY <2>6, FS_RemoveElement
  <2> HIDE DEF Good
  <2>8. Cardinality(Link \ C) <= Cardinality(Link \ (C \cup {a}))
    BY <1>4, <2>4
  <2>9. Cardinality(R) <= Cardinality(R \ {a})
    BY <2>5, <2>8 DEF R
  <2> QED
    BY <2>6, <2>7, <2>9
<1>7. C = Link
  BY <1>5, <1>6 DEF Partial
<1>8. Recursive(f, V, v0, Step, w)
  BY <1>5, <1>7, NullNotAddr DEF Partial, Recursive, Link
<1> QED
  BY <1>8

(* The recursion of Chain is one of these.                                 *)
LEMMA WalkExists ==
  ASSUME NEW h, h.fnext \in [Addr -> Link], NoLoop(h.fnext)
  PROVE  \E w \in [Link -> Seq(Addr)] : WalkEqn(h, w)
<1> DEFINE Step == [a \in Addr |-> [s \in Seq(Addr) |-> <<a>> \o s]]
<1>1. Step \in [Addr -> [Seq(Addr) -> Seq(Addr)]]
  <2>1. ASSUME NEW a \in Addr, NEW s \in Seq(Addr) PROVE <<a>> \o s \in Seq(Addr)
    BY ConcatProperties
  <2> QED
    BY <2>1
<1>2. << >> \in Seq(Addr)
  OBVIOUS
<1> HIDE DEF Step
<1>3. PICK w : Recursive(h.fnext, Seq(Addr), << >>, Step, w)
  BY <1>1, <1>2, LinkRecursion
<1>4. ASSUME NEW a \in Addr PROVE w[a] = <<a>> \o w[h.fnext[a]]
  BY <1>3 DEF Recursive, Step
<1>5. w \in [Link -> Seq(Addr)] /\ w[Null] = << >>
  BY <1>3 DEF Recursive
<1>6. WalkEqn(h, w)
  BY <1>4, <1>5, NullNotAddr DEF WalkEqn, Link
<1> QED
  BY <1>5, <1>6

LEMMA WalkFacts ==
  ASSUME NEW h, h.fnext \in [Addr -> Link], NoLoop(h.fnext)
  PROVE  /\ Along(h) \in [Link -> Seq(Addr)]
         /\ Along(h)[Null] = << >>
         /\ \A a \in Addr : Along(h)[a] = <<a>> \o Along(h)[h.fnext[a]]
<1> DEFINE W == Along(h)
<1>1. WalkEqn(h, W)
  BY WalkExists DEF Along
<1> HIDE DEF W
<1>2. /\ DOMAIN W = Link /\ W = [a \in Link |-> W[a]] /\ W[Null] = << >>
      /\ \A a \in Addr : W[a] = <<a>> \o W[h.fnext[a]]
  BY <1>1, NullNotAddr DEF WalkEqn, Link
<1> DEFINE T == {a \in Link : W[a] \in Seq(Addr)}
<1>3. Null \in T
  BY <1>2 DEF Link
<1>4. ASSUME NEW a \in Addr, h.fnext[a] \in T PROVE a \in T
  <2>1. <<a>> \in Seq(Addr) /\ W[h.fnext[a]] \in Seq(Addr)
    BY <1>4
  <2>2. <<a>> \o W[h.fnext[a]] \in Seq(Addr)
    BY <2>1, ConcatProperties
  <2>3. W[a] \in Seq(Addr)
    BY <1>2, <2>2
  <2> QED
    BY <2>3 DEF Link
<1> HIDE DEF T
<1>5. Link \subseteq T
  BY <1>3, <1>4, LinkInduction
<1>6. W \in [Link -> Seq(Addr)]
  BY <1>2, <1>5 DEF T
<1> QED
  BY <1>2, <1>6 DEF W

(* A chain from some block of bucket b on: free blocks of that bucket, each*)
(* linked to the next one, the last one to none.                           *)
Linking(h, F, s, b) ==
  /\ s \in Seq(F)
  /\ \A i \in 1 .. Len(s) : /\ Bucket(h.req[s[i]]) = b
                            /\ h.fnext[s[i]] = IF i = Len(s) THEN Null ELSE s[i + 1]

LEMMA WalkLinks ==
  ASSUME NEW h \in Heap, NEW F \in SUBSET Addr, LinksOK(h, F), NEW a \in F
  PROVE  /\ Linking(h, F, Along(h)[a], Bucket(h.req[a]))
         /\ Len(Along(h)[a]) >= 1 /\ Along(h)[a][1] = a
<1> DEFINE W == Along(h)
           Good(c) == /\ Linking(h, F, W[c], Bucket(h.req[c]))
                      /\ Len(W[c]) >= 1 /\ W[c][1] = c
           T == {c \in Link : c \in F => Good(c)}
<1>1. h.fnext \in [Addr -> Link] /\ NoLoop(h.fnext) /\ Mirrored(h, F) /\ Null \notin F
  BY NullNotAddr DEF LinksOK, Heap
<1>2. /\ W \in [Link -> Seq(Addr)] /\ W[Null] = << >>
      /\ \A c \in Addr : W[c] = <<c>> \o W[h.fnext[c]]
  BY <1>1, WalkFacts
<1> HIDE DEF W
<1>3. Null \in T
  BY <1>1 DEF Link
<1>4. ASSUME NEW c \in Addr, h.fnext[c] \in T
      PROVE  c \in T
  <2> SUFFICES ASSUME c \in F PROVE Good(c)
    BY DEF Link
  <2> DEFINE n == h.fnext[c]
             t == W[n]
             b == Bucket(h.req[c])
  <2>1. W[c] = <<c>> \o t
    BY <1>2
  <2>2. n # Null => n \in F /\ Bucket(h.req[n]) = b
    BY <1>1 DEF Mirrored
  <2>3. Linking(h, F, t, b) /\ (n = Null => t = << >>) /\ (n # Null => Len(t) >= 1 /\ t[1] = n)
    <3>1. CASE n = Null
      <4>1. t = << >>
        BY <1>2, <3>1
      <4> HIDE DEF t, n, b
      <4>2. Linking(h, F, t, b)
        BY <4>1, EmptySeq DEF Linking
      <4> QED
        BY <3>1, <4>1, <4>2
    <3>2. CASE n # Null
      BY <1>4, <2>2, <3>2
    <3> QED
      BY <3>1, <3>2
  <2>4. <<c>> \in Seq(F) /\ t \in Seq(F) /\ Len(<<c>>) = 1 /\ <<c>>[1] = c /\ Len(t) \in Nat
    BY <2>3 DEF Linking
  <2> HIDE DEF t, n, b
  <2>5. /\ W[c] \in Seq(F) /\ Len(W[c]) = Len(t) + 1 /\ W[c][1] = c
        /\ \A i \in 1 .. Len(t) : W[c][i + 1] = t[i]
    <3>1. /\ <<c>> \o t \in Seq(F) /\ Len(<<c>> \o t) = 1 + Len(t)
          /\ \A i \in 1 .. 1 + Len(t) :
               (<<c>> \o t)[i] = IF i <= 1 THEN <<c>>[i] ELSE t[i - 1]
      BY <2>4, ConcatProperties
    <3>2. ASSUME NEW i \in 1 .. Len(t) PROVE (<<c>> \o t)[i + 1] = t[i]
      <4>1. i + 1 \in 1 .. 1 + Len(t) /\ ~ (i + 1 <= 1) /\ (i + 1) - 1 = i
        BY <2>4
      <4> QED
        BY <3>1, <4>1
    <3> QED
      BY <2>1, <2>4, <3>1, <3>2
  <2>6. ASSUME NEW i \in 1 .. Len(W[c])
        PROVE  /\ Bucket(h.req[W[c][i]]) = b
               /\ h.fnext[W[c][i]] = IF i = Len(W[c]) THEN Null ELSE W[c][i + 1]
    <3>1. CASE i = 1
      <4>1. h.fnext[W[c][i]] = n /\ Bucket(h.req[W[c][i]]) = b
        BY <2>5, <3>1 DEF n, b
      <4>2. CASE n = Null
        BY <2>3, <2>4, <2>5, <3>1, <4>1, <4>2
      <4>3. CASE n # Null
        <5>1. i # Len(W[c]) /\ 1 \in 1 .. Len(t)
          BY <2>3, <2>4, <2>5, <3>1, <4>3
        <5>2. W[c][i + 1] = n
          BY <2>3, <2>5, <3>1, <4>3, <5>1
        <5> QED
          BY <4>1, <5>1, <5>2
      <4> QED
        BY <4>2, <4>3
    <3>2. CASE i # 1
      <4>1. PICK j \in 1 .. Len(t) : i = j + 1
        <5>1. i - 1 \in 1 .. Len(t) /\ i = (i - 1) + 1
          BY <2>4, <2>5, <3>2
        <5> QED
          BY <5>1
      <4>2. W[c][i] = t[j] /\ (j # Len(t) => j + 1 \in 1 .. Len(t))
        BY <2>4, <2>5, <4>1
      <4>3. /\ Bucket(h.req[t[j]]) = b
            /\ h.fnext[t[j]] = IF j = Len(t) THEN Null ELSE t[j + 1]
        BY <2>3 DEF Linking
      <4>4. j # Len(t) => W[c][i + 1] = t[j + 1]
        BY <2>5, <4>1, <4>2
      <4>5. i = Len(W[c]) <=> j = Len(t)
        BY <2>4, <2>5, <4>1
      <4> QED
        BY <4>2, <4>3, <4>4, <4>5
    <3> QED
      BY <3>1, <3>2
  <2>7. Len(W[c]) >= 1
    BY <2>4, <2>5
  <2> QED
    BY <2>5, <2>6, <2>7 DEF Linking, b
<1> HIDE DEF T
<1>5. Link \subseteq T
  BY <1>1, <1>3, <1>4, LinkInduction
<1>6. a \in T
  BY <1>5 DEF Link
<1> QED
  BY <1>6 DEF T, W

(* The chain of bucket b: its blocks are free and of that bucket, the back *)
(* links mirror the order, no block occurs twice, and none is missing.     *)
ChainExact(h, F, b) ==
  LET s == Chain(h, b)
  IN  /\ Linking(h, F, s, b)
      /\ \A i \in 1 .. Len(s) : h.fprev[s[i]] = IF i = 1 THEN Null ELSE s[i - 1]

LEMMA ChainsExact ==
  ASSUME NEW h \in Heap, NEW F \in SUBSET Addr, LinksOK(h, F), NEW b \in Buckets
  PROVE  ChainExact(h, F, b)
<1> DEFINE s == Chain(h, b)
           a == h.head[b]
<1>1. /\ h.fnext \in [Addr -> Link] /\ NoLoop(h.fnext) /\ Mirrored(h, F) /\ Null \notin F
      /\ s = Along(h)[a]
  BY NullNotAddr, ChainIsAlong DEF LinksOK, Heap
<1>2. CASE a = Null
  <2>1. s = << >>
    BY <1>1, <1>2, WalkFacts
  <2> QED
    BY <2>1 DEF ChainExact, Linking
<1>3. CASE a # Null
  <2>1. a \in F /\ h.fprev[a] = Null /\ Bucket(h.req[a]) = b
    BY <1>1, <1>3 DEF Mirrored
  <2>2. Linking(h, F, s, b) /\ Len(s) >= 1 /\ s[1] = a
    BY <1>1, <2>1, WalkLinks
  <2> HIDE DEF s, a
  <2>3. s \in Seq(F) /\ Len(s) \in Nat /\ \A i \in 1 .. Len(s) : s[i] \in F
    BY <2>2 DEF Linking
  <2>4. ASSUME NEW i \in 1 .. Len(s), i # 1
        PROVE  h.fprev[s[i]] = s[i - 1]
    <3>1. i - 1 \in 1 .. Len(s) /\ i - 1 # Len(s) /\ (i - 1) + 1 = i
      BY <2>3, <2>4
    <3>2. s[i - 1] \in F /\ s[i] \in F /\ h.fnext[s[i - 1]] = s[i] /\ s[i] # Null
      BY <1>1, <2>2, <2>3, <3>1 DEF Linking
    <3> QED
      BY <1>1, <3>2 DEF Mirrored
  <2> QED
    BY <2>1, <2>2, <2>4 DEF ChainExact, s
<1> QED
  BY <1>2, <1>3

LEMMA ChainOnce ==
  ASSUME NEW h, NEW F, NEW b, Null \notin F, ChainExact(h, F, b)
  PROVE  Once(Chain(h, b))
<1> DEFINE s == Chain(h, b)
           Twice(i) == \E j \in 1 .. Len(s) : j > i /\ s[j] = s[i]
           S == {i \in 1 .. Len(s) : Twice(i)}
<1>1. /\ s \in Seq(F) /\ Len(s) \in Nat /\ DOMAIN s = 1 .. Len(s)
      /\ \A i \in 1 .. Len(s) : /\ s[i] \in F
                                /\ h.fprev[s[i]] = IF i = 1 THEN Null ELSE s[i - 1]
  BY DEF ChainExact, Linking
<1> HIDE DEF s
<1>2. ASSUME S # {} PROVE FALSE
  <2>1. S \in SUBSET Nat
    BY <1>1
  <2>2. PICK i \in S : \A k \in S : i <= k
    <3> HIDE DEF S
    <3> QED
      BY <1>2, <2>1, LeastNat
  <2>3. PICK j \in 1 .. Len(s) : j > i /\ s[j] = s[i]
    OBVIOUS
  <2>4. i \in 1 .. Len(s) /\ j # 1 /\ j - 1 \in 1 .. Len(s) /\ s[j - 1] \in F
    BY <1>1, <2>3
  <2>5. i # 1
    BY <1>1, <2>3, <2>4
  <2>6. i - 1 \in 1 .. Len(s) /\ s[i - 1] = s[j - 1] /\ j - 1 > i - 1
    BY <1>1, <2>3, <2>4, <2>5
  <2>7. i - 1 \in S
    BY <2>4, <2>6
  <2> QED
    BY <2>2, <2>4, <2>7
<1>3. ASSUME NEW i \in 1 .. Len(s), NEW j \in 1 .. Len(s), s[i] = s[j], i # j
      PROVE  FALSE
  <2>1. CASE i < j
    BY <1>1, <1>2, <1>3, <2>1
  <2>2. CASE i > j
    BY <1>1, <1>2, <1>3, <2>2
  <2> QED
    BY <1>1, <1>3, <2>1, <2>2
<1> QED
  BY <1>1, <1>3 DEF Once, s

(* No free block is lost: following its back links ends at a head.         *)
LEMMA ChainComplete ==
  ASSUME NEW h \in Heap, NEW F \in SUBSET Addr, LinksOK(h, F), NEW a \in F
  PROVE  Holds(Chain(h, Bucket(h.req[a])), a)
<1> DEFINE In(c) == Holds(Chain(h, Bucket(h.req[c])), c)
           T == {c \in Link : c \in F => In(c)}
<1>1. /\ h.fprev \in [Addr -> Link] /\ NoLoop(h.fprev) /\ Mirrored(h, F) /\ Null \notin F
  BY NullNotAddr DEF LinksOK, Heap
<1>2. Null \in T
  BY <1>1 DEF Link
<1>3. ASSUME NEW c \in Addr, h.fprev[c] \in T
      PROVE  c \in T
  <2> SUFFICES ASSUME c \in F PROVE In(c)
    BY DEF Link
  <2> DEFINE b == Bucket(h.req[c])
             s == Chain(h, b)
             p == h.fprev[c]
  <2>1. b \in Buckets
    BY ReqBucket
  <2>2. ChainExact(h, F, b)
    BY <2>1, ChainsExact
  <2>3. s \in Seq(F) /\ Len(s) \in Nat /\ DOMAIN s = 1 .. Len(s)
    BY <2>2 DEF ChainExact, Linking
  <2>4. CASE p = Null
    <3>1. h.head[b] = c
      BY <1>1, <2>4 DEF Mirrored
    <3>2. Len(Along(h)[c]) >= 1 /\ Along(h)[c][1] = c
      BY WalkLinks
    <3>3. s = Along(h)[c]
      BY <3>1, ChainIsAlong
    <3> QED
      BY <2>3, <3>2, <3>3 DEF Holds
  <2>5. CASE p # Null
    <3>1. p \in F /\ h.fnext[p] = c /\ Bucket(h.req[p]) = b
      BY <1>1, <2>5 DEF Mirrored
    <3>2. Holds(s, p)
      BY <1>3, <3>1
    <3> HIDE DEF s, b, p
    <3>3. PICK i \in 1 .. Len(s) : s[i] = p
      BY <2>3, <3>2 DEF Holds
    <3>4. h.fnext[s[i]] = IF i = Len(s) THEN Null ELSE s[i + 1]
      BY <2>2 DEF ChainExact, Linking, s
    <3>5. i # Len(s) /\ s[i + 1] = c
      BY <1>1, <3>1, <3>3, <3>4
    <3>6. i + 1 \in 1 .. Len(s)
      <4>1. Len(s) \in Nat /\ i # Len(s)
        BY <2>3, <3>5
      <4> QED
        BY <4>1
    <3> QED
      BY <2>3, <3>5, <3>6 DEF Holds, s, b
  <2> QED
    BY <2>4, <2>5
<1> HIDE DEF T
<1>4. Link \subseteq T
  BY <1>1, <1>2, <1>3, LinkInduction
<1>5. a \in T
  BY <1>4 DEF Link
<1> QED
  BY <1>5 DEF T

(* What HeapAlloc looks at for d data granules: each free block of the     *)
(* buckets from that of d on, once.                                        *)
LEMMA ScanExact ==
  ASSUME NEW h \in Heap, NEW F \in SUBSET Addr, LinksOK(h, F), NEW d \in Int
  PROVE  /\ Scan(h, d) \in Seq(F) /\ Once(Scan(h, d))
         /\ \A a \in F : Holds(Scan(h, d), a) <=> Bucket(h.req[a]) >= Bucket(d)
<1> DEFINE n == 10 - Bucket(d)
           s == [i \in 1 .. n |-> Chain(h, Bucket(d) + i - 1)]
<1>1. Bucket(d) \in Buckets /\ n \in Nat \ {0} /\ Null \notin F
  <2>1. Bucket(d) \in 0 .. 9
    BY BucketType DEF Buckets
  <2>2. Null \notin F
    BY NullNotAddr
  <2> QED
    BY <2>1, <2>2 DEF Buckets
<1>2. ASSUME NEW i \in 1 .. n
      PROVE  /\ Bucket(d) + i - 1 \in Buckets /\ s[i] = Chain(h, Bucket(d) + i - 1)
             /\ ChainExact(h, F, Bucket(d) + i - 1)
  <2>1. Bucket(d) + i - 1 \in Buckets
    BY <1>1 DEF Buckets
  <2> QED
    BY <2>1, ChainsExact
<1>3. ASSUME NEW i \in 1 .. n, NEW x, Holds(s[i], x)
      PROVE  x \in F /\ Bucket(h.req[x]) = Bucket(d) + i - 1
  BY <1>2, <1>3 DEF Holds, ChainExact, Linking
<1>4. s \in [1 .. n -> Seq(F)] /\ \A i \in 1 .. n : Once(s[i])
  <2>1. ASSUME NEW i \in 1 .. n
        PROVE  Chain(h, Bucket(d) + i - 1) \in Seq(F) /\ Once(Chain(h, Bucket(d) + i - 1))
    <3>1. ChainExact(h, F, Bucket(d) + i - 1)
      BY <1>2
    <3> QED
      BY <1>1, <3>1, ChainOnce DEF ChainExact, Linking
  <2> QED
    BY <2>1
<1>5. Disjoint(s, n)
  <2>1. ASSUME NEW i \in 1 .. n, NEW j \in 1 .. n, i # j, NEW x, Holds(s[i], x), Holds(s[j], x)
        PROVE  FALSE
    <3>1. Bucket(d) + i - 1 = Bucket(d) + j - 1
      BY <1>3, <2>1
    <3> QED
      BY <1>1, <2>1, <3>1 DEF Buckets
  <2> QED
    BY <1>4, <2>1 DEF Disjoint
<1>6. Scan(h, d) = FlattenSeq(s)
  BY DEF Scan
<1>7. ASSUME NEW a \in F
      PROVE  (\E i \in 1 .. n : Holds(s[i], a)) <=> Bucket(h.req[a]) >= Bucket(d)
  <2>1. Bucket(h.req[a]) \in Buckets
    BY ReqBucket
  <2>2. ASSUME NEW i \in 1 .. n, Holds(s[i], a) PROVE Bucket(h.req[a]) >= Bucket(d)
    <3>1. Bucket(h.req[a]) = Bucket(d) + i - 1
      BY <1>3, <2>2
    <3> QED
      BY <1>1, <3>1 DEF Buckets
  <2>3. ASSUME Bucket(h.req[a]) >= Bucket(d) PROVE \E i \in 1 .. n : Holds(s[i], a)
    <3>1. PICK i \in 1 .. n : Bucket(h.req[a]) = Bucket(d) + i - 1
      <4> DEFINE k == Bucket(h.req[a]) - Bucket(d) + 1
      <4>1. k \in 1 .. n /\ Bucket(h.req[a]) = Bucket(d) + k - 1
        BY <1>1, <2>1, <2>3 DEF Buckets
      <4> QED
        BY <4>1
    <3>2. Holds(Chain(h, Bucket(h.req[a])), a)
      BY ChainComplete
    <3> QED
      BY <1>2, <3>1, <3>2
  <2> QED
    BY <2>2, <2>3
<1> HIDE DEF s, n
<1>8. /\ FlattenSeq(s) \in Seq(F) /\ Once(FlattenSeq(s))
      /\ \A x : Holds(FlattenSeq(s), x) <=> \E i \in 1 .. n : Holds(s[i], x)
  BY <1>1, <1>4, <1>5, Flattened
<1> QED
  BY <1>6, <1>7, <1>8

LEMMA BucketMonotone ==
  ASSUME NEW d \in Int, NEW e \in Int, d <= e
  PROVE  Bucket(d) <= Bucket(e)
  BY DEF Bucket

(* HeapAlloc returns a block that is free and large enough, whenever one   *)
(* exists, and meets no block that is not free on its way.                 *)
LEMMA FirstFitExact ==
  ASSUME NEW h, Consistent(h), NEW n \in Nat \ {0}
  PROVE  /\ FirstFit(h, n) # Null => Found(h, FirstFit(h, n), n)
         /\ FirstFit(h, n) = Null => \A a \in Addr : h.free[a] => h.size[a] < n
<1> DEFINE s == Scan(h, n - 1)
           hits == {i \in DOMAIN s : ~ h.free[s[i]] \/ h.size[s[i]] >= n}
           F == FreeSet(h)
<1>1. /\ h \in Heap /\ LinksOK(h, F) /\ F \in SUBSET Addr /\ n - 1 \in Int /\ Null \notin Addr
      /\ \A a \in F : /\ a \in Addr /\ h.free[a] /\ h.req[a] = h.size[a] - 1
                      /\ h.size[a] \in Int /\ h.req[a] \in Int
  BY HeapAssumption, NullNotAddr DEF Consistent, FreeSet, Heap
<1>2. /\ s \in Seq(F) /\ DOMAIN s = 1 .. Len(s) /\ Len(s) \in Nat
      /\ \A i \in DOMAIN s : s[i] \in F
  <2>1. s \in Seq(F)
    BY <1>1, ScanExact
  <2> HIDE DEF s
  <2> QED
    BY <2>1
<1>3. \A a \in F : Holds(s, a) <=> Bucket(h.req[a]) >= Bucket(n - 1)
  BY <1>1, ScanExact
<1>4. FirstFit(h, n) = IF hits = {} THEN Null ELSE s[Min(hits)]
  BY DEF FirstFit
<1> HIDE DEF s
<1>5. CASE hits = {}
  <2>1. ASSUME NEW a \in Addr, h.free[a], h.size[a] >= n
        PROVE  FALSE
    <3>1. a \in F /\ h.req[a] \in Int /\ n - 1 <= h.req[a]
      <4>1. a \in F
        BY <2>1 DEF FreeSet
      <4> QED
        BY <1>1, <2>1, <4>1
    <3>2. /\ Bucket(n - 1) <= Bucket(h.req[a])
          /\ Bucket(n - 1) \in Int /\ Bucket(h.req[a]) \in Int
      BY <1>1, <3>1, BucketMonotone, BucketType DEF Buckets
    <3>3. Holds(s, a)
      BY <1>3, <3>1, <3>2
    <3> QED
      BY <1>5, <2>1, <3>3 DEF Holds
  <2>2. FirstFit(h, n) = Null
    BY <1>4, <1>5
  <2>3. ASSUME NEW a \in Addr, h.free[a] PROVE h.size[a] < n
    <3>1. h.size[a] \in Int
      BY <1>1, HeapAssumption DEF Heap
    <3> QED
      BY <2>1, <2>3, <3>1
  <2> QED
    BY <2>2, <2>3
<1>6. CASE hits # {}
  <2>1. hits \in SUBSET Nat
    BY <1>2
  <2> HIDE DEF hits
  <2>2. \E i \in hits : \A j \in hits : i <= j
    BY <1>6, <2>1, LeastNat
  <2>3. Min(hits) \in hits
    BY <2>2 DEF Min
  <2>4. PICK i \in hits : FirstFit(h, n) = s[i]
    BY <1>4, <1>6, <2>3
  <2>5. s[i] \in F /\ (~ h.free[s[i]] \/ h.size[s[i]] >= n)
    BY <1>2, <2>4 DEF hits
  <2>6. s[i] \in Addr /\ h.free[s[i]] /\ s[i] # Null
    BY <1>1, <2>5
  <2> QED
    BY <2>4, <2>5, <2>6 DEF Found
<1> QED
  BY <1>5, <1>6
-----------------------------------------------------------------------------
(* Walking the buckets as HeapAlloc does visits every free block exactly   *)
(* once, in the bucket of its size, with matching back links, and no other *)
(* header: no free block is lost to the allocator, none is offered twice.  *)
THEOREM FreeListsAreExact == Spec => []FreeListsExact
<1>1. IInv => FreeListsExact
  <2> SUFFICES ASSUME IInv PROVE FreeListsExact
    OBVIOUS
  <2> DEFINE F == FreeSet(heap)
  <2>1. /\ heap \in Heap /\ LinksOK(heap, F) /\ F \in SUBSET Addr
        /\ \A a \in F : heap.magic[a] /\ heap.free[a] /\ heap.req[a] = heap.size[a] - 1
    BY DEF IInv, HeapInv, Consistent, FreeSet
  <2>2. ASSUME NEW b \in Buckets, NEW i \in DOMAIN Chain(heap, b)
        PROVE  LET a == Chain(heap, b)[i]
               IN  /\ a \in Blocks /\ heap.free[a]
                   /\ heap.req[a] = heap.size[a] - 1 /\ Bucket(heap.req[a]) = b
                   /\ heap.fprev[a] = IF i = 1 THEN Null ELSE Chain(heap, b)[i - 1]
    <3> DEFINE s == Chain(heap, b)
    <3>1. ChainExact(heap, F, b)
      BY <2>1, ChainsExact
    <3>2. /\ s \in Seq(F) /\ i \in 1 .. Len(s) /\ s[i] \in F
          /\ Bucket(heap.req[s[i]]) = b
          /\ heap.fprev[s[i]] = IF i = 1 THEN Null ELSE s[i - 1]
      BY <2>2, <3>1 DEF ChainExact, Linking
    <3> HIDE DEF s
    <3>3. s[i] \in Addr /\ heap.magic[s[i]]
      BY <2>1, <3>2
    <3>4. s[i] \in Blocks
      BY <3>3 DEF Blocks
    <3> QED
      BY <2>1, <3>2, <3>4 DEF s
  <2>3. ASSUME NEW a \in Addr
        PROVE  IF heap.free[a]
               THEN Cardinality({i \in 1 .. Len(Scan(heap, 0)) : Scan(heap, 0)[i] = a}) = 1
               ELSE heap.fprev[a] = Null /\ heap.fnext[a] = Null
    <3>1. CASE heap.free[a]
      <4> DEFINE s == Scan(heap, 0)
                 I == {i \in 1 .. Len(s) : s[i] = a}
      <4>1. a \in F /\ Bucket(heap.req[a]) >= Bucket(0)
        <5>1. a \in F /\ Bucket(heap.req[a]) \in Buckets
          BY <2>1, <3>1, ReqBucket DEF FreeSet
        <5> QED
          BY <5>1 DEF Bucket, Buckets
      <4>2. s \in Seq(F) /\ Once(s) /\ Holds(s, a)
        BY <2>1, <4>1, ScanExact
      <4> HIDE DEF s
      <4>3. PICK i \in 1 .. Len(s) : s[i] = a
        BY <4>2 DEF Holds
      <4>4. I = {i}
        BY <4>2, <4>3 DEF Once
      <4>5. Cardinality(I) = 1
        BY <4>4, FS_Singleton
      <4> QED
        BY <3>1, <4>5 DEF s
    <3>2. CASE ~ heap.free[a]
      BY <2>1, <3>2 DEF LinksOK, Mirrored, FreeSet
    <3> QED
      BY <3>1, <3>2
  <2> QED
    BY <2>2, <2>3 DEF FreeListsExact
<1> QED
  BY <1>1, Inductive, PTL

(* HeapAlloc never reports a corrupt free chain (BLOCK_NOT_FREE): the check*)
(* it makes on every block it walks over cannot fail.                      *)
LEMMA ScanIsClean == IInv /\ ChainsIntact /\ [Next]_vars => ChainsIntact'
<1> SUFFICES ASSUME IInv, ChainsIntact, [Next]_vars PROVE ChainsIntact'
  OBVIOUS
<1>1. ASSUME NEW r \in 0 .. MaxRequest
      PROVE  LET a == FirstFit(heap, r + 1) IN a # Null => Found(heap, a, r + 1)
  <2>1. r + 1 \in Nat \ {0} /\ Consistent(heap)
    BY HeapAssumption DEF IInv, HeapInv
  <2> QED
    BY <2>1, FirstFitExact
<1>2. ASSUME NEW r \in 0 .. MaxRequest, Alloc(r) PROVE ChainsIntact'
  BY <1>1, <1>2 DEF Alloc, Fail, ChainsIntact
<1>3. ASSUME NEW p \in Link, Free(p) PROVE ChainsIntact'
  BY <1>3 DEF Free, Fail, ChainsIntact
<1>4. ASSUME NEW p \in Link, NEW r \in 0 .. MaxRequest, NEW inPlaceOnly \in BOOLEAN,
             ReAlloc(p, r, inPlaceOnly)
      PROVE  ChainsIntact'
  BY <1>1, <1>4 DEF ReAlloc, Fail, ChainsIntact
<1>5. CASE UNCHANGED vars
  BY <1>5 DEF vars, ChainsIntact
<1> QED
  BY <1>2, <1>3, <1>4, <1>5 DEF Next

(* HeapAlloc never meets an allocated block in a free chain, whatever      *)
(* clients free or resize, twice or at an address that never was a block.  *)
THEOREM ChainsStayIntact == Spec => []ChainsIntact
<1>1. Init => ChainsIntact
  BY DEF Init, ChainsIntact
<1> QED
  BY <1>1, ScanIsClean, Inductive, PTL DEF Spec

(* Every behaviour of the heap is one of the abstract allocator: the blocks*)
(* that clients hold never overlap, never change but by their holder's own *)
(* call, and a call that fails changes nothing.                            *)
THEOREM Implements == Spec => Allocates
  BY ChainsStayIntact, Refinement, PTL

(* Where no two free blocks are adjacent, HeapAlloc refuses a request only *)
(* when no gap between the blocks that clients hold has room for it and    *)
(* its header.                                                             *)
LEMMA RefusedMeansFull ==
  ASSUME Consistent(heap), Separated(heap), NEW n \in Nat \ {0}, FirstFit(heap, n) = Null
  PROVE  ~ Room(n)
<1> SUFFICES ASSUME NEW a \in 0 .. Size - n,
                    \A b \in Live : b + heap.size[b] <= a \/ a + n <= b
             PROVE  FALSE
  BY DEF Room
<1>1. /\ Size \in Int /\ a \in Int /\ n \in Int /\ n >= 1 /\ 0 <= a /\ a + n <= Size
      /\ Addr = 0 .. Size - 1 /\ Null = -1 /\ Tiled(heap)
      /\ \A c \in Addr : heap.size[c] \in Int
  BY HeapAssumption DEF Addr, Null, Consistent, Heap
<1>2. \A c \in Addr : heap.free[c] => heap.size[c] < n
  BY FirstFitExact
<1> DEFINE below == {c \in 0 .. a : heap.magic[c]}
<1>3. PICK b \in below : \A c \in below : c <= b
  <2>1. 0 \in below /\ a \in Nat
    BY <1>1 DEF Tiled
  <2> QED
    BY <2>1, GreatestNat
<1>4. /\ b \in Addr /\ b <= a /\ heap.magic[b] /\ b \in Int
      /\ heap.next[b] = IF b + heap.size[b] = Size THEN Null ELSE b + heap.size[b]
      /\ heap.next[b] # Null => heap.magic[heap.next[b]]
      /\ heap.size[b] >= 1 /\ b + heap.size[b] <= Size
  <2>1. b \in Addr /\ b <= a /\ heap.magic[b] /\ b \in Int
    BY <1>1
  <2> QED
    BY <1>1, <2>1 DEF Tiled
<1>5. b + heap.size[b] > a
  <2> SUFFICES ASSUME b + heap.size[b] <= a PROVE FALSE
    BY <1>1, <1>4
  <2>1. b + heap.size[b] # Size
    BY <1>1, <1>4
  <2>2. heap.magic[b + heap.size[b]] /\ b + heap.size[b] \in 0 .. a
    BY <1>1, <1>4, <2>1
  <2>3. b + heap.size[b] <= b
    BY <1>3, <2>2
  <2> QED
    BY <1>1, <1>4, <2>3
<1>6. heap.free[b]
  <2> SUFFICES ASSUME ~ heap.free[b] PROVE FALSE
    OBVIOUS
  <2>1. b \in Live
    BY <1>4 DEF Live, Blocks
  <2>2. b + heap.size[b] <= a \/ a + n <= b
    BY <2>1
  <2> QED
    BY <1>1, <1>4, <1>5, <2>2
<1>7. heap.size[b] < n
  BY <1>2, <1>4, <1>6
<1>8. /\ b + heap.size[b] < Size /\ heap.next[b] = b + heap.size[b] /\ heap.next[b] # Null
      /\ heap.next[b] \in Addr
  BY <1>1, <1>4, <1>7
<1>9. ~ heap.free[heap.next[b]]
  BY <1>4, <1>6, <1>8 DEF Separated
<1>10. heap.next[b] \in Live
  BY <1>4, <1>8, <1>9 DEF Live, Blocks
<1> DEFINE c == heap.next[b]
<1>11. c \in Addr /\ c \in Live /\ heap.magic[c]
  BY <1>4, <1>8, <1>10
<1> HIDE DEF c
<1>12. heap.size[c] >= 1 /\ heap.size[c] \in Int /\ c \in Int
  BY <1>1, <1>11 DEF Tiled
<1>13. c + heap.size[c] <= a \/ a + n <= c
  BY <1>11
<1>14. c = b + heap.size[b] /\ heap.size[b] \in Int
  BY <1>1, <1>4, <1>8 DEF c
<1>15. b \in Int /\ b <= a /\ a \in Int /\ n \in Int
  BY <1>1, <1>4
<1>16. ~ (a + n <= c)
  BY <1>7, <1>12, <1>14, <1>15
<1>17. ~ (c + heap.size[c] <= a)
  BY <1>5, <1>12, <1>14, <1>15
<1> QED
  BY <1>13, <1>16, <1>17

(* With coalescing, HeapAlloc refuses only what no free stretch of the     *)
(* heap could hold: fragments are never left side by side, and the search  *)
(* of the buckets misses no block that fits.                               *)
THEOREM RefusalsAreHonest == ASSUME Coalescing PROVE Spec => AllocFailsOnlyWhenFull
<1> DEFINE Honest == \A r \in 0 .. MaxRequest : err' # "SUCCESS" /\ Alloc(r) => ~ Room(r + 1)
<1>1. ASSUME IInv, NEW r \in 0 .. MaxRequest, err' # "SUCCESS", Alloc(r)
      PROVE  ~ Room(r + 1)
  <2>1. r + 1 \in Nat \ {0} /\ Consistent(heap)
    BY HeapAssumption, <1>1 DEF IInv, HeapInv
  <2>2. ~ Found(heap, FirstFit(heap, r + 1), r + 1)
    BY <1>1 DEF Alloc
  <2>3. FirstFit(heap, r + 1) = Null
    BY <2>1, <2>2, FirstFitExact
  <2> QED
    BY <1>1, <2>1, <2>3, RefusedMeansFull DEF IInv, HeapInv
<1>2. IInv => Honest
  BY <1>1
<1> QED
  BY <1>2, Inductive, PTL DEF Spec, AllocFailsOnlyWhenFull
-----------------------------------------------------------------------------
(***************************************************************************)
(* What HeapValidate, HeapCompact and HeapWalk promise, for heaps of every *)
(* size: the detector accepts every sound heap and finds every damaged     *)
(* word, one pass of compaction merges all there is to merge, and an       *)
(* enumeration misses no block.                                            *)
(***************************************************************************)
(* What a merge of free blocks does: block base of h grows to the end of   *)
(* block last, both of them free, and block gone is a block no more.       *)
Merged(h, g, base, last, gone) ==
  /\ h.free[base] /\ Merges(h, base) /\ h.free[last]
  /\ base + g.size[base] = last + h.size[last] /\ h.size[base] < g.size[base]
  /\ h.magic[gone] /\ ~ g.magic[gone]
  /\ \A c \in Addr : /\ g.magic[c] => h.magic[c]
                     /\ g.free[c] /\ c # base => h.free[c] /\ g.size[c] = h.size[c]

LEMMA CoalesceMerges ==
  ASSUME NEW h, Consistent(h), NEW a \in Addr, h.free[a], Merges(h, a)
  PROVE  \E base, last, gone \in Addr : Merged(h, Coalesce(h, a), base, last, gone)
<1> DEFINE below == IsFree(h, h.prev[a])
           above == IsFree(h, h.next[a])
           base == IF below THEN h.prev[a] ELSE a
           x == h.next[a]
           h1 == UnlinkFree(h, base)
           h2 == IF below THEN Absorb(h1, base) ELSE h1
           h3 == IF above THEN Absorb(h2, base) ELSE h2
           g == InsertFree(h3, base)
           last == IF above THEN x ELSE a
<1>g. Coalesce(h, a) = g
  BY DEF Coalesce
<1>h. /\ h \in Heap /\ Tiled(h) /\ h.magic[a] /\ Null \notin Addr /\ (below \/ above)
      /\ \A c \in Addr : h.size[c] \in Int /\ (h.magic[c] => h.size[c] >= 1)
  BY NullNotAddr, HeapAssumption DEF Consistent, Heap, Tiled, Merges
<1>b. /\ base \in Addr /\ h.magic[base] /\ h.free[base]
      /\ below => base # a /\ h.next[base] = a /\ base + h.size[base] = a
      /\ ~ below => base = a
  <2>1. CASE below
    <3>1. /\ base \in Addr /\ h.magic[base] /\ base # a /\ h.next[base] = a /\ h.free[base]
      BY <1>h, <2>1, Neighbours DEF IsFree
    <3>2. h.next[base] = base + h.size[base]
      <4> HIDE DEF base
      <4> QED
        BY <1>h, <3>1, Neighbours
    <3> QED
      BY <2>1, <3>1, <3>2
  <2>2. CASE ~ below
    BY <1>h, <2>2
  <2> QED
    BY <2>1, <2>2
<1>x. above => /\ x \in Addr /\ h.magic[x] /\ h.free[x] /\ x # Null /\ x # a /\ x # base
               /\ x = a + h.size[a]
  BY <1>h, Neighbours DEF IsFree
<1>m. Merges(h, base)
  BY <1>b, <1>h DEF Merges, IsFree
<1>1. /\ Detached(h1, base) /\ SameBlocks(h, h1) /\ h1.free = h.free
  BY <1>b, Detach
<1> HIDE DEF h1
<1>2. /\ Detached(h2, base) /\ h2.next[base] = x
      /\ \A c \in Addr : /\ h2.magic[c] <=> h.magic[c] /\ (below => c # a)
                         /\ h2.free[c] <=> h.free[c] /\ (below => c # a)
                         /\ h2.size[c] = IF ~ below THEN h.size[c]
                                         ELSE IF c = base THEN h.size[base] + h.size[a]
                                         ELSE IF c = a THEN 0 ELSE h.size[c]
  <2>1. CASE below
    <3>1. h1.next[base] = a /\ h1.next[base] # Null /\ h2 = Absorb(h1, base)
      BY <1>1, <1>b, <1>h, <2>1 DEF SameBlocks
    <3> HIDE DEF base, h2
    <3>2. base \in Addr /\ Detached(h1, base) /\ h1.next[base] # Null
      BY <3>1, <1>1, <1>b
    <3>3. /\ Detached(h2, base)
          /\ \A c \in Addr :
               /\ h2.magic[c] <=> (c # a /\ h1.magic[c])
               /\ h2.free[c] <=> (c # a /\ h1.free[c])
               /\ h2.size[c] = IF c = base THEN h1.size[base] + h1.size[a]
                               ELSE IF c = a THEN 0 ELSE h1.size[c]
               /\ h2.next[c] = IF c = base THEN h1.next[a]
                               ELSE IF c = a THEN Null ELSE h1.next[c]
      BY <3>1, <3>2, AbsorbDetached
    <3> QED
      BY <3>2, <3>3, <1>1, <2>1, Zenon DEF SameBlocks
  <2>2. CASE ~ below
    <3>1. h2 = h1 /\ base = a
      BY <2>2
    <3> HIDE DEF h2, base
    <3> QED
      BY <3>1, <1>1, <2>2, Zenon DEF SameBlocks
  <2> QED
    BY <2>1, <2>2
<1> HIDE DEF h2
<1>3. /\ Detached(h3, base)
      /\ \A c \in Addr : /\ h3.magic[c] <=> h2.magic[c] /\ (above => c # x)
                         /\ h3.free[c] <=> h2.free[c] /\ (above => c # x)
                         /\ h3.size[c] = IF ~ above THEN h2.size[c]
                                         ELSE IF c = base THEN h2.size[base] + h2.size[x]
                                         ELSE IF c = x THEN 0 ELSE h2.size[c]
  <2>1. CASE above
    <3>1. h2.next[base] = x /\ h2.next[base] # Null /\ h3 = Absorb(h2, base)
      BY <1>2, <1>x, <2>1
    <3> HIDE DEF base, h3, x
    <3>2. base \in Addr /\ Detached(h2, base) /\ h2.next[base] # Null
      BY <3>1, <1>2, <1>b
    <3>3. /\ Detached(h3, base)
          /\ \A c \in Addr :
               /\ h3.magic[c] <=> (c # x /\ h2.magic[c])
               /\ h3.free[c] <=> (c # x /\ h2.free[c])
               /\ h3.size[c] = IF c = base THEN h2.size[base] + h2.size[x]
                               ELSE IF c = x THEN 0 ELSE h2.size[c]
      BY <3>1, <3>2, AbsorbDetached
    <3> QED
      BY <3>3, <2>1, Zenon
  <2>2. CASE ~ above
    <3>1. h3 = h2
      BY <2>2
    <3> HIDE DEF h3, base
    <3> QED
      BY <3>1, <1>2, <2>2, Zenon
  <2> QED
    BY <2>1, <2>2
<1> HIDE DEF h3
<1>4. SameBlocks(h3, g) /\ \A c \in Addr : g.free[c] <=> (c = base \/ h3.free[c])
  BY <1>3, <1>b, AttachFree
<1>5. g.magic = h3.magic /\ g.size = h3.size
  BY <1>4 DEF SameBlocks
<1> HIDE DEF g
<1>6. \A c \in Addr : /\ g.magic[c] => h.magic[c]
                      /\ g.free[c] /\ c # base => h.free[c] /\ g.size[c] = h.size[c]
  <2> SUFFICES ASSUME NEW c \in Addr
               PROVE  /\ g.magic[c] => h.magic[c]
                      /\ g.free[c] /\ c # base => h.free[c] /\ g.size[c] = h.size[c]
    OBVIOUS
  <2>1. /\ h3.magic[c] => h2.magic[c]
        /\ h3.free[c] => h2.free[c] /\ (above => c # x)
        /\ h2.magic[c] => h.magic[c]
        /\ h2.free[c] => h.free[c] /\ (below => c # a)
    BY <1>2, <1>3
  <2>2. (above => c # x) /\ c # base => h3.size[c] = h2.size[c]
    BY <1>3
  <2>3. (below => c # a) /\ c # base => h2.size[c] = h.size[c]
    BY <1>2
  <2> QED
    BY <2>1, <2>2, <2>3, <1>4, <1>5
<1>7. /\ last \in Addr /\ h.free[last] /\ h.magic[last] /\ ~ g.magic[last]
      /\ base + g.size[base] = last + h.size[last] /\ h.size[base] < g.size[base]
  <2>1. CASE above
    <3>1. last = x /\ x \in Addr /\ h.free[x] /\ h.magic[x] /\ ~ h3.magic[x]
      BY <2>1, <1>3, <1>x
    <3>2. g.size[base] = h2.size[base] + h2.size[x]
      BY <2>1, <1>3, <1>5, <1>b
    <3>3. h2.size[x] = h.size[x]
      BY <2>1, <1>2, <1>x
    <3>4. h2.size[base] = IF below THEN h.size[base] + h.size[a] ELSE h.size[a]
      BY <1>2, <1>b
    <3>5. /\ base \in Int /\ h.size[base] \in Int /\ h.size[a] \in Int /\ h.size[x] \in Int
          /\ h.size[a] >= 1 /\ h.size[x] >= 1 /\ h.size[base] >= 1
      BY <1>h, <1>b, <3>1, NullNotAddr
    <3> HIDE DEF x, base, last, below, above
    <3>6. CASE below
      BY <2>1, <3>1, <3>2, <3>3, <3>4, <3>5, <3>6, <1>5, <1>b, <1>x
    <3>7. CASE ~ below
      BY <2>1, <3>1, <3>2, <3>3, <3>4, <3>5, <3>7, <1>5, <1>b, <1>x
    <3> QED
      BY <3>6, <3>7
  <2>2. CASE ~ above
    <3>1. last = a /\ below /\ ~ h3.magic[a] /\ h.magic[a] /\ h.free[a]
      BY <2>2, <1>2, <1>3, <1>h
    <3>2. g.size[base] = h.size[base] + h.size[a]
      BY <2>2, <3>1, <1>2, <1>3, <1>5, <1>b
    <3>5. /\ base \in Int /\ h.size[base] \in Int /\ h.size[a] \in Int
          /\ h.size[a] >= 1 /\ h.size[base] >= 1
      BY <1>h, <1>b, <3>1, NullNotAddr
    <3> HIDE DEF base, last, below, above
    <3> QED
      BY <3>1, <3>2, <3>5, <1>5, <1>b
  <2> QED
    BY <2>1, <2>2
<1>8. Merged(h, g, base, last, last)
  BY <1>6, <1>7, <1>b, <1>m DEF Merged
<1> QED
  BY <1>g, <1>8, <1>7, <1>b

(* The pass of HeapCompact finds a block to merge whenever the bucket has  *)
(* one.                                                                    *)
LEMMA MergeableExact ==
  ASSUME NEW h, Consistent(h), NEW b \in Buckets
  PROVE  LET a == FirstMergeable(h, b)
         IN  /\ a # Null => /\ a \in Addr /\ h.free[a] /\ Merges(h, a)
                            /\ Bucket(h.req[a]) = b
             /\ a = Null => \A c \in Addr : h.free[c] /\ Bucket(h.req[c]) = b => ~ Merges(h, c)
<1> DEFINE s == Chain(h, b)
           hits == {i \in DOMAIN s : Merges(h, s[i])}
           F == FreeSet(h)
<1>1. /\ h \in Heap /\ LinksOK(h, F) /\ F \in SUBSET Addr /\ Null \notin Addr
      /\ \A c \in F : c \in Addr /\ h.free[c]
  BY NullNotAddr DEF Consistent, FreeSet
<1>2. /\ DOMAIN s = 1 .. Len(s) /\ Len(s) \in Nat
      /\ \A i \in DOMAIN s : s[i] \in F /\ Bucket(h.req[s[i]]) = b
  <2>1. Linking(h, F, s, b)
    BY <1>1, ChainsExact DEF ChainExact
  <2> HIDE DEF s
  <2> QED
    BY <2>1 DEF Linking
<1>3. FirstMergeable(h, b) = IF hits = {} THEN Null ELSE s[Min(hits)]
  BY DEF FirstMergeable
<1>4. CASE hits = {}
  <2>1. ASSUME NEW c \in Addr, h.free[c], Bucket(h.req[c]) = b PROVE ~ Merges(h, c)
    <3>1. c \in F
      BY <2>1 DEF FreeSet
    <3>2. Holds(s, c)
      BY <1>1, <2>1, <3>1, ChainComplete
    <3> HIDE DEF s
    <3> QED
      BY <1>4, <3>2 DEF Holds
  <2> QED
    BY <1>3, <1>4, <2>1
<1>5. CASE hits # {}
  <2> HIDE DEF s
  <2>1. hits \in SUBSET Nat
    BY <1>2
  <2>2. \E i \in hits : \A j \in hits : i <= j
    BY <1>5, <2>1, LeastNat
  <2> HIDE DEF hits
  <2>3. Min(hits) \in hits
    BY <2>2 DEF Min
  <2>4. PICK i \in hits : FirstMergeable(h, b) = s[i]
    BY <1>3, <1>5, <2>3
  <2>5. i \in DOMAIN s /\ Merges(h, s[i])
    BY <2>4 DEF hits
  <2>6. /\ s[i] \in F /\ Bucket(h.req[s[i]]) = b /\ s[i] \in Addr /\ h.free[s[i]]
        /\ s[i] # Null /\ Merges(h, s[i])
    BY <1>1, <1>2, <2>5
  <2> QED
    BY <2>4, <2>6
<1> QED
  BY <1>4, <1>5

(* No free block of a bucket below b has a free neighbour.  A merge of     *)
(* blocks of the others keeps it so: what it makes is larger than they     *)
(* were, and moves up.                                                     *)
MergedBelow(h, b) ==
  \A c \in Addr : h.free[c] /\ Bucket(h.req[c]) < b => ~ Merges(h, c)

LEMMA MergeMovesUp ==
  ASSUME NEW h, Consistent(h), NEW b \in Int, MergedBelow(h, b),
         NEW g, Consistent(g), NEW base \in Addr, NEW last \in Addr, NEW gone \in Addr,
         Merged(h, g, base, last, gone)
  PROVE  MergedBelow(g, b)
<1> SUFFICES ASSUME NEW c \in Addr, g.free[c], Bucket(g.req[c]) < b, Merges(g, c)
             PROVE  FALSE
  BY DEF MergedBelow
<1>1. /\ h \in Heap /\ Tiled(h) /\ g \in Heap /\ Tiled(g) /\ Null \notin Addr /\ Size \in Int
      /\ Addr \subseteq Int
      /\ \A d \in Addr : /\ h.free[d] => h.magic[d] /\ h.req[d] = h.size[d] - 1
                         /\ g.free[d] => g.magic[d] /\ g.req[d] = g.size[d] - 1
                         /\ h.size[d] \in Int /\ g.size[d] \in Int
                         /\ Bucket(h.req[d]) \in Int /\ Bucket(g.req[d]) \in Int
  <2>1. \A d \in Addr : Bucket(h.req[d]) \in Buckets /\ Bucket(g.req[d]) \in Buckets
    BY ReqBucket DEF Consistent
  <2>2. h \in Heap /\ g \in Heap
    BY DEF Consistent
  <2>3. \A d \in Addr : h.size[d] \in Int /\ g.size[d] \in Int
    BY <2>2, HeapAssumption DEF Heap
  <2> QED
    BY <2>1, <2>2, <2>3, NullNotAddr, HeapAssumption DEF Consistent, Buckets
<1>2. /\ h.free[base] /\ Merges(h, base) /\ h.free[last]
      /\ base + g.size[base] = last + h.size[last] /\ h.size[base] < g.size[base]
      /\ \A d \in Addr : /\ g.magic[d] => h.magic[d]
                         /\ g.free[d] /\ d # base => h.free[d] /\ g.size[d] = h.size[d]
  BY DEF Merged
<1>3. c # base
  <2> SUFFICES ASSUME c = base PROVE FALSE
    OBVIOUS
  <2>1. h.req[base] \in Int /\ g.req[base] \in Int /\ h.req[base] <= g.req[base]
    BY <1>1, <1>2
  <2>2. Bucket(h.req[base]) <= Bucket(g.req[base])
    BY <2>1, BucketMonotone
  <2>3. Bucket(h.req[base]) < b
    BY <1>1, <2>2
  <2> QED
    BY <1>2, <2>3 DEF MergedBelow
<1>4. h.free[c] /\ g.size[c] = h.size[c] /\ g.magic[c] /\ h.magic[c] /\ g.req[c] = h.req[c]
  BY <1>1, <1>2, <1>3
<1>5. ~ Merges(h, c)
  BY <1>4 DEF MergedBelow
<1>6. \A d \in Addr : g.free[d] => h.free[d]
  BY <1>2
<1>7. CASE IsFree(g, g.next[c])
  <2>1. g.next[c] \in Addr /\ g.next[c] = c + g.size[c] /\ g.free[g.next[c]]
    BY <1>1, <1>4, <1>7, Neighbours DEF IsFree
  <2>2. h.next[c] = c + h.size[c]
    <3>1. c + h.size[c] # Size
      BY <1>1, <1>4, <2>1, HeapAssumption DEF Addr
    <3> QED
      BY <1>1, <1>4, <3>1 DEF Tiled
  <2>3. IsFree(h, h.next[c])
    BY <1>1, <1>4, <1>6, <2>1, <2>2 DEF IsFree
  <2> QED
    BY <1>5, <2>3 DEF Merges
<1>8. CASE IsFree(g, g.prev[c])
  <2> DEFINE e == g.prev[c]
  <2>1. /\ e # Null /\ e \in Addr /\ g.next[e] = c /\ g.free[e] /\ g.magic[e]
    BY <1>1, <1>4, <1>8, Neighbours DEF IsFree
  <2> HIDE DEF e
  <2>2. e + g.size[e] = c
    BY <1>1, <2>1, Neighbours
  <2>3. \E d \in Addr : h.free[d] /\ d + h.size[d] = c
    <3>1. CASE e = base
      BY <1>2, <2>2, <3>1
    <3>2. CASE e # base
      BY <1>2, <2>1, <2>2, <3>2
    <3> QED
      BY <3>1, <3>2
  <2>4. PICK d \in Addr : h.free[d] /\ d + h.size[d] = c
    BY <2>3
  <2>5. h.next[d] = c /\ c # Null
    <3>1. h.magic[d] /\ c # Size
      BY <1>1, <2>4, HeapAssumption DEF Addr
    <3> QED
      BY <1>1, <2>4, <3>1 DEF Tiled
  <2>6. h.prev[c] = d /\ d # Null
    <3>1. h.magic[d] /\ h.next[d] # Null
      BY <1>1, <2>4, <2>5
    <3>2. h.prev[h.next[d]] = d
      BY <1>1, <3>1, Neighbours
    <3> QED
      BY <1>1, <2>5, <3>2
  <2>7. IsFree(h, h.prev[c])
    BY <2>4, <2>6 DEF IsFree
  <2> QED
    BY <1>5, <2>7 DEF Merges
<1> QED
  BY <1>7, <1>8 DEF Merges

(* The clients' blocks are where and what they were.                       *)
SameHeld(h, g) ==
  \A c \in Addr : /\ Held(g, c) <=> Held(h, c)
                  /\ Held(h, c) => g.req[c] = h.req[c] /\ g.size[c] = h.size[c]

BlockSet(h) == {a \in Addr : h.magic[a]}

LEMMA BlockCount ==
  ASSUME NEW h, Consistent(h)
  PROVE  /\ IsFiniteSet(BlockSet(h)) /\ Cardinality(BlockSet(h)) \in 1 .. Size
<1>1. IsFiniteSet(Addr) /\ Cardinality(Addr) = Size
  <2>1. 0 \in Int /\ Size - 1 \in Int /\ ~ (0 > Size - 1) /\ (Size - 1) - 0 + 1 = Size
    BY HeapAssumption
  <2>2. IsFiniteSet(0 .. Size - 1) /\ Cardinality(0 .. Size - 1) = Size
    BY <2>1, FS_Interval
  <2> QED
    BY <2>2 DEF Addr
<1>2. BlockSet(h) \subseteq Addr
  BY DEF BlockSet
<1>3. /\ IsFiniteSet(BlockSet(h)) /\ Cardinality(BlockSet(h)) \in Nat
      /\ Cardinality(BlockSet(h)) <= Size
  BY <1>1, <1>2, FS_Subset, FS_CardinalityType
<1>4. 0 \in BlockSet(h)
  BY HeapAssumption DEF BlockSet, Consistent, Tiled, Addr
<1>5. Cardinality(BlockSet(h)) # 0
  BY <1>3, <1>4, FS_EmptySet
<1> QED
  BY <1>3, <1>5, HeapAssumption

(* HeapCompact, n steps into its pass over h0.  Each step leaves a bucket  *)
(* behind or a block less.                                                 *)
Pass == [h : Heap, b : 0 .. 10]
Passed(h0, n, p) ==
  /\ p \in Pass /\ Consistent(p.h) /\ SameHeld(h0, p.h) /\ MergedBelow(p.h, p.b)
  /\ p.b = 10 \/ n + Cardinality(BlockSet(p.h)) <= p.b + Size

LEMMA PassStepOK ==
  ASSUME NEW h0, NEW n \in Nat, NEW p, Passed(h0, n, p)
  PROVE  Passed(h0, n + 1, PassStep(p))
<1> DEFINE a == FirstMergeable(p.h, p.b)
           q == PassStep(p)
           g == Coalesce(p.h, a)
<1>1. /\ p \in Pass /\ p.h \in Heap /\ p.b \in 0 .. 10 /\ Consistent(p.h) /\ SameHeld(h0, p.h)
      /\ MergedBelow(p.h, p.b) /\ Size \in Nat
      /\ p.b = 10 \/ n + Cardinality(BlockSet(p.h)) <= p.b + Size
      /\ Cardinality(BlockSet(p.h)) \in Nat
  <2>1. Consistent(p.h) /\ p \in Pass
    BY DEF Passed
  <2>2. Cardinality(BlockSet(p.h)) \in 1 .. Size
    BY <2>1, BlockCount
  <2> QED
    BY <2>1, <2>2, HeapAssumption DEF Passed, Pass
<1>2. CASE p.b \notin Buckets
  <2>1. q = p /\ p.b = 10
    BY <1>1, <1>2 DEF PassStep, Buckets
  <2> QED
    BY <1>1, <2>1 DEF Passed
<1>3. CASE p.b \in Buckets /\ a = Null
  <2>1. q = [p EXCEPT !.b = p.b + 1]
    BY <1>3 DEF PassStep
  <2>2. p.b + 1 \in 0 .. 10 /\ p.b \in Nat
    BY <1>3 DEF Buckets
  <2>3. q \in Pass /\ q.h = p.h /\ q.b = p.b + 1
    BY <1>1, <2>1, <2>2 DEF Pass
  <2>4. \A c \in Addr : p.h.free[c] /\ Bucket(p.h.req[c]) = p.b => ~ Merges(p.h, c)
    BY <1>1, <1>3, MergeableExact
  <2>5. MergedBelow(p.h, p.b + 1)
    <3>1. ASSUME NEW c \in Addr PROVE Bucket(p.h.req[c]) \in Int
      BY <1>1, ReqBucket DEF Buckets
    <3>2. \A c \in Addr : Bucket(p.h.req[c]) < p.b + 1
                          => Bucket(p.h.req[c]) < p.b \/ Bucket(p.h.req[c]) = p.b
      BY <2>2, <3>1
    <3> QED
      BY <1>1, <2>4, <3>2 DEF MergedBelow
  <2>6. q.b = 10 \/ (n + 1) + Cardinality(BlockSet(q.h)) <= q.b + Size
    BY <1>1, <1>3, <2>2, <2>3 DEF Buckets
  <2> QED
    BY <1>1, <2>3, <2>5, <2>6 DEF Passed
<1>4. CASE p.b \in Buckets /\ a # Null
  <2>1. a \in Addr /\ p.h.free[a] /\ Merges(p.h, a) /\ p.h.magic[a]
    <3>1. a \in Addr /\ p.h.free[a] /\ Merges(p.h, a)
      BY <1>1, <1>4, MergeableExact
    <3> QED
      BY <1>1, <3>1 DEF Consistent
  <2>2. q = [p EXCEPT !.h = g]
    BY <1>4 DEF PassStep
  <2> HIDE DEF a
  <2>3. Consistent(g) /\ Keeps(p.h, g, a, a) /\ ~ Held(g, a)
    BY <1>1, <2>1, CoalesceOK
  <2>4. PICK base \in Addr, last \in Addr, gone \in Addr : Merged(p.h, g, base, last, gone)
    BY <1>1, <2>1, CoalesceMerges
  <2> HIDE DEF g
  <2>5. q \in Pass /\ q.h = g /\ q.b = p.b
    BY <1>1, <2>2, <2>3 DEF Pass, Consistent
  <2>6. MergedBelow(g, p.b)
    <3>1. p.b \in Int
      BY <1>1
    <3> QED
      BY <1>1, <2>3, <2>4, <3>1, MergeMovesUp
  <2>7. SameHeld(h0, g)
    <3>1. ~ Held(p.h, a)
      BY <2>1 DEF Held
    <3> QED
      BY <1>1, <2>3, <3>1 DEF SameHeld, Keeps
  <2>8. Cardinality(BlockSet(g)) + 1 <= Cardinality(BlockSet(p.h)) /\ Cardinality(BlockSet(g)) \in Nat
    <3>1. /\ IsFiniteSet(BlockSet(p.h)) /\ BlockSet(g) \subseteq BlockSet(p.h) \ {gone}
          /\ gone \in BlockSet(p.h)
      BY <1>1, <2>4, BlockCount DEF Merged, BlockSet
    <3>2. /\ IsFiniteSet(BlockSet(p.h) \ {gone})
          /\ Cardinality(BlockSet(p.h) \ {gone}) = Cardinality(BlockSet(p.h)) - 1
      BY <3>1, FS_RemoveElement
    <3>3. Cardinality(BlockSet(g)) <= Cardinality(BlockSet(p.h) \ {gone})
      BY <3>1, <3>2, FS_Subset
    <3>4. Cardinality(BlockSet(g)) \in Nat
      BY <2>3, BlockCount
    <3> QED
      BY <1>1, <3>2, <3>3, <3>4
  <2>9. q.b = 10 \/ (n + 1) + Cardinality(BlockSet(q.h)) <= q.b + Size
    BY <1>1, <2>5, <2>8
  <2> QED
    BY <2>3, <2>5, <2>6, <2>7, <2>9 DEF Passed
<1> QED
  BY <1>2, <1>3, <1>4

(* The recursion of Compacted: the pass is where it is after Size + 9      *)
(* steps because then every bucket was left behind.                        *)
PassEqn(h, pass) ==
  pass = [n \in 0 .. Size + 9 |-> IF n = 0 THEN [h |-> h, b |-> 0] ELSE PassStep(pass[n - 1])]

LEMMA PassExists ==
  ASSUME NEW h, Consistent(h)
  PROVE  \E pass : PassEqn(h, pass)
<1> DEFINE N == Size + 9
           V == {p \in Pass : Consistent(p.h)}
           v0 == [h |-> h, b |-> 0]
           Step == [i \in 1 .. N |-> [p \in V |-> PassStep(p)]]
<1>1. ASSUME NEW p \in V PROVE PassStep(p) \in V
  <2>1. /\ Consistent(p.h) /\ p \in Pass
    OBVIOUS
  <2>2. SameHeld(p.h, p.h)
    BY DEF SameHeld
  <2> DEFINE a == FirstMergeable(p.h, p.b)
  <2>3. CASE p.b \notin Buckets
    BY <2>1, <2>3 DEF PassStep
  <2>4. CASE p.b \in Buckets /\ a = Null
    <3>1. PassStep(p) = [p EXCEPT !.b = p.b + 1]
      BY <2>4 DEF PassStep
    <3>2. p.b + 1 \in 0 .. 10
      BY <2>4 DEF Buckets
    <3> QED
      BY <2>1, <3>1, <3>2 DEF Pass
  <2>5. CASE p.b \in Buckets /\ a # Null
    <3>1. PassStep(p) = [p EXCEPT !.h = Coalesce(p.h, a)]
      BY <2>5 DEF PassStep
    <3>2. a \in Addr /\ p.h.free[a] /\ Merges(p.h, a)
      BY <2>1, <2>5, MergeableExact
    <3>3. p.h.magic[a]
      BY <2>1, <3>2 DEF Consistent
    <3> HIDE DEF a
    <3>4. Consistent(Coalesce(p.h, a))
      BY <2>1, <3>2, <3>3, CoalesceOK
    <3>5. Coalesce(p.h, a) \in Heap
      BY <3>4 DEF Consistent
    <3> QED
      BY <2>1, <3>1, <3>4, <3>5 DEF Pass
  <2> QED
    BY <2>3, <2>4, <2>5
<1>2. v0 \in V /\ N \in Nat
  BY HeapAssumption DEF Consistent, Pass
<1> HIDE DEF V
<1>3. Steps(Step, N, V)
  BY <1>1 DEF Steps
<1> HIDE DEF N, Step, v0
<1>4. PICK f : Iterates(f, N, V, v0, Step)
  BY <1>2, <1>3, Recursion
<1>5. ASSUME NEW n \in 0 .. N
      PROVE  f[n] = IF n = 0 THEN v0 ELSE PassStep(f[n - 1])
  <2>1. CASE n = 0
    BY <1>4, <2>1 DEF Iterates
  <2>2. CASE n # 0
    <3>1. n \in 1 .. N /\ n - 1 \in 0 .. N
      BY <1>2, <2>2
    <3>2. f[n - 1] \in V /\ f[n] = Step[n][f[n - 1]]
      BY <1>4, <3>1 DEF Iterates
    <3> QED
      BY <2>2, <3>1, <3>2 DEF Step
  <2> QED
    BY <2>1, <2>2
<1>6. f = [n \in 0 .. N |-> f[n]]
  BY <1>4 DEF Iterates
<1>7. f = [n \in 0 .. N |-> IF n = 0 THEN v0 ELSE PassStep(f[n - 1])]
  BY <1>5, <1>6
<1> QED
  BY <1>7 DEF PassEqn, N, v0

LEMMA CompactedOK ==
  ASSUME NEW h, Consistent(h), Coalescing => Separated(h)
  PROVE  Consistent(Compacted(h)) /\ SameHeld(h, Compacted(h)) /\ Separated(Compacted(h))
<1>1. CASE Coalescing
  <2>1. Compacted(h) = h
    BY <1>1 DEF Compacted
  <2> QED
    BY <1>1, <2>1 DEF SameHeld
<1>2. CASE ~ Coalescing
  <2> DEFINE N == Size + 9
             P == CHOOSE pass : PassEqn(h, pass)
             S == {n \in 0 .. N : Passed(h, n, P[n])}
  <2>1. Compacted(h) = P[N].h
    BY <1>2 DEF Compacted, PassEqn
  <2>2. PassEqn(h, P)
    BY PassExists
  <2> HIDE DEF P
  <2>3. /\ N \in Nat /\ Size \in Nat /\ P[0] = [h |-> h, b |-> 0]
        /\ \A n \in 0 .. N - 1 : P[n + 1] = PassStep(P[n])
    <3>1. N \in Nat /\ Size \in Nat
      BY HeapAssumption
    <3>2. ASSUME NEW n \in 0 .. N - 1 PROVE P[n + 1] = PassStep(P[n])
      <4>1. n + 1 \in 0 .. N /\ n + 1 # 0 /\ (n + 1) - 1 = n
        BY <3>1
      <4> QED
        BY <2>2, <4>1 DEF PassEqn
    <3>3. P[0] = [h |-> h, b |-> 0]
      BY <2>2, <3>1 DEF PassEqn
    <3> QED
      BY <3>1, <3>2, <3>3
  <2>4. Passed(h, 0, P[0])
    <3>1. P[0] \in Pass /\ P[0].h = h /\ P[0].b = 0
      BY <2>3 DEF Consistent, Pass
    <3>2. MergedBelow(h, 0)
      <4>1. ASSUME NEW c \in Addr PROVE ~ (Bucket(h.req[c]) < 0)
        BY ReqBucket DEF Consistent, Buckets
      <4> QED
        BY <4>1 DEF MergedBelow
    <3>3. 0 + Cardinality(BlockSet(h)) <= 0 + Size
      BY <2>3, BlockCount
    <3> QED
      BY <3>1, <3>2, <3>3 DEF Passed, SameHeld
  <2>5. 0 \in S
    BY <2>3, <2>4
  <2>6. ASSUME NEW n \in 0 .. N - 1, n \in S PROVE n + 1 \in S
    <3>1. n \in Nat /\ n + 1 \in 0 .. N
      BY <2>3
    <3>2. Passed(h, n + 1, P[n + 1])
      BY <2>3, <2>6, <3>1, PassStepOK
    <3> QED
      BY <3>1, <3>2
  <2> HIDE DEF S
  <2>7. N \in S
    BY <2>3, <2>5, <2>6, SetInduction
  <2>8. Passed(h, N, P[N])
    BY <2>7 DEF S
  <2> DEFINE g == P[N].h
             b == P[N].b
  <2>9. /\ Consistent(g) /\ SameHeld(h, g) /\ MergedBelow(g, b) /\ b \in 0 .. 10
        /\ b = 10 \/ N + Cardinality(BlockSet(g)) <= b + Size
    BY <2>8 DEF Passed, Pass
  <2> HIDE DEF g, b
  <2>10. b = 10
    <3>1. Cardinality(BlockSet(g)) \in 1 .. Size
      BY <2>9, BlockCount
    <3> QED
      BY <2>3, <2>9, <3>1
  <2>11. Separated(g)
    <3>1. ASSUME NEW c \in Addr, g.free[c] PROVE ~ Merges(g, c)
      <4>1. Bucket(g.req[c]) < 10
        BY <2>9, ReqBucket DEF Consistent, Buckets
      <4> QED
        BY <2>9, <2>10, <3>1, <4>1 DEF MergedBelow
    <3> QED
      BY <3>1 DEF Separated, Merges, IsFree
  <2> QED
    BY <2>1, <2>9, <2>11 DEF g
<1> QED
  BY <1>1, <1>2

LEMMA CompactInv == HeapInv /\ Compact => HeapInv' /\ SameHeld(heap, heap') /\ Separated(heap')
<1> SUFFICES ASSUME HeapInv, Compact
             PROVE  HeapInv' /\ SameHeld(heap, heap') /\ Separated(heap')
  OBVIOUS
<1>1. heap' = Compacted(heap) /\ Consistent(heap) /\ Fits(heap) /\ (Coalescing => Separated(heap))
  BY DEF HeapInv, Compact
<1>2. Consistent(heap') /\ SameHeld(heap, heap') /\ Separated(heap')
  BY <1>1, CompactedOK
<1>3. Fits(heap')
  BY <1>1, <1>2 DEF Fits, SameHeld
<1> QED
  BY <1>2, <1>3 DEF HeapInv

(* HeapCompact's answer is the size of the largest free block, whichever   *)
(* bucket that is in.                                                      *)
LEMMA LargestExact ==
  ASSUME NEW h, Consistent(h)
  PROVE  LET m == LargestFree(h)
         IN  /\ m \in Nat /\ \A a \in Addr : h.free[a] => h.size[a] - 1 <= m
             /\ m > 0 => \E a \in Addr : h.free[a] /\ h.size[a] - 1 = m
<1> DEFINE s == Scan(h, 0)
           sizes == {h.size[a] - 1 : a \in ToSet(s)}
           F == FreeSet(h)
<1>1. /\ h \in Heap /\ LinksOK(h, F) /\ F \in SUBSET Addr /\ Size \in Nat
      /\ \A a \in F : /\ a \in Addr /\ h.free[a] /\ h.size[a] - 1 \in 0 .. Size
                      /\ Bucket(h.req[a]) >= Bucket(0)
  <2>1. h \in Heap /\ LinksOK(h, F) /\ F \in SUBSET Addr /\ Size \in Nat
    BY HeapAssumption DEF Consistent, FreeSet
  <2>2. ASSUME NEW a \in F
        PROVE  /\ a \in Addr /\ h.free[a] /\ h.size[a] - 1 \in 0 .. Size
               /\ Bucket(h.req[a]) >= Bucket(0)
    <3>1. a \in Addr /\ h.free[a] /\ h.magic[a] /\ h.size[a] \in 0 .. Size
      BY <2>2 DEF Consistent, FreeSet, Heap
    <3>2. h.size[a] >= 1
      BY <3>1 DEF Consistent, Tiled
    <3>3. Bucket(h.req[a]) \in 0 .. 9 /\ Bucket(0) = 0
      BY <2>1, <3>1, ReqBucket DEF Bucket, Buckets
    <3> QED
      BY <2>1, <3>1, <3>2, <3>3
  <2> QED
    BY <2>1, <2>2
<1>2. s \in Seq(F) /\ \A a \in F : Holds(s, a)
  BY <1>1, ScanExact
<1>3. LargestFree(h) = IF sizes = {} THEN 0 ELSE Max(sizes)
  BY DEF LargestFree
<1> HIDE DEF s
<1>4. ToSet(s) = F
  BY <1>2 DEF ToSet, Holds
<1>5. sizes \in SUBSET (0 .. Size)
  BY <1>1, <1>4
<1>6. CASE sizes = {}
  <2>1. F = {}
    BY <1>4, <1>6
  <2> QED
    BY <1>3, <1>6, <2>1 DEF FreeSet
<1>7. CASE sizes # {}
  <2> HIDE DEF sizes
  <2>1. \E k \in sizes : \A m \in sizes : m <= k
    BY <1>1, <1>5, <1>7, GreatestNat
  <2>2. Max(sizes) \in sizes /\ \A m \in sizes : Max(sizes) >= m
    BY <1>5, <2>1 DEF Max
  <2>3. LargestFree(h) = Max(sizes)
    BY <1>3, <1>7
  <2>4. PICK a \in F : Max(sizes) = h.size[a] - 1
    BY <1>4, <2>2 DEF sizes
  <2>5. \A c \in F : h.size[c] - 1 \in sizes
    BY <1>4 DEF sizes
  <2>6. Max(sizes) \in 0 .. Size
    BY <1>5, <2>2
  <2>7. \A c \in Addr : h.free[c] => h.size[c] - 1 <= Max(sizes)
    <3>1. ASSUME NEW c \in F PROVE h.size[c] - 1 <= Max(sizes)
      BY <1>1, <2>2, <2>5, <2>6
    <3> QED
      BY <3>1 DEF FreeSet
  <2> QED
    BY <1>1, <2>3, <2>4, <2>6, <2>7
<1> QED
  BY <1>6, <1>7

LEMMA AnswerIsExact ==
  Consistent(heap) /\ Separated(heap) /\ largest = LargestFree(heap) => ExactlyFits
<1> SUFFICES ASSUME Consistent(heap), Separated(heap), largest = LargestFree(heap),
                    NEW r \in 1 .. Size - 1
             PROVE  /\ r <= largest => Found(heap, FirstFit(heap, r + 1), r + 1)
                    /\ r > largest => ~ Room(r + 1)
  BY DEF ExactlyFits
<1>1. /\ largest \in Nat /\ \A a \in Addr : heap.free[a] => heap.size[a] - 1 <= largest
      /\ largest > 0 => \E a \in Addr : heap.free[a] /\ heap.size[a] - 1 = largest
  BY LargestExact
<1>2. r + 1 \in Nat \ {0} /\ r \in Int /\ r >= 1
  BY HeapAssumption
<1>3. \A a \in Addr : heap.size[a] \in Int
  BY HeapAssumption DEF Consistent, Heap
<1>4. /\ FirstFit(heap, r + 1) # Null => Found(heap, FirstFit(heap, r + 1), r + 1)
      /\ FirstFit(heap, r + 1) = Null => \A a \in Addr : heap.free[a] => heap.size[a] < r + 1
  BY <1>2, FirstFitExact
<1>5. ASSUME r <= largest PROVE FirstFit(heap, r + 1) # Null
  <2>1. PICK a \in Addr : heap.free[a] /\ heap.size[a] - 1 = largest
    BY <1>1, <1>2, <1>5
  <2>2. ~ (heap.size[a] < r + 1)
    BY <1>1, <1>2, <1>3, <1>5, <2>1
  <2> QED
    BY <1>4, <2>1, <2>2
<1>6. ASSUME r > largest PROVE ~ Room(r + 1)
  <2>1. ASSUME NEW a, Found(heap, a, r + 1) PROVE FALSE
    <3>1. a \in Addr /\ heap.free[a] /\ heap.size[a] >= r + 1
      BY <2>1 DEF Found
    <3>2. heap.size[a] - 1 <= largest /\ heap.size[a] \in Int
      BY <1>1, <1>3, <3>1
    <3> QED
      BY <1>1, <1>2, <1>6, <3>1, <3>2
  <2>2. FirstFit(heap, r + 1) = Null
    BY <1>4, <2>1
  <2> QED
    BY <1>2, <2>2, RefusedMeansFull
<1> QED
  BY <1>4, <1>5, <1>6

-----------------------------------------------------------------------------
(* The enumeration.  What is due lies above the cursor, so the end of the  *)
(* chain is past it, and a cursor that was merged away is no header.       *)
Ahead == due \subseteq Live /\ entry \in Link /\ \A a \in due : entry # Null /\ entry < a
WalkInv == HeapInv /\ Ahead

LEMMA WalkInitInv == WalkInit => WalkInv
<1> SUFFICES ASSUME WalkInit PROVE WalkInv
  OBVIOUS
<1>1. HeapInv
  BY InitInv DEF WalkInit, CompactInit, IInv
<1>2. Ahead
  BY DEF WalkInit, Ahead, Link
<1> QED
  BY <1>1, <1>2 DEF WalkInv

(* One call of HeapWalk: the next block is the first that can be due.      *)
LEMMA WalkStep ==
  ASSUME WalkInv, NEW e \in {entry, Null}, Walk(e)
  PROVE  /\ WalkInv' /\ heap' = heap
         /\ err' = "NO_MORE_ITEMS" => due = {}
<1> DEFINE a == IF e = Null THEN heap.first ELSE heap.next[e]
<1>1. /\ heap' = heap /\ HeapInv /\ Consistent(heap) /\ heap \in Heap /\ Tiled(heap)
      /\ Null \notin Addr /\ Addr \subseteq Int /\ 0 \in Addr
  BY NullNotAddr, HeapAssumption DEF WalkInv, HeapInv, Consistent, Walk, Addr
<1>2. /\ due \subseteq Live /\ entry \in Link /\ \A c \in due : entry # Null /\ entry < c
      /\ \A c \in Live : c \in Addr /\ heap.magic[c]
  BY DEF WalkInv, Ahead, Live, Blocks
<1>3. heap.first = 0 /\ Live' = Live /\ (\A c \in Addr : 0 <= c)
  BY <1>1 DEF Tiled, Live, Blocks, Addr
<1>4. HeapInv'
  BY <1>1 DEF HeapInv
<1>5. CASE e # Null /\ ~ heap.magic[e]
  <2>1. err' = "INVALID_BLOCK" /\ entry' = entry /\ due' = due
    BY <1>5, Zenon DEF Walk
  <2> QED
    BY <1>1, <1>2, <1>3, <1>4, <2>1 DEF WalkInv, Ahead
<1>6. CASE (e # Null => heap.magic[e]) /\ a = Null
  <2>1. e # Null /\ e = entry /\ e \in Addr /\ heap.magic[e] /\ heap.next[e] = Null
    BY <1>1, <1>2, <1>3, <1>6 DEF Link
  <2>2. e + heap.size[e] = Size
    <3>1. e + heap.size[e] # Size => heap.next[e] = e + heap.size[e] /\ e + heap.size[e] \in Int
      BY <1>1, <2>1, Neighbours DEF Tiled
    <3>2. e + heap.size[e] # Null
      BY <1>1, <2>1, Neighbours DEF Addr, Null
    <3> QED
      BY <2>1, <3>1, <3>2
  <2>3. ASSUME NEW c \in due PROVE FALSE
    <3>1. c \in Addr /\ heap.magic[c] /\ e < c
      BY <1>2, <2>1
    <3>2. e + heap.size[e] <= c
      BY <1>1, <2>1, <3>1 DEF Tiled
    <3> QED
      BY <2>2, <3>1, <3>2, HeapAssumption DEF Addr
  <2>4. entry' = entry /\ due' = due
    <3>1. entry' = e /\ due' = due
      BY <1>6, Zenon DEF Walk
    <3> QED
      BY <2>1, <3>1
  <2> QED
    BY <1>1, <1>2, <1>3, <1>4, <2>3, <2>4 DEF WalkInv, Ahead
<1>7. CASE (e # Null => heap.magic[e]) /\ a # Null
  <2>1. /\ err' = "SUCCESS" /\ entry' = a
        /\ due' = (IF e = Null THEN Live ELSE due) \ {a}
    BY <1>7, Zenon DEF Walk
  <2>2. a \in Addr /\ heap.magic[a]
    <3>1. CASE e = Null
      BY <1>1, <1>3, <3>1 DEF Tiled
    <3>2. CASE e # Null
      <4>1. e \in Addr /\ heap.magic[e] /\ heap.next[e] # Null
        BY <1>2, <1>7, <3>2 DEF Link
      <4> QED
        BY <1>1, <3>2, <4>1, Neighbours
    <3> QED
      BY <3>1, <3>2
  <2>3. ASSUME NEW c \in due' PROVE c \in Live /\ a < c
    <3>1. c \in Live /\ c \in Addr /\ heap.magic[c] /\ c # a
      BY <1>2, <2>1
    <3>2. CASE e = Null
      BY <1>1, <1>3, <3>1, <3>2
    <3>3. CASE e # Null
      <4>1. e \in Addr /\ heap.magic[e] /\ e < c /\ a = heap.next[e]
        BY <1>2, <1>7, <2>1, <2>3, <3>3 DEF Link
      <4>2. a = e + heap.size[e]
        <5>1. heap.next[e] # Null
          BY <1>7, <4>1
        <5>2. heap.next[e] = e + heap.size[e]
          BY <1>1, <4>1, <5>1, Neighbours
        <5> QED
          BY <4>1, <5>2
      <4>3. e + heap.size[e] <= c
        BY <1>1, <3>1, <4>1 DEF Tiled
      <4>4. a \in Int /\ c \in Int /\ a <= c
        BY <1>1, <2>2, <3>1, <4>2, <4>3
      <4> HIDE DEF a
      <4> QED
        BY <3>1, <4>4
    <3> QED
      BY <3>2, <3>3
  <2> QED
    BY <1>1, <1>3, <1>4, <2>1, <2>2, <2>3 DEF WalkInv, Ahead, Link
<1> QED
  BY <1>5, <1>6, <1>7

-----------------------------------------------------------------------------
(* HeapValidate.  Its walks are recursions that end, so each of them has   *)
(* one value at every block.                                               *)
Verdict == {"SUCCESS", "INVALID_BLOCK", "INVALID_PREV_LINK", "INVALID_NEXT_LINK",
            "INVALID_HEAPEND", "INVALID_FPREV_LINK", "BLOCK_NOT_FREE"}

(* The block chain, from block a that was reached from block p; rest is    *)
(* the verdict on the blocks after it.                                     *)
BlockCheck(h, a, p, rest) ==
  IF ~ h.magic[a] THEN "INVALID_BLOCK"
  ELSE IF h.prev[a] # p THEN "INVALID_PREV_LINK"
  ELSE IF h.next[a] = Null
       THEN IF a + h.size[a] = Size THEN "SUCCESS" ELSE "INVALID_HEAPEND"
  ELSE IF h.next[a] # a + h.size[a] THEN "INVALID_NEXT_LINK"
  ELSE rest
BlockEqn(h, w) ==
  w = [a \in Addr |-> [p \in Link |->
        LET end == a + h.size[a]
        IN  IF ~ h.magic[a] THEN "INVALID_BLOCK"
            ELSE IF h.prev[a] # p THEN "INVALID_PREV_LINK"
            ELSE IF h.next[a] = Null
                 THEN IF end = Size THEN "SUCCESS" ELSE "INVALID_HEAPEND"
            ELSE IF h.next[a] # end THEN "INVALID_NEXT_LINK"
            ELSE w[h.next[a]][a]]]
BlockWalk(h, w) ==
  /\ BlockChainError(h) = w[h.first][Null]
  /\ \A a \in Addr, p \in Link : w[a][p] = BlockCheck(h, a, p, w[h.next[a]][a])

(* Where the walk goes on, it goes up.                                     *)
Advances(h) ==
  \A a \in Addr : h.magic[a] /\ h.next[a] # Null /\ h.next[a] = a + h.size[a] => a < h.next[a]

LEMMA BlockWalkExists ==
  ASSUME NEW h \in Heap, Advances(h)
  PROVE  \E w : BlockWalk(h, w)
<1> DEFINE f == [a \in Addr |-> IF h.magic[a] /\ h.next[a] = a + h.size[a]
                                THEN h.next[a] ELSE Null]
           V == [Link -> Verdict]
           v0 == [p \in Link |-> "SUCCESS"]
           Step == [a \in Addr |-> [v \in V |-> [p \in Link |-> BlockCheck(h, a, p, v[a])]]]
<1>1. /\ h.next \in [Addr -> Link] /\ Null \notin Addr /\ Addr \subseteq 0 .. Size /\ Size \in Nat
      /\ Link = Addr \cup {Null}
  BY NullNotAddr, HeapAssumption DEF Heap, Addr, Link
<1>2. f \in [Addr -> Link]
  BY <1>1
<1>3. NoLoop(f)
  <2> SUFFICES ASSUME NEW S \in SUBSET Addr, S # {}
               PROVE  \E a \in S : f[a] \notin S
    BY DEF NoLoop
  <2>1. S \in SUBSET (0 .. Size)
    BY <1>1
  <2>2. PICK a \in S : \A m \in S : m <= a
    BY <1>1, <2>1, GreatestNat
  <2>3. f[a] # Null => a < f[a]
    BY <1>1 DEF Advances
  <2> HIDE DEF f
  <2>4. f[a] \notin S
    <3> SUFFICES ASSUME f[a] \in S PROVE FALSE
      OBVIOUS
    <3>1. f[a] <= a
      BY <2>2
    <3>2. f[a] \in Addr /\ a \in Addr
      OBVIOUS
    <3>3. f[a] \in Int /\ a \in Int /\ f[a] # Null
      BY <3>2, NullNotAddr
    <3> QED
      BY <2>3, <3>1, <3>3
  <2> QED
    BY <2>4
<1>4. Step \in [Addr -> [V -> V]]
  <2>1. ASSUME NEW a \in Addr, NEW v \in V, NEW p \in Link
        PROVE  BlockCheck(h, a, p, v[a]) \in Verdict
    <3>1. v[a] \in Verdict
      BY <1>1
    <3> QED
      BY <3>1 DEF BlockCheck, Verdict
  <2> QED
    BY <2>1
<1>5. v0 \in V
  BY DEF Verdict
<1> HIDE DEF f, v0, Step
<1>6. PICK r : Recursive(f, V, v0, Step, r)
  BY <1>2, <1>3, <1>4, <1>5, LinkRecursion
<1>7. ASSUME NEW a \in Addr
      PROVE  r[a] = [p \in Link |-> BlockCheck(h, a, p, r[f[a]][a])]
  <2>1. r[a] = Step[a][r[f[a]]] /\ r[f[a]] \in V
    BY <1>1, <1>2, <1>6 DEF Recursive
  <2> QED
    BY <2>1 DEF Step
<1> DEFINE w == [a \in Addr |-> r[a]]
<1>8. ASSUME NEW a \in Addr, NEW p \in Link
      PROVE  BlockCheck(h, a, p, r[f[a]][a]) = BlockCheck(h, a, p, w[h.next[a]][a])
  <2>1. CASE h.magic[a] /\ h.next[a] = a + h.size[a] /\ h.next[a] # Null
    <3>1. f[a] = h.next[a] /\ h.next[a] \in Addr
      BY <1>1, <2>1 DEF f
    <3> QED
      BY <3>1
  <2>2. CASE ~ (h.magic[a] /\ h.next[a] = a + h.size[a] /\ h.next[a] # Null)
    BY <2>2 DEF BlockCheck
  <2> QED
    BY <2>1, <2>2
<1>9. w = [a \in Addr |-> [p \in Link |-> BlockCheck(h, a, p, w[h.next[a]][a])]]
  <2>1. ASSUME NEW a \in Addr
        PROVE  w[a] = [p \in Link |-> BlockCheck(h, a, p, w[h.next[a]][a])]
    <3>1. w[a] = r[a]
      OBVIOUS
    <3> HIDE DEF w
    <3> QED
      BY <1>7, <1>8, <3>1
  <2>2. w = [a \in Addr |-> w[a]]
    OBVIOUS
  <2> HIDE DEF w
  <2> QED
    BY <2>1, <2>2
<1> HIDE DEF w
<1>10. BlockEqn(h, w)
  BY <1>9 DEF BlockEqn, BlockCheck
<1> DEFINE W == CHOOSE u : BlockEqn(h, u)
<1>11. BlockEqn(h, W)
  BY <1>10
<1>12. BlockChainError(h) = W[h.first][Null]
  BY DEF BlockChainError, BlockEqn
<1> HIDE DEF W
<1>13. ASSUME NEW a \in Addr, NEW p \in Link
       PROVE  W[a][p] = BlockCheck(h, a, p, W[h.next[a]][a])
  BY <1>11, SMTT(40) DEF BlockEqn, BlockCheck
<1> QED
  BY <1>12, <1>13 DEF BlockWalk

LEMMA TiledAdvances ==
  ASSUME NEW h \in Heap, Tiled(h)
  PROVE  Advances(h)
<1> SUFFICES ASSUME NEW a \in Addr, h.magic[a], h.next[a] # Null, h.next[a] = a + h.size[a]
             PROVE  a < h.next[a]
  BY DEF Advances
<1>1. h.size[a] >= 1 /\ h.size[a] \in Int /\ a \in Int
  BY Neighbours, NullNotAddr
<1> QED
  BY <1>1

(* A sound chain passes.                                                   *)
LEMMA SoundChainPasses ==
  ASSUME NEW h, Consistent(h)
  PROVE  BlockChainError(h) = "SUCCESS"
<1>1. /\ h \in Heap /\ Tiled(h) /\ Null \notin Addr /\ Addr \subseteq 0 .. Size /\ Size \in Nat
      /\ Link = Addr \cup {Null} /\ 0 \in Addr /\ Addr \subseteq Int
  BY NullNotAddr, HeapAssumption DEF Consistent, Addr, Link
<1>2. PICK w : BlockWalk(h, w)
  BY <1>1, TiledAdvances, BlockWalkExists
<1> DEFINE T == {a \in Addr : h.magic[a] /\ w[a][h.prev[a]] # "SUCCESS"}
<1>3. T = {}
  <2> SUFFICES ASSUME T # {} PROVE FALSE
    OBVIOUS
  <2>1. T \in SUBSET (0 .. Size)
    BY <1>1
  <2>2. PICK a \in T : \A m \in T : m <= a
    <3> HIDE DEF T
    <3> QED
      BY <1>1, <2>1, GreatestNat
  <2>3. a \in Addr /\ h.magic[a] /\ w[a][h.prev[a]] # "SUCCESS" /\ h.prev[a] \in Link
    BY <1>1, <2>2, Neighbours
  <2>4. w[a][h.prev[a]] = BlockCheck(h, a, h.prev[a], w[h.next[a]][a])
    BY <1>2, <2>3 DEF BlockWalk
  <2>5. h.next[a] = IF a + h.size[a] = Size THEN Null ELSE a + h.size[a]
    BY <1>1, <2>3 DEF Tiled
  <2>6. CASE h.next[a] = Null
    <3>1. a + h.size[a] = Size
      BY <1>1, <2>3, <2>5, <2>6, Neighbours DEF Addr, Null
    <3> QED
      BY <2>3, <2>4, <2>6, <3>1 DEF BlockCheck
  <2>7. CASE h.next[a] # Null
    <3>1. /\ h.next[a] \in Addr /\ h.magic[h.next[a]] /\ h.prev[h.next[a]] = a
          /\ h.next[a] = a + h.size[a]
      BY <1>1, <2>3, <2>7, Neighbours
    <3>2. a < h.next[a]
      BY <1>1, <2>3, <2>7, <3>1, TiledAdvances DEF Advances
    <3>3. h.next[a] \notin T
      <4> HIDE DEF T
      <4>1. h.next[a] \in Int /\ a \in Int
        BY <1>1, <2>3, <3>1
      <4> QED
        BY <2>2, <3>2, <4>1
    <3>4. w[h.next[a]][a] = "SUCCESS"
      BY <3>1, <3>3
    <3> QED
      BY <2>3, <2>4, <2>7, <3>1, <3>4 DEF BlockCheck
  <2> QED
    BY <2>6, <2>7
<1>4. h.first = 0 /\ h.magic[0] /\ h.prev[0] = Null
  BY <1>1 DEF Tiled
<1> QED
  BY <1>1, <1>2, <1>3, <1>4 DEF BlockWalk

(* A chain in which one word of block a was overwritten does not: the walk *)
(* reaches a as before, and there the words contradict each other.         *)
LEMMA DamagedChainFails ==
  ASSUME NEW h, Consistent(h), NEW a \in Addr, h.magic[a],
         NEW g \in Heap, g.magic = h.magic, g.first = h.first,
         \A c \in Addr : c # a => /\ g.size[c] = h.size[c] /\ g.next[c] = h.next[c]
                                  /\ g.prev[c] = h.prev[c],
         g.size[a] = h.size[a] \/ g.next[a] = h.next[a],
         ~ (g.size[a] = h.size[a] /\ g.next[a] = h.next[a] /\ g.prev[a] = h.prev[a])
  PROVE  BlockChainError(g) # "SUCCESS"
<1> SUFFICES ASSUME BlockChainError(g) = "SUCCESS" PROVE FALSE
  OBVIOUS
<1>1. /\ h \in Heap /\ Tiled(h) /\ Null \notin Addr /\ Addr = 0 .. Size - 1 /\ Size \in Nat
      /\ Link = Addr \cup {Null} /\ 0 \in Addr /\ Addr \subseteq Int /\ Null = -1
      /\ \A c \in Addr : h.size[c] \in Int /\ g.size[c] \in Int /\ g.next[c] \in Link
  <2>1. /\ h \in Heap /\ Tiled(h) /\ Null \notin Addr /\ Addr = 0 .. Size - 1 /\ Size \in Nat
        /\ Link = Addr \cup {Null} /\ Addr \subseteq Int /\ Null = -1
    BY NullNotAddr, HeapAssumption DEF Consistent, Addr, Link, Null
  <2>2. 0 \in Addr
    BY HeapAssumption DEF Addr
  <2>3. ASSUME NEW c \in Addr
        PROVE  h.size[c] \in Int /\ g.size[c] \in Int /\ g.next[c] \in Link
    <3>1. h \in Heap
      BY DEF Consistent
    <3>2. h.size[c] \in 0 .. Size /\ g.size[c] \in 0 .. Size /\ g.next[c] \in Link
      BY <3>1 DEF Heap
    <3> QED
      BY <3>2, HeapAssumption
  <2> QED
    BY <2>1, <2>2, <2>3
<1>2. /\ h.size[a] >= 1
      /\ h.next[a] = IF a + h.size[a] = Size THEN Null ELSE a + h.size[a]
  BY <1>1 DEF Tiled
<1>3. Advances(g)
  <2> SUFFICES ASSUME NEW c \in Addr, g.magic[c], g.next[c] # Null,
                      g.next[c] = c + g.size[c]
               PROVE  c < g.next[c]
    BY DEF Advances
  <2>1. h.size[c] >= 1 /\ h.size[c] \in Int /\ c \in Int
    BY <1>1 DEF Tiled
  <2>2. CASE g.size[c] = h.size[c]
    BY <2>1, <2>2
  <2>3. CASE g.size[c] # h.size[c]
    <3>1. c = a /\ g.next[a] = h.next[a]
      BY <2>3
    <3>2. h.next[a] = a + h.size[a]
      BY <1>2, <3>1
    <3> QED
      BY <2>1, <3>1, <3>2
  <2> QED
    BY <2>2, <2>3
<1>4. PICK w : BlockWalk(g, w)
  BY <1>3, BlockWalkExists
<1> DEFINE T == {c \in 0 .. a : h.magic[c] /\ w[c][h.prev[c]] = "SUCCESS"}
<1>5. 0 \in T
  <2>1. h.first = 0 /\ h.magic[0] /\ h.prev[0] = Null
    BY <1>1 DEF Tiled
  <2>2. 0 \in 0 .. a
    BY <1>1
  <2> QED
    BY <1>4, <2>1, <2>2 DEF BlockWalk
<1>6. PICK c \in T : \A m \in T : m <= c
  <2>1. a \in Nat /\ T \in SUBSET (0 .. a)
    BY <1>1
  <2> HIDE DEF T
  <2> QED
    BY <1>5, <2>1, GreatestNat
<1>7. c \in Addr /\ c <= a /\ h.magic[c] /\ w[c][h.prev[c]] = "SUCCESS" /\ h.prev[c] \in Link
  BY <1>1, <1>6, Neighbours
<1>8. w[c][h.prev[c]] = BlockCheck(g, c, h.prev[c], w[g.next[c]][c])
  BY <1>4, <1>7 DEF BlockWalk
<1>9. /\ g.prev[c] = h.prev[c]
      /\ g.next[c] = Null => c + g.size[c] = Size
      /\ g.next[c] # Null => g.next[c] = c + g.size[c] /\ w[g.next[c]][c] = "SUCCESS"
  BY <1>7, <1>8 DEF BlockCheck
<1>10. CASE c = a
  <2>1. g.prev[a] = h.prev[a]
    BY <1>9, <1>10
  <2>2. CASE g.size[a] = h.size[a]
    <3>1. g.next[a] # h.next[a]
      BY <2>1, <2>2
    <3>2. CASE g.next[a] = Null
      BY <1>2, <1>9, <1>10, <2>2, <3>1, <3>2
    <3>3. CASE g.next[a] # Null
      <4>1. g.next[a] = a + h.size[a] /\ g.next[a] \in Addr
        BY <1>1, <1>9, <1>10, <2>2, <3>3
      <4>2. a + h.size[a] # Size
        BY <1>1, <4>1
      <4> QED
        BY <1>2, <3>1, <4>1, <4>2
    <3> QED
      BY <3>2, <3>3
  <2>3. CASE g.next[a] = h.next[a] /\ g.size[a] # h.size[a]
    <3>1. CASE h.next[a] = Null
      <4>1. a + h.size[a] = Size
        BY <1>1, <1>2, <3>1
      <4>2. a + g.size[a] = Size
        BY <1>9, <1>10, <2>3, <3>1
      <4> QED
        BY <1>1, <2>3, <4>1, <4>2
    <3>2. CASE h.next[a] # Null
      <4>1. h.next[a] = a + h.size[a] /\ h.next[a] = a + g.size[a]
        BY <1>2, <1>9, <1>10, <2>3, <3>2
      <4> QED
        BY <1>1, <2>3, <4>1
    <3> QED
      BY <3>1, <3>2
  <2> QED
    BY <2>2, <2>3
<1>11. CASE c # a
  <2>1. c < a /\ g.next[c] = h.next[c] /\ g.size[c] = h.size[c]
    BY <1>1, <1>7, <1>11
  <2>2. c + h.size[c] <= a /\ h.size[c] >= 1
    BY <1>1, <1>7, <2>1 DEF Tiled
  <2>3. h.next[c] = c + h.size[c] /\ h.next[c] # Null
    <3>1. c + h.size[c] # Size /\ c + h.size[c] # Null
      <4>1. c \in Int /\ c >= 0 /\ a \in Int /\ a < Size /\ h.size[c] \in Int
        BY <1>1, <1>7
      <4> QED
        BY <1>1, <2>2, <4>1
    <3>2. Tiled(h) /\ c \in Addr /\ h.magic[c]
      BY <1>1, <1>7
    <3>3. h.next[c] = IF c + h.size[c] = Size THEN Null ELSE c + h.size[c]
      BY <3>2 DEF Tiled
    <3> QED
      BY <3>1, <3>3
  <2>4. h.next[c] \in Addr /\ h.magic[h.next[c]] /\ h.prev[h.next[c]] = c
    <3>1. h \in Heap /\ Tiled(h) /\ c \in Addr /\ h.magic[c]
      BY <1>1, <1>7
    <3> HIDE DEF T
    <3> QED
      BY <2>3, <3>1, Neighbours
  <2>5. w[h.next[c]][c] = "SUCCESS"
    BY <1>9, <2>1, <2>3
  <2>6. h.next[c] \in 0 .. a /\ c < h.next[c]
    BY <1>1, <1>7, <2>2, <2>3
  <2>7. h.next[c] \in T
    BY <2>4, <2>5, <2>6
  <2> HIDE DEF T
  <2> QED
    BY <1>1, <1>6, <1>7, <2>4, <2>6, <2>7
<1> QED
  BY <1>10, <1>11


-----------------------------------------------------------------------------
(* The free chains, from header a that was reached from header p.          *)
BucketCheck(h, a, p, rest) ==
  IF h.fprev[a] # p THEN "INVALID_FPREV_LINK" ELSE IF ~ h.free[a] THEN "BLOCK_NOT_FREE" ELSE rest
BucketEqn(h, w) ==
  w = [a \in Link |-> [p \in Link |->
        IF a = Null THEN "SUCCESS"
        ELSE IF h.fprev[a] # p THEN "INVALID_FPREV_LINK"
        ELSE IF ~ h.free[a] THEN "BLOCK_NOT_FREE"
        ELSE w[h.fnext[a]][a]]]
BucketWalk(h, w) ==
  /\ \A b \in Buckets : BucketError(h, b) = w[h.head[b]][Null]
  /\ \A p \in Link : w[Null][p] = "SUCCESS"
  /\ \A a \in Addr, p \in Link : w[a][p] = BucketCheck(h, a, p, w[h.fnext[a]][a])

LEMMA BucketWalkExists ==
  ASSUME NEW h \in Heap, NoLoop(h.fnext)
  PROVE  \E w : BucketWalk(h, w)
<1> DEFINE V == [Link -> Verdict]
           v0 == [p \in Link |-> "SUCCESS"]
           Step == [a \in Addr |-> [v \in V |-> [p \in Link |-> BucketCheck(h, a, p, v[a])]]]
<1>1. h.fnext \in [Addr -> Link] /\ Null \notin Addr /\ Link = Addr \cup {Null}
  BY NullNotAddr DEF Heap, Link
<1>2. Step \in [Addr -> [V -> V]]
  <2>1. ASSUME NEW a \in Addr, NEW v \in V, NEW p \in Link
        PROVE  BucketCheck(h, a, p, v[a]) \in Verdict
    <3>1. v[a] \in Verdict
      BY <1>1
    <3> QED
      BY <3>1 DEF BucketCheck, Verdict
  <2> QED
    BY <2>1
<1>3. v0 \in V
  BY DEF Verdict
<1> HIDE DEF Step
<1>4. PICK r : Recursive(h.fnext, V, v0, Step, r)
  <2> HIDE DEF V, v0
  <2> QED
    BY <1>1, <1>2, <1>3, LinkRecursion
<1>5. r \in [Link -> V] /\ r[Null] = v0
  BY <1>4 DEF Recursive
<1>6. ASSUME NEW a \in Addr
      PROVE  r[a] = [p \in Link |-> BucketCheck(h, a, p, r[h.fnext[a]][a])]
  <2>1. r[a] = Step[a][r[h.fnext[a]]] /\ r[h.fnext[a]] \in V
    BY <1>1, <1>4 DEF Recursive
  <2> QED
    BY <2>1 DEF Step
<1>7. BucketEqn(h, r)
  <2> DEFINE Row(a) == [p \in Link |->
               IF a = Null THEN "SUCCESS"
               ELSE IF h.fprev[a] # p THEN "INVALID_FPREV_LINK"
               ELSE IF ~ h.free[a] THEN "BLOCK_NOT_FREE"
               ELSE r[h.fnext[a]][a]]
  <2>1. ASSUME NEW a \in Link PROVE r[a] = Row(a)
    <3>1. CASE a = Null
      BY <1>5, <3>1
    <3>2. CASE a \in Addr
      <4>1. a # Null
        BY <1>1, <3>2
      <4> QED
        BY <1>6, <3>2, <4>1 DEF BucketCheck
    <3> QED
      BY <1>1, <3>1, <3>2
  <2>2. r = [a \in Link |-> r[a]]
    BY <1>5
  <2> HIDE DEF Row
  <2>3. r = [a \in Link |-> Row(a)]
    BY <2>1, <2>2
  <2> QED
    BY <2>3 DEF BucketEqn, Row
<1> DEFINE W == CHOOSE u : BucketEqn(h, u)
<1>8. BucketEqn(h, W)
  BY <1>7
<1>9. \A b \in Buckets : BucketError(h, b) = W[h.head[b]][Null]
  BY DEF BucketError, BucketEqn
<1> HIDE DEF W
<1>10. ASSUME NEW p \in Link PROVE W[Null][p] = "SUCCESS"
  BY <1>1, <1>8 DEF BucketEqn
<1>11. ASSUME NEW a \in Addr, NEW p \in Link
       PROVE  W[a][p] = BucketCheck(h, a, p, W[h.fnext[a]][a])
  <2>1. a \in Link /\ a # Null
    BY <1>1
  <2> QED
    BY <1>8, <2>1, SMTT(40) DEF BucketEqn, BucketCheck
<1> QED
  BY <1>9, <1>10, <1>11 DEF BucketWalk

(* Sound free chains pass.                                                 *)
LEMMA SoundBucketsPass ==
  ASSUME NEW h, Consistent(h), NEW b \in Buckets
  PROVE  BucketError(h, b) = "SUCCESS"
<1> DEFINE F == FreeSet(h)
<1>1. /\ h \in Heap /\ Mirrored(h, F) /\ NoLoop(h.fnext) /\ F \in SUBSET Addr
      /\ Null \notin Addr /\ Link = Addr \cup {Null} /\ (\A c \in F : h.free[c])
      /\ h.fnext \in [Addr -> Link] /\ h.fprev \in [Addr -> Link]
  BY NullNotAddr DEF Consistent, LinksOK, FreeSet, Link, Heap
<1> HIDE DEF F
<1>2. PICK w : BucketWalk(h, w)
  BY <1>1, BucketWalkExists
<1> DEFINE T == {c \in Link : c \in F => w[c][h.fprev[c]] = "SUCCESS"}
<1>3. Null \in T
  BY <1>1
<1>4. ASSUME NEW c \in Addr, h.fnext[c] \in T PROVE c \in T
  <2> SUFFICES ASSUME c \in F PROVE w[c][h.fprev[c]] = "SUCCESS"
    BY <1>1
  <2>1. w[c][h.fprev[c]] = w[h.fnext[c]][c]
    BY <1>1, <1>2 DEF BucketWalk, BucketCheck
  <2>2. CASE h.fnext[c] = Null
    BY <1>1, <1>2, <2>1, <2>2 DEF BucketWalk
  <2>3. CASE h.fnext[c] # Null
    <3>1. h.fnext[c] \in F /\ h.fprev[h.fnext[c]] = c
      BY <1>1, <2>3 DEF Mirrored
    <3> QED
      BY <1>4, <2>1, <3>1
  <2> QED
    BY <2>2, <2>3
<1>5. Link \subseteq T
  <2> HIDE DEF T
  <2> QED
    BY <1>1, <1>3, <1>4, LinkInduction
<1>6. BucketError(h, b) = w[h.head[b]][Null]
  BY <1>2 DEF BucketWalk
<1>7. CASE h.head[b] = Null
  BY <1>1, <1>2, <1>6, <1>7 DEF BucketWalk
<1>8. CASE h.head[b] # Null
  <2>1. h.head[b] \in F /\ h.fprev[h.head[b]] = Null
    BY <1>1, <1>8 DEF Mirrored
  <2>2. h.head[b] \in T
    BY <1>1, <1>5, <2>1
  <2> QED
    BY <1>6, <2>1, <2>2
<1> QED
  BY <1>7, <1>8

(* A free chain in which one back link was overwritten does not: the walk  *)
(* gets there by forward links alone.                                      *)
LEMMA DamagedBucketFails ==
  ASSUME NEW h, Consistent(h), NEW a \in Addr, h.free[a],
         NEW g \in Heap, g.free = h.free, g.fnext = h.fnext, g.head = h.head,
         \A c \in Addr : c # a => g.fprev[c] = h.fprev[c],
         g.fprev[a] # h.fprev[a]
  PROVE  \E b \in Buckets : BucketError(g, b) # "SUCCESS"
<1> DEFINE F == FreeSet(h)
           b == Bucket(h.req[a])
<1>1. /\ h \in Heap /\ Mirrored(h, F) /\ NoLoop(h.fnext) /\ NoLoop(h.fprev) /\ F \in SUBSET Addr
      /\ Null \notin Addr /\ Link = Addr \cup {Null} /\ a \in F
      /\ h.fnext \in [Addr -> Link] /\ h.fprev \in [Addr -> Link]
  BY NullNotAddr DEF Consistent, LinksOK, FreeSet, Link, Heap
<1>2. b \in Buckets
  BY <1>1, ReqBucket
<1> SUFFICES ASSUME BucketError(g, b) = "SUCCESS" PROVE FALSE
  BY <1>2
<1> HIDE DEF F
<1>3. PICK w : BucketWalk(g, w)
  BY <1>1, BucketWalkExists
<1> DEFINE In(c) == c \in F /\ Bucket(h.req[c]) = b
           T == {c \in Link : In(c) => w[c][h.fprev[c]] = "SUCCESS"}
<1>4. Null \in T
  BY <1>1
<1>5. ASSUME NEW c \in Addr, h.fprev[c] \in T PROVE c \in T
  <2> SUFFICES ASSUME In(c) PROVE w[c][h.fprev[c]] = "SUCCESS"
    BY <1>1
  <2> DEFINE p == h.fprev[c]
  <2>1. CASE p = Null
    <3>1. h.head[b] = c
      BY <1>1, <2>1 DEF Mirrored
    <3>2. w[g.head[b]][Null] = "SUCCESS"
      BY <1>2, <1>3 DEF BucketWalk
    <3> QED
      BY <2>1, <3>1, <3>2
  <2>2. CASE p # Null
    <3>1. p \in F /\ h.fnext[p] = c /\ Bucket(h.req[p]) = b
      <4>1. c \in F /\ Bucket(h.req[c]) = b
        OBVIOUS
      <4> HIDE DEF b
      <4> QED
        BY <1>1, <2>2, <4>1 DEF Mirrored
    <3>2. w[p][h.fprev[p]] = "SUCCESS" /\ p \in Addr /\ h.fprev[p] \in Link
      BY <1>1, <1>5, <3>1
    <3>3. w[p][h.fprev[p]] = BucketCheck(g, p, h.fprev[p], w[g.fnext[p]][p])
      BY <1>3, <3>2 DEF BucketWalk
    <3>4. w[g.fnext[p]][p] = "SUCCESS"
      <4> HIDE DEF p
      <4> QED
        BY <3>2, <3>3 DEF BucketCheck
    <3> QED
      BY <3>1, <3>4
  <2> QED
    BY <2>1, <2>2
<1>6. Link \subseteq T
  <2> HIDE DEF T
  <2> QED
    BY <1>1, <1>4, <1>5, LinkInduction
<1>7. w[a][h.fprev[a]] = "SUCCESS" /\ h.fprev[a] \in Link
  <2>1. a \in T
    BY <1>1, <1>6
  <2> QED
    BY <1>1, <2>1
<1>8. w[a][h.fprev[a]] = BucketCheck(g, a, h.fprev[a], w[g.fnext[a]][a])
  BY <1>3, <1>7 DEF BucketWalk
<1> QED
  BY <1>7, <1>8 DEF BucketCheck

(* With every bucket empty there is no free block.                         *)
LEMMA ExhaustedPasses ==
  ASSUME NEW h, Consistent(h), \A b \in Buckets : h.head[b] = Null
  PROVE  ExhaustedError(h) = "SUCCESS"
<1> DEFINE F == FreeSet(h)
<1>1. /\ h \in Heap /\ Mirrored(h, F) /\ NoLoop(h.fprev) /\ F \in SUBSET Addr
      /\ Null \notin Addr /\ (\A c \in Addr : h.free[c] <=> c \in F)
  BY NullNotAddr DEF Consistent, LinksOK, FreeSet
<1> HIDE DEF F
<1>2. F = {}
  <2> SUFFICES ASSUME F # {} PROVE FALSE
    OBVIOUS
  <2>1. PICK a \in F : h.fprev[a] \notin F
    BY <1>1 DEF NoLoop
  <2>2. h.head[Bucket(h.req[a])] = a /\ a # Null
    BY <1>1, <2>1 DEF Mirrored
  <2>3. Bucket(h.req[a]) \in Buckets
    BY <1>1, ReqBucket
  <2> QED
    BY <2>2, <2>3
<1>3. \A a \in Addr : ~ h.free[a] /\ h.fprev[a] = Null /\ h.fnext[a] = Null
  BY <1>1, <1>2 DEF Mirrored
<1> QED
  BY <1>3 DEF ExhaustedError

(* HeapValidate on the whole heap: sound heaps pass, and the check of any  *)
(* bucket decides when the block chain is sound.                           *)
LEMMA SoundHeapPasses ==
  ASSUME NEW h, Consistent(h)
  PROVE  HeapError(h) = "SUCCESS"
<1>1. BlockChainError(h) = "SUCCESS" /\ \A b \in Buckets : BucketError(h, b) = "SUCCESS"
  BY SoundChainPasses, SoundBucketsPass
<1>2. (\A b \in Buckets : h.head[b] = Null) => ExhaustedError(h) = "SUCCESS"
  BY ExhaustedPasses
<1> QED
  BY <1>1, <1>2 DEF HeapError

LEMMA BadBucketFails ==
  ASSUME NEW h, NEW b \in Buckets, BucketError(h, b) # "SUCCESS"
  PROVE  HeapError(h) # "SUCCESS"
<1> DEFINE bad == {c \in Buckets : BucketError(h, c) # "SUCCESS"}
<1>1. bad \in SUBSET Nat /\ bad # {}
  BY DEF Buckets
<1>2. HeapError(h) = IF BlockChainError(h) # "SUCCESS" THEN BlockChainError(h)
                     ELSE BucketError(h, Min(bad))
  BY <1>1 DEF HeapError
<1> HIDE DEF bad
<1>3. \E m \in bad : \A k \in bad : m <= k
  BY <1>1, LeastNat
<1>4. Min(bad) \in bad
  BY <1>3 DEF Min
<1>5. BucketError(h, Min(bad)) # "SUCCESS"
  BY <1>4 DEF bad
<1> QED
  BY <1>2, <1>5

-----------------------------------------------------------------------------
(* HeapValidate on one pointer: p is reached from a block when it is the   *)
(* block or reached from the next one.  Links are followed out of any      *)
(* address here, so the recursion is not known to end; but the least set   *)
(* of addresses that lead to p satisfies it, and on the blocks there is    *)
(* no other solution.                                                      *)
ReachEqn(h, p, w) == w = [a \in Link |-> a # Null /\ (a = p \/ w[h.next[a]])]
Reaches(h, p, w) ==
  /\ InChain(h, p) <=> w[h.first]
  /\ ~ w[Null]
  /\ \A a \in Addr : w[a] <=> a = p \/ w[h.next[a]]

LEMMA ReachExists ==
  ASSUME NEW h \in Heap, NEW p \in Addr
  PROVE  \E w : Reaches(h, p, w)
<1> DEFINE Closed(S) == p \in S /\ \A c \in Addr : h.next[c] \in S => c \in S
           R == {a \in Addr : \A S \in SUBSET Addr : Closed(S) => a \in S}
           w == [a \in Link |-> a \in R]
<1>1. h.next \in [Addr -> Link] /\ Null \notin Addr /\ Link = Addr \cup {Null}
  BY NullNotAddr DEF Heap, Link
<1>2. ASSUME NEW a \in Addr PROVE a \in R <=> a = p \/ h.next[a] \in R
  <2>1. ASSUME a = p \/ h.next[a] \in R PROVE a \in R
    BY <2>1
  <2>2. ASSUME a \in R, a # p, h.next[a] \notin R PROVE FALSE
    <3>1. PICK S \in SUBSET Addr : Closed(S) /\ h.next[a] \notin S
      <4>1. CASE h.next[a] = Null
        <5>1. Closed(Addr) /\ h.next[a] \notin Addr
          BY <1>1, <4>1
        <5> QED
          BY <5>1
      <4>2. CASE h.next[a] # Null
        BY <1>1, <2>2, <4>2
      <4> QED
        BY <4>1, <4>2
    <3>2. Closed(S \ {a})
      BY <2>2, <3>1
    <3>3. S \ {a} \in SUBSET Addr
      OBVIOUS
    <3> QED
      BY <2>2, <3>2, <3>3
  <2> QED
    BY <2>1, <2>2
<1>3. ReachEqn(h, p, w)
  <2> DEFINE v(a) == a # Null /\ (a = p \/ w[h.next[a]])
  <2>1. ASSUME NEW a \in Addr PROVE a \in R <=> v(a)
    <3>1. a # Null /\ h.next[a] \in Link
      BY <1>1
    <3>2. w[h.next[a]] <=> h.next[a] \in R
      <4> HIDE DEF R
      <4> QED
        BY <3>1, Zenon
    <3> HIDE DEF R, w
    <3> QED
      BY <1>2, <3>1, <3>2, Zenon
  <2>2. Null \in R <=> v(Null)
    <3>1. Null \notin R
      BY <1>1
    <3> QED
      BY <3>1, Zenon
  <2>3. ASSUME NEW a \in Link PROVE (a \in R) = v(a)
    <3>1. a \in R <=> v(a)
      <4> HIDE DEF R, v
      <4> QED
        BY <1>1, <2>1, <2>2
    <3> HIDE DEF R, w
    <3>2. CASE a \in R
      BY <3>1, <3>2
    <3>3. CASE a \notin R
      BY <3>1, <3>3
    <3> QED
      BY <3>2, <3>3
  <2> HIDE DEF R
  <2> QED
    BY <2>3, Zenon DEF ReachEqn
<1> HIDE DEF w
<1> DEFINE W == CHOOSE u : ReachEqn(h, p, u)
<1>4. ReachEqn(h, p, W)
  BY <1>3
<1>5. InChain(h, p) <=> W[h.first]
  BY Zenon DEF InChain, ReachEqn
<1> HIDE DEF W
<1>6. ~ W[Null]
  <2>1. Null \in Link
    BY <1>1
  <2>2. W[Null] = (Null # Null /\ (Null = p \/ W[h.next[Null]]))
    BY <1>4, <2>1, Zenon DEF ReachEqn
  <2> QED
    BY <2>2
<1>7. ASSUME NEW a \in Addr
      PROVE  W[a] <=> a = p \/ W[h.next[a]]
  <2>1. a \in Link /\ a # Null
    BY <1>1
  <2>2. W[a] = (a # Null /\ (a = p \/ W[h.next[a]]))
    BY <1>4, <2>1, Zenon DEF ReachEqn
  <2> QED
    BY <2>1, <2>2, Zenon
<1> QED
  BY <1>5, <1>6, <1>7, Zenon DEF Reaches

LEMMA BlocksInChain ==
  ASSUME NEW h, Consistent(h), NEW p \in Addr, h.magic[p]
  PROVE  InChain(h, p)
<1>1. /\ h \in Heap /\ Tiled(h) /\ h.first = 0 /\ h.magic[0] /\ 0 \in Addr
      /\ Addr \subseteq Int /\ p \in Nat /\ 0 \in 0 .. p /\ 0 .. p \subseteq Addr
  <2>1. h \in Heap /\ Tiled(h)
    BY DEF Consistent
  <2> QED
    BY <2>1, HeapAssumption DEF Tiled, Addr
<1>2. PICK w : Reaches(h, p, w)
  BY <1>1, ReachExists
<1> DEFINE S == {c \in 0 .. p : h.magic[c] /\ ~ w[c]}
<1>3. S = {}
  <2> SUFFICES ASSUME S # {} PROVE FALSE
    OBVIOUS
  <2>1. PICK c \in S : \A m \in S : m <= c
    <3>1. S \in SUBSET (0 .. p)
      OBVIOUS
    <3> HIDE DEF S
    <3> QED
      BY <1>1, <3>1, GreatestNat
  <2>2. c \in Addr /\ h.magic[c] /\ ~ w[c] /\ c <= p /\ c \in Int
    BY <1>1, <2>1
  <2>3. c # p /\ ~ w[h.next[c]]
    BY <1>2, <2>2 DEF Reaches
  <2>4. c < p
    BY <1>1, <2>2, <2>3
  <2>5. c + h.size[c] <= p /\ h.size[c] \in Int /\ h.size[c] >= 1
    BY <1>1, <2>2, <2>4, Neighbours DEF Tiled
  <2>6. h.next[c] = c + h.size[c] /\ h.next[c] # Null
    <3>1. c + h.size[c] # Size /\ c + h.size[c] # Null
      <4>1. p < Size /\ c >= 0
        BY <2>2, HeapAssumption DEF Addr
      <4> QED
        BY <1>1, <2>2, <2>5, <4>1, HeapAssumption DEF Null
    <3> QED
      BY <1>1, <2>2, <3>1 DEF Tiled
  <2>7. h.magic[h.next[c]]
    BY <1>1, <2>2, <2>6, Neighbours
  <2>8. h.next[c] \in 0 .. p /\ c < h.next[c]
    BY <1>1, <2>2, <2>5, <2>6, HeapAssumption DEF Addr
  <2>9. h.next[c] \in S
    BY <2>3, <2>7, <2>8
  <2> HIDE DEF S
  <2>10. h.next[c] <= c /\ h.next[c] \in Int
    BY <2>1, <2>8, <2>9
  <2> QED
    BY <2>2, <2>8, <2>10
<1>4. w[0]
  BY <1>1, <1>3
<1> QED
  BY <1>1, <1>2, <1>4 DEF Reaches

LEMMA BlockErrorExact ==
  ASSUME NEW h, Consistent(h), NEW p \in Addr
  PROVE  BlockError(h, p) = "SUCCESS" <=> h.magic[p]
<1>1. ASSUME ~ h.magic[p] PROVE BlockError(h, p) # "SUCCESS"
  BY <1>1 DEF BlockError
<1>2. ASSUME h.magic[p] PROVE BlockError(h, p) = "SUCCESS"
  <2>1. InChain(h, p)
    BY <1>2, BlocksInChain
  <2>2. h.prev[p] # Null => h.next[h.prev[p]] = p
    BY <1>2 DEF Consistent, Tiled
  <2>3. h.next[p] # Null => h.prev[h.next[p]] = p
    BY <1>2 DEF Consistent, Tiled
  <2>4. h.free[p] => /\ h.fprev[p] # Null => h.fnext[h.fprev[p]] = p
                     /\ h.fnext[p] # Null => h.fprev[h.fnext[p]] = p
    BY DEF Consistent, LinksOK, Mirrored, FreeSet
  <2> QED
    BY <1>2, <2>1, <2>2, <2>3, <2>4 DEF BlockError
<1> QED
  BY <1>1, <1>2

(* One word of a block overwritten, by its field.                          *)
LEMMA DamageDetected ==
  ASSUME NEW h, Consistent(h), NEW a \in Addr, h.magic[a]
  PROVE  /\ \A n \in 0 .. Size : n # h.size[a] =>
              HeapError([h EXCEPT !.size = Linked(@, a, n)]) # "SUCCESS"
         /\ \A x \in Link :
              /\ x # h.next[a] => HeapError([h EXCEPT !.next = Linked(@, a, x)]) # "SUCCESS"
              /\ x # h.prev[a] => HeapError([h EXCEPT !.prev = Linked(@, a, x)]) # "SUCCESS"
              /\ h.free[a] /\ x # h.fprev[a] =>
                   HeapError([h EXCEPT !.fprev = Linked(@, a, x)]) # "SUCCESS"
<1>1. h \in Heap
  BY DEF Consistent
<1>2. \A g : BlockChainError(g) # "SUCCESS" => HeapError(g) # "SUCCESS"
  BY DEF HeapError
<1>3. ASSUME NEW n \in 0 .. Size, n # h.size[a]
      PROVE  HeapError([h EXCEPT !.size = Linked(@, a, n)]) # "SUCCESS"
  <2> DEFINE g == [h EXCEPT !.size = Linked(@, a, n)]
  <2>1. Linked(h.size, a, n) \in [Addr -> 0 .. Size]
    BY <1>1, LinkedType DEF Heap
  <2>2. /\ g \in Heap /\ g.magic = h.magic /\ g.first = h.first
        /\ g.next = h.next /\ g.prev = h.prev /\ g.size = Linked(h.size, a, n)
    BY <1>1, <2>1 DEF Heap
  <2> HIDE DEF g
  <2>3. g.size[a] = n /\ \A c \in Addr : c # a => g.size[c] = h.size[c]
    BY <2>2 DEF Linked
  <2>4. BlockChainError(g) # "SUCCESS"
    BY <1>3, <2>2, <2>3, DamagedChainFails
  <2> QED
    BY <1>2, <2>4 DEF g
<1>4. ASSUME NEW x \in Link, x # h.next[a]
      PROVE  HeapError([h EXCEPT !.next = Linked(@, a, x)]) # "SUCCESS"
  <2> DEFINE g == [h EXCEPT !.next = Linked(@, a, x)]
  <2>1. Linked(h.next, a, x) \in [Addr -> Link]
    BY <1>1, LinkedType DEF Heap
  <2>2. /\ g \in Heap /\ g.magic = h.magic /\ g.first = h.first
        /\ g.size = h.size /\ g.prev = h.prev /\ g.next = Linked(h.next, a, x)
    BY <1>1, <2>1 DEF Heap
  <2> HIDE DEF g
  <2>3. g.next[a] = x /\ \A c \in Addr : c # a => g.next[c] = h.next[c]
    BY <2>2 DEF Linked
  <2>4. BlockChainError(g) # "SUCCESS"
    BY <1>4, <2>2, <2>3, DamagedChainFails
  <2> QED
    BY <1>2, <2>4 DEF g
<1>5. ASSUME NEW x \in Link, x # h.prev[a]
      PROVE  HeapError([h EXCEPT !.prev = Linked(@, a, x)]) # "SUCCESS"
  <2> DEFINE g == [h EXCEPT !.prev = Linked(@, a, x)]
  <2>1. Linked(h.prev, a, x) \in [Addr -> Link]
    BY <1>1, LinkedType DEF Heap
  <2>2. /\ g \in Heap /\ g.magic = h.magic /\ g.first = h.first
        /\ g.size = h.size /\ g.next = h.next /\ g.prev = Linked(h.prev, a, x)
    BY <1>1, <2>1 DEF Heap
  <2> HIDE DEF g
  <2>3. g.prev[a] = x /\ \A c \in Addr : c # a => g.prev[c] = h.prev[c]
    BY <2>2 DEF Linked
  <2>4. BlockChainError(g) # "SUCCESS"
    BY <1>5, <2>2, <2>3, DamagedChainFails
  <2> QED
    BY <1>2, <2>4 DEF g
<1>6. ASSUME NEW x \in Link, h.free[a], x # h.fprev[a]
      PROVE  HeapError([h EXCEPT !.fprev = Linked(@, a, x)]) # "SUCCESS"
  <2> DEFINE g == [h EXCEPT !.fprev = Linked(@, a, x)]
  <2>1. Linked(h.fprev, a, x) \in [Addr -> Link]
    BY <1>1, LinkedType DEF Heap
  <2>2. /\ g \in Heap /\ g.free = h.free /\ g.fnext = h.fnext
        /\ g.head = h.head /\ g.fprev = Linked(h.fprev, a, x)
    BY <1>1, <2>1 DEF Heap
  <2> HIDE DEF g
  <2>3. g.fprev[a] = x /\ \A c \in Addr : c # a => g.fprev[c] = h.fprev[c]
    BY <2>2 DEF Linked
  <2>4. \E b \in Buckets : BucketError(g, b) # "SUCCESS"
    BY <1>6, <2>2, <2>3, DamagedBucketFails
  <2> QED
    BY <2>4, BadBucketFails DEF g
<1> QED
  BY <1>3, <1>4, <1>5, <1>6

-----------------------------------------------------------------------------
(* The invariant of a heap that is walked, compacted and validated between *)
(* the calls, and what each kind of step adds to it.                       *)
LEMMA CallKeeps ==
  WalkInv /\ CompactNext /\ due' = due \cap Live' /\ UNCHANGED entry
    => WalkInv' /\ err' # "NO_MORE_ITEMS"
<1> SUFFICES ASSUME WalkInv, CompactNext, due' = due \cap Live', UNCHANGED entry
             PROVE  WalkInv' /\ err' # "NO_MORE_ITEMS"
  OBVIOUS
<1>1. HeapInv' /\ err' # "NO_MORE_ITEMS"
  <2>1. CASE Next
    BY <2>1, CallInv DEF WalkInv, IInv, Errors
  <2>2. CASE Compact
    BY <2>2, CompactInv DEF WalkInv, Compact
  <2> QED
    BY <2>1, <2>2 DEF CompactNext
<1>2. Ahead'
  <2>1. /\ due' \subseteq Live' /\ due' \subseteq due /\ entry' = entry /\ entry \in Link
        /\ \A a \in due : entry # Null /\ entry < a
    BY DEF WalkInv, Ahead
  <2> QED
    BY <2>1 DEF Ahead
<1> QED
  BY <1>1, <1>2 DEF WalkInv

LEMMA ValidateKeeps ==
  ASSUME WalkInv, NEW p \in Link, Validate(p), UNCHANGED <<entry, due>>
  PROVE  WalkInv' /\ err' # "NO_MORE_ITEMS" /\ UNCHANGED heap
<1>1. heap' = heap /\ entry' = entry /\ due' = due /\ Live' = Live
  BY DEF Validate, Live, Blocks
<1>2. WalkInv'
  BY <1>1 DEF WalkInv, HeapInv, Ahead
<1>3. HeapError(heap) # "NO_MORE_ITEMS"
  BY SoundHeapPasses DEF WalkInv, HeapInv
<1>4. BlockError(heap, p) # "NO_MORE_ITEMS"
  BY DEF BlockError
<1>5. err' = IF p = Null THEN HeapError(heap) ELSE BlockError(heap, p)
  BY DEF Validate
<1> QED
  BY <1>1, <1>2, <1>3, <1>4, <1>5

LEMMA WalkNextInv == WalkInv /\ WalkNext => WalkInv' /\ (err' = "NO_MORE_ITEMS" => due = {})
<1> SUFFICES ASSUME WalkInv, WalkNext
             PROVE  WalkInv' /\ (err' = "NO_MORE_ITEMS" => due = {})
  OBVIOUS
<1>1. CASE CompactNext /\ due' = due \cap Live' /\ UNCHANGED entry
  BY <1>1, CallKeeps
<1>2. ASSUME NEW e \in {entry, Null}, Walk(e), largest' = 0
      PROVE  WalkInv' /\ (err' = "NO_MORE_ITEMS" => due = {})
  BY <1>2, WalkStep
<1>3. ASSUME NEW p \in Link, Validate(p), UNCHANGED <<entry, due>>
      PROVE  WalkInv' /\ (err' = "NO_MORE_ITEMS" => due = {})
  BY <1>3, ValidateKeeps
<1> QED
  BY <1>1, <1>2, <1>3 DEF WalkNext

LEMMA WalkInductive == WalkSpec => []WalkInv
<1>1. WalkInv /\ [WalkNext]_walkVars => WalkInv'
  <2>1. WalkInv /\ UNCHANGED walkVars => WalkInv'
    BY DEF walkVars, WalkInv, HeapInv, Ahead, Live, Blocks
  <2> QED
    BY <2>1, WalkNextInv
<1> QED
  BY <1>1, WalkInitInv, PTL DEF WalkSpec

(* HeapValidate accepts the heap after any sequence of calls, and of all   *)
(* addresses exactly those of blocks, on heaps of every size.              *)
THEOREM NoFalseAlarms == WalkSpec => []NoFalseAlarm
<1>1. WalkInv => NoFalseAlarm
  <2> SUFFICES ASSUME Consistent(heap) PROVE NoFalseAlarm
    BY DEF WalkInv, HeapInv
  <2>1. HeapError(heap) = "SUCCESS"
    BY SoundHeapPasses
  <2>2. \A p \in Addr : BlockError(heap, p) = "SUCCESS" <=> p \in Blocks
    BY BlockErrorExact DEF Blocks
  <2> QED
    BY <2>1, <2>2 DEF NoFalseAlarm
<1> QED
  BY <1>1, WalkInductive, PTL

(* It finds every single overwritten size or link of the block chain, and  *)
(* every overwritten back link of a free block, wherever the block is and  *)
(* whatever was written.                                                   *)
THEOREM DamageIsAlwaysFound == WalkSpec => []DamageIsFound
<1>1. WalkInv => DamageIsFound
  <2> SUFFICES ASSUME Consistent(heap) PROVE DamageIsFound
    BY DEF WalkInv, HeapInv
  <2> QED
    BY DamageDetected DEF DamageIsFound, Blocks
<1> QED
  BY <1>1, WalkInductive, PTL

(* One pass of HeapCompact leaves no two free blocks side by side, though  *)
(* its merges move blocks between the buckets it walks; the clients keep   *)
(* what they hold, and its answer is exactly the largest request that the  *)
(* next HeapAlloc can serve.                                               *)
THEOREM CompactionIsComplete == WalkSpec => CompactMergesAll
<1> DEFINE Answered == /\ NoAdjacentFree' /\ ExactlyFits' /\ Live' = Live
                       /\ \A a \in Live : heap'.req[a] = heap.req[a]
<1>1. Consistent(heap)' /\ Separated(heap)' /\ (largest = LargestFree(heap))' => ExactlyFits'
  BY AnswerIsExact, PTL
<1>2. WalkInv /\ Compact => Answered
  <2> SUFFICES ASSUME WalkInv, Compact PROVE Answered
    OBVIOUS
  <2>1. /\ Consistent(heap') /\ SameHeld(heap, heap') /\ Separated(heap')
        /\ largest' = LargestFree(heap')
    BY CompactInv DEF WalkInv, HeapInv, Compact
  <2>2. ExactlyFits'
    BY <1>1, <2>1
  <2>3. NoAdjacentFree'
    BY <2>1 DEF NoAdjacentFree, Separated, Blocks, IsFree
  <2>4. Live' = Live /\ \A a \in Live : heap'.req[a] = heap.req[a]
    BY <2>1 DEF SameHeld, Live, Blocks, Held
  <2> QED
    BY <2>2, <2>3, <2>4
<1>3. WalkInv /\ WalkInv' => [Compact => Answered]_<<heap, err, largest>>
  BY <1>2
<1> QED
  BY <1>3, WalkInductive, PTL DEF CompactMergesAll

(* An enumeration that ends has reported every block that was in use from  *)
(* its beginning on, whatever calls were made between its steps.           *)
THEOREM EnumerationIsComplete == WalkSpec => NothingMissed
<1>1. WalkInv /\ [WalkNext]_walkVars => [err' = "NO_MORE_ITEMS" => due = {}]_walkVars
  BY WalkNextInv
<1> QED
  BY <1>1, WalkInductive, PTL DEF WalkSpec, NothingMissed
=============================================================================
