----------------------------- MODULE HeapBlocks -----------------------------
(***************************************************************************)
(* The block allocator of lib/heap: one heap whose data area is tiled by   *)
(* blocks in a doubly linked chain, its free blocks also linked into ten   *)
(* size buckets.  Sizes and addresses are counted in granules of           *)
(* BLK_HDR_SIZE = 32 bytes, the unit every size is rounded up to; a block  *)
(* is known by the granule of its header, and its data starts in the next. *)
(* The allocator is sequential: an action is one whole API call.           *)
(***************************************************************************)
EXTENDS Integers, FiniteSetsExt, SequencesExt

CONSTANTS
  Size,        \* granules between the heap header and the end marker
  MaxRequest,  \* the largest request, in granules, that the clients make
  Coalescing   \* FALSE when the heap has FLG_HEAP_DISABLE_COALESCING

ASSUME HeapAssumption ==
  /\ Size \in Nat \ {0} /\ MaxRequest \in Nat /\ Coalescing \in BOOLEAN

Addr == 0 .. Size - 1
Null == -1
Link == Addr \cup {Null}
Buckets == 0 .. 9

VARIABLES
  heap,  \* block headers and bucket heads, see Heap below
  err    \* __HeapError

vars == <<heap, err>>

(* A field per header word, indexed by the header's granule, so that what  *)
(* a header held stays in memory until it is overwritten; magic is FALSE   *)
(* where there is no BLOCK_MAGIC.  req is bhRequestSize, in granules.      *)
Heap == [magic : [Addr -> BOOLEAN], free : [Addr -> BOOLEAN],
         size : [Addr -> 0 .. Size], req : [Addr -> 0 .. Size],
         prev : [Addr -> Link], next : [Addr -> Link],
         fprev : [Addr -> Link], fnext : [Addr -> Link],
         first : Link, head : [Buckets -> Link]]

(* __HeapGetBucketOffset: the bucket of a free block with d data granules. *)
Bucket(d) ==
  IF d <= 2 THEN 0 ELSE IF d <= 4 THEN 1 ELSE IF d <= 8 THEN 2
  ELSE IF d <= 16 THEN 3 ELSE IF d <= 32 THEN 4 ELSE IF d <= 128 THEN 5
  ELSE IF d <= 512 THEN 6 ELSE IF d <= 2048 THEN 7
  ELSE IF d <= 8192 THEN 8 ELSE 9

(* f with x mapped to y, and unchanged when x is NULL.                     *)
Linked(f, x, y) == [z \in Addr |-> IF z = x THEN y ELSE f[z]]

(* Fault variants: definitions named after the bug they carry stand beside *)
(* the definition they vary; no specification uses them.                   *)
UnlinkFreeOneWay(h, a) ==
  IF ~ h.free[a] THEN h
  ELSE [h EXCEPT
    !.head = [b \in Buckets |-> IF h.fprev[a] = Null /\ b = Bucket(h.req[a])
                                THEN h.fnext[a] ELSE h.head[b]],
    !.fnext = Linked(Linked(h.fnext, h.fprev[a], h.fnext[a]), a, Null),
    !.fprev = Linked(h.fprev, a, Null)]

(* __HeapUnlinkFromFreeBlockChain: the block's bucket is recomputed from   *)
(* bhRequestSize, so it must run before the size changes.                  *)
UnlinkFree(h, a) ==
  LET p == h.fprev[a]
      n == h.fnext[a]
  IN  IF ~ h.free[a] THEN h
      ELSE [h EXCEPT
        !.head = [b \in Buckets |->
                   IF p = Null /\ b = Bucket(h.req[a]) THEN n ELSE h.head[b]],
        !.fnext = Linked(Linked(h.fnext, p, n), a, Null),
        !.fprev = Linked(Linked(h.fprev, n, p), a, Null)]

(* A block becomes free: its header, and a LIFO insert into its bucket.    *)
InsertFree(h, a) ==
  LET d == h.size[a] - 1
      old == h.head[Bucket(d)]
  IN  [h EXCEPT
        !.free = Linked(h.free, a, TRUE),
        !.req = Linked(h.req, a, d),
        !.head = [b \in Buckets |-> IF b = Bucket(d) THEN a ELSE h.head[b]],
        !.fnext = Linked(h.fnext, a, old),
        !.fprev = Linked(Linked(h.fprev, old, a), a, Null)]

(* Cut block a down to n granules; the rest gets a header of its own.      *)
Split(h, a, n) ==
  LET r == a + n
      f == h.next[a]
  IN  [h EXCEPT
        !.magic = Linked(h.magic, r, TRUE),
        !.size = Linked(Linked(h.size, r, h.size[a] - n), a, n),
        !.next = Linked(Linked(h.next, r, f), a, r),
        !.prev = Linked(Linked(h.prev, f, r), r, a)]

(* Block a takes over the next block, which leaves the block chain (and,   *)
(* when it is free, its bucket) and has its header zeroed.                 *)
Absorb(h0, a) ==
  LET b == h0.next[a]
      h == UnlinkFree(h0, b)
      f == h.next[b]
  IN  [h EXCEPT
        !.magic = Linked(h.magic, b, FALSE),
        !.free = Linked(h.free, b, FALSE),
        !.size = Linked(Linked(h.size, a, h.size[a] + h.size[b]), b, 0),
        !.req = Linked(h.req, b, 0),
        !.next = Linked(Linked(h.next, a, f), b, Null),
        !.prev = Linked(Linked(h.prev, f, a), b, Null),
        !.fnext = Linked(h.fnext, b, Null),
        !.fprev = Linked(h.fprev, b, Null)]

IsFree(h, a) == a # Null /\ h.free[a]

(* __HeapCoalesce: the lowest of the adjacent free blocks survives and     *)
(* moves to the bucket of its new size; h is unchanged when there are none.*)
MergesBelowOnly(h, a) == IsFree(h, h.prev[a])
Merges(h, a) == IsFree(h, h.prev[a]) \/ IsFree(h, h.next[a])
Coalesce(h, a) ==
  LET below == IsFree(h, h.prev[a])
      above == IsFree(h, h.next[a])
      base == IF below THEN h.prev[a] ELSE a
      h1 == UnlinkFree(h, base)
      h2 == IF below THEN Absorb(h1, base) ELSE h1
      h3 == IF above THEN Absorb(h2, base) ELSE h2
  IN  IF Merges(h, a) THEN InsertFree(h3, base) ELSE h

(* The blocks of a bucket, and those HeapAlloc looks at for a request of d *)
(* data granules: its bucket and the larger ones, each from its head.      *)
Chain(h, b) ==
  LET walk[a \in Link] == IF a = Null THEN << >> ELSE <<a>> \o walk[h.fnext[a]]
  IN  walk[h.head[b]]
ScanOneBucket(h, d) == Chain(h, Bucket(d))
Scan(h, d) == FlattenSeq([i \in 1 .. 10 - Bucket(d) |-> Chain(h, Bucket(d) + i - 1)])

(* The first block found that is large enough, or that is not free and     *)
(* shows that the chain is corrupt; NULL when there is none.               *)
FirstFit(h, n) ==
  LET s == Scan(h, n - 1)
      hits == {i \in DOMAIN s : ~ h.free[s[i]] \/ h.size[s[i]] >= n}
  IN  IF hits = {} THEN Null ELSE s[Min(hits)]

(* Block a, in no bucket any more, is handed to a client.                  *)
Given(h, a, r) ==
  [h EXCEPT !.free = Linked(h.free, a, FALSE), !.req = Linked(h.req, a, r)]

(* Take the free block a for a request of r: a remainder larger than a     *)
(* header is split off and freed, a smaller one stays in the block.        *)
TakeBlock(h, a, r) ==
  LET rest == h.size[a] - (r + 1)
      h1 == UnlinkFree(h, a)
      h2 == IF rest > 1 THEN InsertFree(Split(h1, a, r + 1), a + r + 1) ELSE h1
  IN  Given(h2, a, r)

FreeBlock(h, a) ==
  IF Coalescing /\ Merges(h, a) THEN Coalesce(h, a) ELSE InsertFree(h, a)

Found(h, a, n) == a \in Addr /\ h.free[a] /\ h.size[a] >= n

(* The checks HeapFree and HeapReAlloc make on a pointer.                  *)
ValidBlock(h, a) == a \in Addr /\ h.magic[a] /\ ~ h.free[a]
-----------------------------------------------------------------------------
(* MachineHeapInitialize and HeapCreate: one free block.                   *)
Init ==
  /\ err = "SUCCESS"
  /\ heap = [magic |-> [a \in Addr |-> a = 0], free |-> [a \in Addr |-> a = 0],
             size |-> [a \in Addr |-> IF a = 0 THEN Size ELSE 0],
             req |-> [a \in Addr |-> IF a = 0 THEN Size - 1 ELSE 0],
             prev |-> [a \in Addr |-> Null], next |-> [a \in Addr |-> Null],
             fprev |-> [a \in Addr |-> Null], fnext |-> [a \in Addr |-> Null],
             first |-> 0,
             head |-> [b \in Buckets |-> IF b = Bucket(Size - 1) THEN 0 ELSE Null]]

Fail(e) == err' = e /\ UNCHANGED heap

(* HeapAlloc on its block path.                                            *)
Alloc(r) ==
  LET a == FirstFit(heap, r + 1)
  IN  \/ /\ Found(heap, a, r + 1)
         /\ heap' = TakeBlock(heap, a, r) /\ err' = "SUCCESS"
      \/ /\ ~ Found(heap, a, r + 1)
         /\ Fail(IF a = Null THEN "OUT_OF_MEMORY" ELSE "BLOCK_NOT_FREE")

(* HeapFree(NULL) is allowed; anything but a live block is refused.        *)
Free(p) ==
  \/ p = Null /\ err' = "SUCCESS" /\ UNCHANGED heap
  \/ p # Null /\ ~ ValidBlock(heap, p) /\ Fail("INVALID_BLOCK")
  \/ ValidBlock(heap, p) /\ heap' = FreeBlock(heap, p) /\ err' = "SUCCESS"

(* HeapReAlloc, for the four ways it can go once the pointer is valid: the *)
(* rounded size is the same, it shrinks, it grows into the next block, or  *)
(* the contents move.                                                      *)
ResizedTrimmed(h, p, r) ==
  [h EXCEPT !.req = Linked(h.req, p, r), !.size = Linked(h.size, p, r + 1)]
Resized(h, p, r) == [h EXCEPT !.req = Linked(h.req, p, r)]

Shrunk(h, p, r) ==
  LET f == p + r + 1
      h1 == InsertFree(Split(h, p, r + 1), f)
  IN  IF h.size[p] - (r + 1) <= 1 THEN Resized(h, p, r)
      ELSE Resized(IF Coalescing THEN Coalesce(h1, f) ELSE h1, p, r)

CanGrowIntoLive(h, p, r) ==
  h.next[p] # Null /\ h.size[h.next[p]] >= r + 1 - h.size[p]
CanGrow(h, p, r) == /\ IsFree(h, h.next[p])
                    /\ h.size[h.next[p]] >= r + 1 - h.size[p]

(* A remainder of one granule is still split off, as a free block without  *)
(* data: HeapReAlloc.a68:174 compares with blt where HeapAlloc has ble.    *)
Grown(h, p, r) ==
  LET rest == h.size[p] + h.size[h.next[p]] - (r + 1)
      h1 == Absorb(h, p)
  IN  IF rest = 0 THEN Resized(h1, p, r)
      ELSE Resized(InsertFree(Split(h1, p, r + 1), p + r + 1), p, r)

MoveTo(h, p, a, r) == FreeBlock(TakeBlock(h, a, r), p)

ReAlloc(p, r, inPlaceOnly) ==
  \/ ~ ValidBlock(heap, p) /\ Fail("INVALID_BLOCK")
  \/ /\ ValidBlock(heap, p) /\ r + 1 <= heap.size[p]
     /\ heap' = Shrunk(heap, p, r) /\ err' = "SUCCESS"
  \/ /\ ValidBlock(heap, p) /\ r + 1 > heap.size[p]
     /\ \/ /\ CanGrow(heap, p, r)
           /\ heap' = Grown(heap, p, r) /\ err' = "SUCCESS"
        \/ /\ ~ CanGrow(heap, p, r)
           /\ \/ inPlaceOnly /\ Fail("OUT_OF_MEMORY")
              \/ /\ ~ inPlaceOnly
                 /\ LET a == FirstFit(heap, r + 1)
                    IN  \/ /\ Found(heap, a, r + 1)
                           /\ heap' = MoveTo(heap, p, a, r) /\ err' = "SUCCESS"
                        \/ /\ ~ Found(heap, a, r + 1)
                           /\ Fail(IF a = Null THEN "OUT_OF_MEMORY"
                                   ELSE "BLOCK_NOT_FREE")

Next == \/ \E r \in 0 .. MaxRequest : Alloc(r)
        \/ \E p \in Link : Free(p)
        \/ \E p \in Link, r \in 0 .. MaxRequest, inPlaceOnly \in BOOLEAN :
             ReAlloc(p, r, inPlaceOnly)

Spec == Init /\ [][Next]_vars
-----------------------------------------------------------------------------
Blocks == {a \in Addr : heap.magic[a]}
Live == {a \in Blocks : ~ heap.free[a]}

TypeOK ==
  /\ heap \in Heap
  /\ err \in {"SUCCESS", "OUT_OF_MEMORY", "INVALID_BLOCK", "BLOCK_NOT_FREE"}

(* Following bhNext from hhHeapHead visits blocks that tile the data area: *)
(* each starts where the one before ends, the back links mirror the        *)
(* forward links, the last one ends at the end marker, and there is no     *)
(* header anywhere else, so that no pointer into a block passes for one.   *)
Tiled(h) ==
  /\ h.first = 0 /\ h.magic[0] /\ h.prev[0] = Null
  /\ \A a \in Addr : h.magic[a] =>
       /\ h.size[a] >= 1 /\ a + h.size[a] <= Size
       /\ h.next[a] = IF a + h.size[a] = Size THEN Null ELSE a + h.size[a]
       /\ h.next[a] # Null => h.magic[h.next[a]] /\ h.prev[h.next[a]] = a
       /\ h.prev[a] # Null => h.magic[h.prev[a]] /\ h.next[h.prev[a]] = a
       /\ h.prev[a] = Null => a = 0
  /\ \A a, b \in Addr : h.magic[a] /\ h.magic[b] /\ a < b => a + h.size[a] <= b
BlocksTile == Tiled(heap) /\ \A a \in Live : heap.req[a] + 1 <= heap.size[a]

(* Walking the buckets finds every free block once, in the bucket of its   *)
(* size, with matching back links; no other header has free-chain links.   *)
FreeListsExact ==
  /\ \A b \in Buckets : \A i \in DOMAIN Chain(heap, b) :
       LET a == Chain(heap, b)[i]
       IN  /\ a \in Blocks /\ heap.free[a]
           /\ heap.req[a] = heap.size[a] - 1 /\ Bucket(heap.req[a]) = b
           /\ heap.fprev[a] = IF i = 1 THEN Null ELSE Chain(heap, b)[i - 1]
  /\ \A a \in Addr :
       IF heap.free[a]
       THEN Cardinality({i \in 1 .. Len(Scan(heap, 0)) : Scan(heap, 0)[i] = a}) = 1
       ELSE heap.fprev[a] = Null /\ heap.fnext[a] = Null

(* With coalescing, no two adjacent blocks are free.                       *)
NoAdjacentFree ==
  \A a \in Blocks : ~ (heap.free[a] /\ IsFree(heap, heap.next[a]))

(* HeapAlloc gives up only when no run of granules between live blocks has *)
(* room for the request and its header: fragmentation, never bookkeeping.  *)
Room(n) == \E a \in 0 .. Size - n :
             \A b \in Live : b + heap.size[b] <= a \/ a + n <= b
AllocFailsOnlyWhenFull ==
  [][\A r \in 0 .. MaxRequest :
       err' # "SUCCESS" /\ Alloc(r) => ~ Room(r + 1)]_vars

(* The clients see the allocator of module Allocator.                      *)
A == INSTANCE Allocator WITH live <- [a \in Live |-> heap.req[a]]
Allocates == A!Spec
=============================================================================
