------------------------------ MODULE SmallHeap ------------------------------
(***************************************************************************)
(* The small-object layer of lib/heap over its block allocator, for a      *)
(* machine heap and the private heaps carved out of it.  Requests of at    *)
(* most SoaMax are served from slabs: tiles of SlabSize, aligned to        *)
(* SlabSize, cut out of arenas, which are ordinary blocks.  A pointer is   *)
(* told to be a cell by rounding it down to its tile and looking for the   *)
(* magic words of a slab and of its arena.                                 *)
(*                                                                         *)
(* Sizes and addresses are counted in granules of BLK_HDR_SIZE.  Memory is *)
(* one record; an arena descriptor or a slab header is in its domain while *)
(* its magic word is in memory, whoever owns that memory meanwhile.  An    *)
(* operation is an operator from memory to its outcome: the memory it      *)
(* leaves and the pointer it returns.                                      *)
(***************************************************************************)
EXTENDS Integers, FiniteSetsExt, SequencesExt

CONSTANTS
  SlabSize,    \* SLAB_SIZE
  CellSz,      \* __HeapSoaClassTbl: the cell size of each class
  SoaMax,      \* SOA_MAX: the largest request a cell serves
  ArenaSlabs,  \* ARENA_SLABS_DFLT: the tiles of a new arena
  ScbSize,     \* SCB_HDR_SIZE
  BucketMax,   \* HEAP_FREE_BKT0_MAX ..: what a block of each bucket but the last holds
  Machine      \* the handle of the machine heap

ASSUME SmallHeapAssumption ==
  /\ {SlabSize, SoaMax, ArenaSlabs, ScbSize, Machine} \subseteq Nat \ {0}
  /\ {CellSz, BucketMax} \subseteq Seq(Nat \ {0}) /\ CellSz # <<>>
  /\ SoaMax = CellSz[Len(CellSz)] /\ \A c \in DOMAIN CellSz : CellSz[c] <= SoaMax
  /\ SoaMax < SlabSize  \* behind its header a tile holds a cell of any class

Null == 0
SlabHdr == 1  \* SLAB_HDR_SIZE
Classes == DOMAIN CellSz

(* __HeapSoaSizeToClass: the first class whose cells hold n.               *)
SizeToClass(n) == Min({c \in Classes : CellSz[c] >= n})

Outcome(m, p) == [m |-> m, p |-> p]

(* Heap header, block header, data, end marker.                            *)
Header == 2
First(m, h) == m.heap[h].lo + Header
Limit(m, h) == m.heap[h].hi - 1

NewHeap(lo, hi, validate) ==
  [lo |-> lo, hi |-> hi, validate |-> validate, scb |-> Null, arenas |-> <<>>,
   free |-> <<[at |-> lo + Header, len |-> hi - 1 - (lo + Header)]>>,
   partial |-> [c \in Classes |-> <<>>], full |-> [c \in Classes |-> <<>>],
   slabs |-> 0, cells |-> 0]

With(f, x, v) == [y \in DOMAIN f \cup {x} |-> IF y = x THEN v ELSE f[y]]
Without(f, S) == [x \in DOMAIN f \ S |-> f[x]]

(* Those elements of the sequence s that are in S.                         *)
Only(s, S) == FlattenSeq([i \in DOMAIN s |-> IF s[i] \in S THEN <<s[i]>> ELSE <<>>])
-----------------------------------------------------------------------------
(* Which cell, if any, a pointer is.                                       *)
Tile(p) == p - (p % SlabSize)

(* __HeapSlabFromPtr *)
SlabFromPtr(m, p) ==
  LET t == Tile(p)
      off == p - t - SlabHdr
      Recognized(s) ==
        /\ s.arena \in DOMAIN m.arena
        /\ m.arena[s.arena].base <= t
        /\ t < m.arena[s.arena].base + m.arena[s.arena].slabs * SlabSize
        /\ off >= 0 /\ off % CellSz[s.cls] = 0 /\ off \div CellSz[s.cls] < s.total
  IN  IF t \in DOMAIN m.slab /\ Recognized(m.slab[t]) THEN t ELSE Null

CellAt(m, t, i) == t + SlabHdr + i * CellSz[m.slab[t].cls]
CellIndex(m, t, p) == (p - t - SlabHdr) \div CellSz[m.slab[t].cls]
TileAt(m, a, i) == m.arena[a].base + i * SlabSize
Tiles(m, a) == {TileAt(m, a, i) : i \in m.arena[a].map}
-----------------------------------------------------------------------------
(* __HeapSoaValidate: the arenas, the slabs with their free lists, and the *)
(* class lists of a heap's small pool.                                     *)
SlabValid(m, h, t) ==
  /\ t \in DOMAIN m.slab
  /\ LET s == m.slab[t]
     IN  /\ s.heap = h /\ s.cls \in Classes
         /\ s.total = (SlabSize - SlabHdr) \div CellSz[s.cls]
         /\ s.free <= s.total /\ Len(s.list) = s.free
         /\ \A i \in ToSet(s.list) : i < s.total

ArenaValid(m, h, a) ==
  /\ a \in DOMAIN m.arena
  /\ LET r == m.arena[a]
     IN  /\ r.base % SlabSize = 0
         /\ a - 1 \in DOMAIN m.block
         /\ r.use <= r.slabs /\ Cardinality(r.map) = r.use
         /\ \A t \in Tiles(m, a) : SlabValid(m, h, t)

ClassListValid(m, h, list, c, full) ==
  /\ Len(list) <= m.heap[h].slabs
  /\ \A t \in ToSet(list) : /\ t \in DOMAIN m.slab /\ m.slab[t].cls = c
                            /\ (m.slab[t].free = 0) = full
                            /\ m.slab[t].free <= m.slab[t].total

SoaValid(m, h) ==
  LET H == m.heap[h]
  IN  H.scb # Null =>
        /\ \A a \in ToSet(H.arenas) : ArenaValid(m, h, a)
        /\ \A c \in Classes : /\ ClassListValid(m, h, H.partial[c], c, FALSE)
                              /\ ClassListValid(m, h, H.full[c], c, TRUE)

(* __HeapAutoValidateFlagCheck on a heap with FLG_HEAP_VALIDATE_ALL; the   *)
(* block chains are validated in module HeapValidate.                      *)
Passes(m, h) == m.heap[h].validate => SoaValid(m, h)
-----------------------------------------------------------------------------
(* The block allocator.  Free neighbours are merged and a free block that  *)
(* is new or changed goes to the head of its bucket, so that one sequence, *)
(* the newest first, is the free lists of all the buckets.                 *)
Bucket(d) == Cardinality({k \in DOMAIN BucketMax : d > BucketMax[k]})
Blocks(m, h) == {a \in DOMAIN m.block : m.block[a].heap = h}

Gaps(m, h) ==
  LET from == {First(m, h)} \cup {a + m.block[a].size : a \in Blocks(m, h)}
      End(x) == Min({a \in Blocks(m, h) : a >= x} \cup {Limit(m, h)})
  IN  {[at |-> x, len |-> End(x) - x] : x \in {y \in from : End(y) > y}}

WithBlocks(m, h, block) ==
  LET m1 == [m EXCEPT !.block = block]
      gaps == Gaps(m1, h)
  IN  [m1 EXCEPT !.heap[h].free = SetToSeq(gaps \ ToSet(@)) \o Only(@, gaps)]

(* The first free block large enough of the first bucket that has one; the *)
(* low end of it, or the whole of it when only a header would be left.     *)
Carve(m, h, n) ==
  LET free == m.heap[h].free
      fits == {k \in DOMAIN free : free[k].len >= n + 1}
      first == Min({Bucket(free[k].len - 1) : k \in fits})
      g == free[Min({k \in fits : Bucket(free[k].len - 1) = first})]
      size == IF g.len = n + 2 THEN n + 2 ELSE n + 1
  IN  IF fits = {} THEN Outcome(m, Null)
      ELSE Outcome(WithBlocks(m, h, With(m.block, g.at, [size |-> size, heap |-> h])), g.at + 1)

(* _HeapAlloc of what the small pool does not serve.                       *)
HeapAllocBlock(m, h, n) == IF Passes(m, h) THEN Carve(m, h, n) ELSE Outcome(m, Null)

(* _HeapFree of a block: p is non-zero when it succeeds.                   *)
HeapFreeBlock(m, h, p) ==
  IF /\ Passes(m, h) /\ SlabFromPtr(m, p) = Null
     /\ p - 1 \in DOMAIN m.block /\ m.block[p - 1].heap = h
  THEN Outcome(WithBlocks(m, h, Without(m.block, {p - 1})), p)
  ELSE Outcome(m, Null)
-----------------------------------------------------------------------------
(* An outcome carried on with, unless the step before it failed.           *)
Then(o, Op(_)) == IF o.p = Null THEN o ELSE Op(o)
OrElse(o, other) == IF o.p = Null THEN other ELSE o

(* __HeapScbGetOrCreate: the control block stays once it is made.          *)
ScbGetOrCreate(m, h) ==
  LET Kept(o) == [o EXCEPT !.m.heap[h].scb = o.p]
  IN  IF m.heap[h].scb # Null THEN Outcome(m, m.heap[h].scb)
      ELSE Then(HeapAllocBlock(m, h, ScbSize), Kept)

RoundUp(x) == x + ((SlabSize - (x % SlabSize)) % SlabSize)

(* The descriptor at b and the tiles behind it: from the next boundary on. *)
Formatted(m, h, b, n) ==
  [m EXCEPT !.arena = With(@, b, [base |-> RoundUp(b + 1), slabs |-> n, use |-> 0, map |-> {}]),
            !.heap[h].arenas = <<b>> \o @]

(* __HeapArenaCreate: with one tile when the heap has no room for n.       *)
ArenaCreate(m, h, n) ==
  LET Fits(k) == \E g \in Gaps(m, h) : g.len > (k + 1) * SlabSize
      k == IF Fits(n) THEN n ELSE 1
      Made(o) == Outcome(Formatted(o.m, h, o.p, k), o.p)
  IN  Then(HeapAllocBlock(m, h, (k + 1) * SlabSize), Made)

(* __HeapArenaRelease: as HeapFree answers.                                *)
Unformatted(m, h, a) ==
  [m EXCEPT !.arena = Without(@, {a}), !.heap[h].arenas = RemoveFirst(@, a)]
ArenaRelease(m, h, a) == HeapFreeBlock(Unformatted(m, h, a), h, a)

(* __HeapSlabCreate: the first tile left of an arena, of the first one     *)
(* that has one.                                                           *)
ClaimTile(m, h, c, a) ==
  LET total == (SlabSize - SlabHdr) \div CellSz[c]
      i == Min((0 .. m.arena[a].slabs - 1) \ m.arena[a].map)
      t == TileAt(m, a, i)
  IN  Outcome([m EXCEPT
        !.arena[a].map = @ \cup {i}, !.arena[a].use = @ + 1, !.heap[h].slabs = @ + 1,
        !.slab = With(@, t, [heap |-> h, cls |-> c, total |-> total, free |-> total,
                             list |-> [k \in 1 .. total |-> k - 1], arena |-> a])], t)

SlabCreate(m, h, c) ==
  LET arenas == m.heap[h].arenas
      roomy == {k \in DOMAIN arenas : m.arena[arenas[k]].use < m.arena[arenas[k]].slabs}
      Claimed(o) == ClaimTile(o.m, h, c, o.p)
  IN  Then(IF roomy # {} THEN Outcome(m, arenas[Min(roomy)])
           ELSE ArenaCreate(m, h, ArenaSlabs), Claimed)

(* __HeapSlabRelease: the tile's magic goes first, and an arena without    *)
(* slabs goes too.                                                         *)
DropTile(m, h, t) ==
  LET a == m.slab[t].arena
  IN  [m EXCEPT !.slab = Without(@, {t}), !.heap[h].slabs = @ - 1,
                !.arena[a].map = @ \ {(t - m.arena[a].base) \div SlabSize},
                !.arena[a].use = @ - 1]
SlabReleaseKeepsArena(m, h, t) == DropTile(m, h, t)
SlabRelease(m, h, t) ==
  LET a == m.slab[t].arena
      m1 == DropTile(m, h, t)
  IN  IF m1.arena[a].use = 0 THEN ArenaRelease(m1, h, a).m ELSE m1
-----------------------------------------------------------------------------
(* __HeapSoaAlloc: the head of a partial slab's free list; the slab that   *)
(* lost its last cell moves to the full list.                              *)
PopCell(m, h, c, t) ==
  LET popped == [m EXCEPT !.slab[t].list = Tail(@), !.slab[t].free = @ - 1, !.heap[h].cells = @ + 1]
  IN  Outcome(IF popped.slab[t].free # 0 THEN popped
              ELSE [popped EXCEPT !.heap[h].partial[c] = RemoveFirst(@, t),
                                  !.heap[h].full[c] = <<t>> \o @],
              CellAt(m, t, Head(m.slab[t].list)))

SoaAlloc(m, h, n) ==
  LET c == SizeToClass(n)
      Listed(o) == [o EXCEPT !.m.heap[h].partial[c] = <<o.p>>]
      Partial(o) == IF o.m.heap[h].partial[c] # <<>>
                    THEN Outcome(o.m, Head(o.m.heap[h].partial[c]))
                    ELSE Then(SlabCreate(o.m, h, c), Listed)
      Popped(o) == PopCell(o.m, h, c, o.p)
  IN  Then(Then(ScbGetOrCreate(m, h), Partial), Popped)

(* Is cell i on the free list?  The walk is bounded by the cell count, and *)
(* a list that long is taken for a corrupt one.                            *)
FoundFree(s, i) == i \in ToSet(s.list) \/ Len(s.list) >= s.total

(* The cell goes to the head of the free list; a full slab that got a cell *)
(* back is a partial one, and one without a live cell is on no list.       *)
PushCell(m, h, t, i) ==
  [m EXCEPT !.slab[t].list = <<i>> \o @, !.slab[t].free = @ + 1, !.heap[h].cells = @ - 1]
RelistKeepsFull(m, h, t, c) == [m EXCEPT !.heap[h].partial[c] = <<t>> \o @]
Relist(m, h, t, c) ==
  [m EXCEPT !.heap[h].full[c] = RemoveFirst(@, t), !.heap[h].partial[c] = <<t>> \o @]
Unlist(m, h, t, c) == [m EXCEPT !.heap[h].partial[c] = RemoveFirst(@, t)]

(* __HeapSoaFree: tag says whether the cell's second word reads            *)
(* SOA_FREE_TAG, which a live cell's own data may.                         *)
SoaFree(m, h, t, p, tag) ==
  LET s == m.slab[t]
      i == CellIndex(m, t, p)
      c == s.cls
      pushed == PushCell(m, h, t, i)
      listed == IF s.free + 1 # 1 THEN pushed ELSE Relist(pushed, h, t, c)
  IN  IF tag /\ FoundFree(s, i) THEN Outcome(m, Null)
      ELSE Outcome(IF s.free + 1 # s.total THEN listed
                   ELSE SlabRelease(Unlist(listed, h, t, c), h, t), p)

(* The live tiles of a heap, arena after arena in the order of their maps. *)
LiveTiles(m, h) ==
  LET OfArena(a) == Only([i \in 1 .. m.arena[a].slabs |-> TileAt(m, a, i - 1)], Tiles(m, a))
  IN  FlattenSeq([k \in DOMAIN m.heap[h].arenas |-> OfArena(m.heap[h].arenas[k])])

(* __HeapSoaCompact: every slab without a live cell.                       *)
SoaCompact(m, h) ==
  LET Empty(s, t) == s.slab[t].free = s.slab[t].total
      Swept(s, t) == IF Empty(s, t)
                     THEN SlabRelease(Unlist(s, h, t, s.slab[t].cls), h, t) ELSE s
  IN  IF m.heap[h].scb = Null THEN m ELSE FoldLeft(Swept, m, LiveTiles(m, h))
-----------------------------------------------------------------------------
(* _HeapAlloc: the small pool first, the blocks when it is exhausted.      *)
HeapAlloc(m, h, n) ==
  LET small == n \in 1 .. SoaMax
      FromBlocks(o) == IF o.p = Null THEN Carve(o.m, h, n) ELSE o
  IN  IF ~ Passes(m, h) THEN Outcome(m, Null)
      ELSE FromBlocks(IF small THEN SoaAlloc(m, h, n) ELSE Outcome(m, Null))

(* _HeapFree *)
HeapFree(m, h, p, tag) ==
  LET t == SlabFromPtr(m, p)
  IN  IF ~ Passes(m, h) THEN Outcome(m, Null)
      ELSE IF t = Null THEN HeapFreeBlock(m, h, p)
      ELSE IF m.slab[t].heap # h THEN Outcome(m, Null)
      ELSE SoaFree(m, h, t, p, tag)

(* __HeapSoaReAlloc of the cell p of slab t.                               *)
SoaReAlloc(m, h, t, p, n, tag) ==
  LET Moved(o) == Outcome(SoaFree(o.m, h, t, p, tag).m, o.p)
  IN  IF n \in 1 .. SoaMax /\ SizeToClass(n) = m.slab[t].cls THEN Outcome(m, p)
      ELSE Then(IF n \in 1 .. SoaMax THEN SoaAlloc(m, h, n) ELSE HeapAlloc(m, h, n), Moved)

(* _HeapReAlloc of a block: shrunk or grown where it is, or moved.         *)
BlockReAlloc(m, h, p, n, tag) ==
  LET a == p - 1
      size == m.block[a].size
      Behind(g) == g.at = a + size /\ g.len >= n + 1 - size
      Resized(k) == Outcome(WithBlocks(m, h, [m.block EXCEPT ![a].size = k]), p)
      Moved(o) == Outcome(HeapFree(o.m, h, p, tag).m, o.p)
  IN  IF size >= n + 1 THEN Resized(IF size = n + 2 THEN size ELSE n + 1)
      ELSE IF \E g \in Gaps(m, h) : Behind(g) THEN Resized(n + 1)
      ELSE Then(HeapAlloc(m, h, n), Moved)

HeapReAlloc(m, h, p, n, tag) ==
  LET t == SlabFromPtr(m, p)
  IN  IF ~ Passes(m, h) THEN Outcome(m, Null)
      ELSE IF t # Null
           THEN IF m.slab[t].heap # h THEN Outcome(m, Null)
                ELSE SoaReAlloc(m, h, t, p, n, tag)
      ELSE IF p - 1 \in DOMAIN m.block /\ m.block[p - 1].heap = h
           THEN BlockReAlloc(m, h, p, n, tag)
      ELSE Outcome(m, Null)

(* _HeapCompact: the largest free block without its header, 0 for none.    *)
HeapCompact(m, h) ==
  LET m1 == SoaCompact(m, h)
  IN  IF ~ Passes(m, h) THEN Outcome(m, 0)
      ELSE Outcome(m1, Max({g.len - 1 : g \in Gaps(m1, h)} \cup {0}))
-----------------------------------------------------------------------------
(* _MachineHeapInitialize: the size is what the first block is to hold.    *)
MachineHeapInitialize(m, start, size, validate) ==
  [m EXCEPT !.heap = With(@, Machine, NewHeap(start, start + size + 4, validate))]

(* _HeapCreate: a heap in a block of the machine heap.                     *)
HeapCreate(m, size, validate) ==
  LET Made(o) == [o EXCEPT !.m.heap = With(@, o.p, NewHeap(o.p, o.p + size + 4, validate))]
  IN  Then(HeapAlloc(m, Machine, size + 4), Made)

(* _HeapDestroy: the magics of the heap's tiles and arenas go before its   *)
(* memory returns to the machine heap, which may be given out again.       *)
WithoutHeap(m, h) ==
  [m EXCEPT !.heap = Without(@, {h}), !.block = Without(@, Blocks(m, h))]
Audit(m, h) == Passes(m, Machine) /\ Passes(m, h)
HeapDestroyKeepsMagics(m, h) ==
  IF Audit(m, h) THEN HeapFree(WithoutHeap(m, h), Machine, h, FALSE) ELSE Outcome(m, Null)
HeapDestroy(m, h) ==
  LET arenas == ToSet(m.heap[h].arenas)
      tiles == UNION {{TileAt(m, a, i) : i \in 0 .. m.arena[a].slabs - 1} : a \in arenas}
      wiped == [m EXCEPT !.arena = Without(@, arenas), !.slab = Without(@, tiles)]
  IN  IF Audit(m, h) THEN HeapFree(WithoutHeap(wiped, h), Machine, h, FALSE)
      ELSE Outcome(m, Null)
-----------------------------------------------------------------------------
(* __HeapSoaWalk called until it has no more: the cells of each live tile  *)
(* of each arena that are not on the tile's free list.                     *)
Walked(m, h) ==
  LET Live(t) == (0 .. m.slab[t].total - 1) \ ToSet(m.slab[t].list)
      CellsOf(t) == Only([i \in 1 .. m.slab[t].total |-> CellAt(m, t, i - 1)],
                         {CellAt(m, t, i) : i \in Live(t)})
      tiles == LiveTiles(m, h)
  IN  FlattenSeq([k \in DOMAIN tiles |-> CellsOf(tiles[k])])
=============================================================================
