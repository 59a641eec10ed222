---------------------------- MODULE HeapCompact ----------------------------
(***************************************************************************)
(* HeapCompact beside the other calls of lib/heap.  On a heap with         *)
(* FLG_HEAP_DISABLE_COALESCING it is the only thing that ever merges free  *)
(* blocks; on any heap it reports the largest one.                         *)
(***************************************************************************)
EXTENDS HeapBlocks

VARIABLE largest  \* data granules of the largest free block HeapCompact found,
                  \* 0 once another call was made

(* The first block of bucket b's chain that has a free neighbour.          *)
FirstMergeable(h, b) ==
  LET s == Chain(h, b)
      hits == {i \in DOMAIN s : Merges(h, s[i])}
  IN  IF hits = {} THEN Null ELSE s[Min(hits)]

(* One step of the pass: merge that block and walk the bucket again from   *)
(* its head, or go on with the next bucket when there is none.             *)
PassStepNoRestart(pass) ==
  LET a == FirstMergeable(pass.h, pass.b)
  IN  IF pass.b \notin Buckets THEN pass
      ELSE [h |-> IF a = Null THEN pass.h ELSE Coalesce(pass.h, a), b |-> pass.b + 1]
PassStep(pass) ==
  LET a == FirstMergeable(pass.h, pass.b)
  IN  IF pass.b \notin Buckets THEN pass
      ELSE IF a = Null THEN [pass EXCEPT !.b = @ + 1]
      ELSE [pass EXCEPT !.h = Coalesce(pass.h, a)]

(* The pass visits the ten buckets once, in order.  A merge removes a      *)
(* block, so Size - 1 merges are the most there can be.                    *)
Compacted(h) ==
  LET pass[n \in 0 .. Size + 9] ==
        IF n = 0 THEN [h |-> h, b |-> 0]
        ELSE PassStep(pass[n - 1])
  IN  IF Coalescing THEN h ELSE pass[Size + 9].h

(* The largest bhSize in the buckets, without its header; 0 for no block.  *)
LargestFreeWithHeader(h) ==
  LET sizes == {h.size[a] : a \in ToSet(Scan(h, 0))}
  IN  IF sizes = {} THEN 0 ELSE Max(sizes)
LargestFree(h) ==
  LET sizes == {h.size[a] - 1 : a \in ToSet(Scan(h, 0))}
  IN  IF sizes = {} THEN 0 ELSE Max(sizes)

Compact ==
  /\ err' = "SUCCESS"
  /\ heap' = Compacted(heap)
  /\ largest' = LargestFree(heap')

CompactInit == Init /\ largest = 0

CompactNext == \/ Next /\ largest' = 0
               \/ Compact
-----------------------------------------------------------------------------
(* One pass over the buckets is enough: after HeapCompact no two adjacent  *)
(* blocks are free, though merged blocks move to other buckets meanwhile,  *)
(* and the clients' blocks are where they were.  Its answer is exact: the  *)
(* next request of up to that size succeeds, and a larger one does not fit *)
(* between the live blocks at all.                                         *)
ExactlyFits == \A r \in 1 .. Size - 1 :
  /\ r <= largest => Found(heap, FirstFit(heap, r + 1), r + 1)
  /\ r > largest => ~ Room(r + 1)
CompactMergesAll ==
  [][Compact => /\ NoAdjacentFree' /\ ExactlyFits' /\ Live' = Live
                /\ \A a \in Live : heap'.req[a] = heap.req[a]]_<<heap, err, largest>>
=============================================================================
