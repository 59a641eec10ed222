---------------------------- MODULE HeapValidate ----------------------------
(***************************************************************************)
(* HeapValidate, the corruption detector of lib/heap, run at any moment    *)
(* between the calls of HeapBlocks.  It is also what every call starts     *)
(* with on a heap with HEAP_VALIDATE_ALL_ENABLED, so a false alarm would   *)
(* make such a heap refuse its clients.                                    *)
(***************************************************************************)
EXTENDS HeapBlocks

(* hvBlockChainVerifyLoop, at block a reached from block p.                *)
BlockChainError(h) ==
  LET walk[a \in Addr] == [p \in Link |->
        LET end == a + h.size[a]
        IN  IF ~ h.magic[a] THEN "INVALID_BLOCK"
            ELSE IF h.prev[a] # p THEN "INVALID_PREV_LINK"
            ELSE IF h.next[a] = Null
                 THEN IF end = Size THEN "SUCCESS" ELSE "INVALID_HEAPEND"
            ELSE IF h.next[a] # end THEN "INVALID_NEXT_LINK"
            ELSE walk[h.next[a]][a]]
  IN  walk[h.first][Null]

(* hvFreeChainVerifyLoop, at block a reached from block p.                 *)
BucketError(h, b) ==
  LET walk[a \in Link] == [p \in Link |->
        IF a = Null THEN "SUCCESS"
        ELSE IF h.fprev[a] # p THEN "INVALID_FPREV_LINK"
        ELSE IF ~ h.free[a] THEN "BLOCK_NOT_FREE"
        ELSE walk[h.fnext[a]][a]]
  IN  walk[h.head[b]][Null]

(* hvExhaustedHeapCheck: with every bucket empty, no block may be free or  *)
(* hold free-chain links.  The chain is known to be sound, so its blocks   *)
(* in order are those in order of address.                                 *)
ExhaustedError(h) ==
  LET bad == {a \in Addr : h.magic[a] /\ (h.free[a] \/ h.fprev[a] # Null
                                          \/ h.fnext[a] # Null)}
  IN  IF bad = {} THEN "SUCCESS"
      ELSE IF h.free[Min(bad)] THEN "BLOCK_NOT_FREE" ELSE "INVALID_BLOCK"

(* HeapValidate(heap, NULL): the first check that fails decides.           *)
HeapErrorNoChain(h) ==
  LET bad == {b \in Buckets : BucketError(h, b) # "SUCCESS"}
  IN  IF bad # {} THEN BucketError(h, Min(bad)) ELSE "SUCCESS"
HeapError(h) ==
  LET bad == {b \in Buckets : BucketError(h, b) # "SUCCESS"}
  IN  IF BlockChainError(h) # "SUCCESS" THEN BlockChainError(h)
      ELSE IF bad # {} THEN BucketError(h, Min(bad))
      ELSE IF \A b \in Buckets : h.head[b] = Null THEN ExhaustedError(h)
      ELSE "SUCCESS"

(* HeapValidate(heap, p): the block is in the chain, and its neighbours    *)
(* point back at it.                                                       *)
InChain(h, p) ==
  LET walk[a \in Link] == a # Null /\ (a = p \/ walk[h.next[a]])
  IN  walk[h.first]
BlockError(h, p) ==
  IF ~ (h.magic[p] /\ InChain(h, p)) THEN "INVALID_BLOCK"
  ELSE IF h.prev[p] # Null /\ h.next[h.prev[p]] # p THEN "INVALID_PREV_LINK"
  ELSE IF h.next[p] # Null /\ h.prev[h.next[p]] # p THEN "INVALID_NEXT_LINK"
  ELSE IF ~ h.free[p] THEN "SUCCESS"
  ELSE IF h.fprev[p] # Null /\ h.fnext[h.fprev[p]] # p THEN "INVALID_FPREV_LINK"
  ELSE IF h.fnext[p] # Null /\ h.fprev[h.fnext[p]] # p THEN "INVALID_FNXT_LINK"
  ELSE "SUCCESS"

Validate(p) ==
  /\ err' = IF p = Null THEN HeapError(heap) ELSE BlockError(heap, p)
  /\ UNCHANGED heap

-----------------------------------------------------------------------------
(* HeapValidate never raises a false alarm: it accepts the heap after any  *)
(* sequence of calls, and exactly the pointers that are blocks, even where *)
(* the memory still holds an earlier header's words.                       *)
NoFalseAlarm ==
  /\ HeapError(heap) = "SUCCESS"
  /\ \A p \in Addr : BlockError(heap, p) = "SUCCESS" <=> p \in Blocks

(* One overwritten header word is found, whichever block it is in: a wrong *)
(* size or link of the block chain, or a wrong back link of a free block.  *)
(* (A forward link of a free chain may be cut short without being found.)  *)
DamageIsFound ==
  \A a \in Blocks :
    /\ \A n \in 0 .. Size : n # heap.size[a] =>
         HeapError([heap EXCEPT !.size = Linked(@, a, n)]) # "SUCCESS"
    /\ \A x \in Link :
         /\ x # heap.next[a] => HeapError([heap EXCEPT !.next = Linked(@, a, x)]) # "SUCCESS"
         /\ x # heap.prev[a] => HeapError([heap EXCEPT !.prev = Linked(@, a, x)]) # "SUCCESS"
         /\ heap.free[a] /\ x # heap.fprev[a] =>
              HeapError([heap EXCEPT !.fprev = Linked(@, a, x)]) # "SUCCESS"
=============================================================================
