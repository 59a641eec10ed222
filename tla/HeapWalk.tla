------------------------------ MODULE HeapWalk ------------------------------
(***************************************************************************)
(* HeapWalk: a client enumerates the blocks with a cursor it keeps itself, *)
(* one call per block, and may allocate, free and resize between the       *)
(* calls.  The cursor is the raw address of a header, and all HeapWalk can *)
(* check is that there is still a header there.  HeapCompact, HeapValidate *)
(* and the allocator's calls are all interleaved with the enumeration.     *)
(***************************************************************************)
EXTENDS HeapValidate, HeapCompact

VARIABLES
  entry,  \* *pEntry: the block reported last, NULL to start
  due     \* blocks in use since the enumeration began and not reported yet

walkVars == <<heap, err, largest, entry, due>>

(* A call with *pEntry = e, which is the cursor left by the last call or   *)
(* NULL; due is the observer's, the rest is the code's.                    *)
WalkUnchecked(e) ==
  LET a == IF e = Null THEN heap.first ELSE heap.next[e]
  IN  /\ \/ a = Null /\ err' = "NO_MORE_ITEMS" /\ entry' = e /\ UNCHANGED due
         \/ /\ a # Null /\ err' = "SUCCESS" /\ entry' = a
            /\ due' = (IF e = Null THEN Live ELSE due) \ {a}
      /\ UNCHANGED heap

Walk(e) ==
  LET a == IF e = Null THEN heap.first ELSE heap.next[e]
  IN  /\ \/ /\ e # Null /\ ~ heap.magic[e]
            /\ err' = "INVALID_BLOCK" /\ entry' = e /\ UNCHANGED due
         \/ /\ e # Null => heap.magic[e]
            /\ a = Null
            /\ err' = "NO_MORE_ITEMS" /\ entry' = e /\ UNCHANGED due
         \/ /\ e # Null => heap.magic[e]
            /\ a # Null
            /\ err' = "SUCCESS" /\ entry' = a
            /\ due' = (IF e = Null THEN Live ELSE due) \ {a}
      /\ UNCHANGED heap

WalkInit == CompactInit /\ entry = Null /\ due = {}

WalkNext == \/ CompactNext /\ due' = due \cap Live' /\ UNCHANGED entry
            \/ \E e \in {entry, Null} : Walk(e) /\ largest' = 0
            \/ \E p \in Link : Validate(p) /\ largest' = 0 /\ UNCHANGED <<entry, due>>

WalkSpec == WalkInit /\ [][WalkNext]_walkVars
-----------------------------------------------------------------------------
(* An enumeration that reports its end has reported every block that was   *)
(* in use all along, whatever the client did to the heap meanwhile: the    *)
(* cursor may have been split, merged away (then HeapWalk fails) or reused.*)
NothingMissed == [][err' = "NO_MORE_ITEMS" => due = {}]_walkVars
=============================================================================
