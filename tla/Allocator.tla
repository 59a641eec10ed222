------------------------------ MODULE Allocator ------------------------------
(***************************************************************************)
(* What lib/heap promises the clients of HeapAlloc, HeapFree and           *)
(* HeapReAlloc: the blocks they hold never overlap and stay as they are    *)
(* until their own holder frees or resizes them, and a call that reports   *)
(* an error changed nothing.                                               *)
(***************************************************************************)
EXTENDS Integers

CONSTANTS Size, MaxRequest

VARIABLES live,  \* the blocks held: from header granule to requested size
          err    \* the outcome of the last call

Addr == 0 .. Size - 1
vars == <<live, err>>

(* A header and r granules of data at a fit beside the blocks in held.     *)
FitsAt(a, r, held) ==
  /\ a + r < Size
  /\ \A b \in held : b + live[b] < a \/ a + r < b

Holding(a, r, held) == [b \in held \cup {a} |-> IF b = a THEN r ELSE live[b]]

Init == live = [a \in {} |-> 0] /\ err = "SUCCESS"

Refuse(errors) == err' \in errors /\ UNCHANGED live

Alloc(r) ==
  \/ \E a \in Addr : /\ FitsAt(a, r, DOMAIN live)
                     /\ live' = Holding(a, r, DOMAIN live)
                     /\ err' = "SUCCESS"
  \/ Refuse({"OUT_OF_MEMORY"})

Free(p) ==
  \/ /\ p \in DOMAIN live
     /\ live' = [b \in DOMAIN live \ {p} |-> live[b]] /\ err' = "SUCCESS"
  \/ p \notin DOMAIN live /\ Refuse({"SUCCESS", "INVALID_BLOCK"})

(* In place, or to a block beside all those held, the old one included:    *)
(* its contents are copied before it is freed.                             *)
ReAlloc(p, r) ==
  \/ /\ p \in DOMAIN live
     /\ \/ /\ FitsAt(p, r, DOMAIN live \ {p})
           /\ live' = Holding(p, r, DOMAIN live)
        \/ \E a \in Addr : /\ FitsAt(a, r, DOMAIN live)
                           /\ live' = Holding(a, r, DOMAIN live \ {p})
     /\ err' = "SUCCESS"
  \/ p \in DOMAIN live /\ Refuse({"OUT_OF_MEMORY"})
  \/ p \notin DOMAIN live /\ Refuse({"INVALID_BLOCK"})

Next == \E r \in 0 .. MaxRequest :
          Alloc(r) \/ \E p \in Addr \cup {-1} : Free(p) \/ ReAlloc(p, r)

Spec == Init /\ [][Next]_vars
=============================================================================
