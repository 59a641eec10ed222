-------------------------------- MODULE Dict --------------------------------
(***************************************************************************)
(* What src/hashmap.c promises its clients: a dictionary from names to     *)
(* values.  Get answers with the value last put under the name and not     *)
(* deleted since, or with NULL.                                            *)
(***************************************************************************)
CONSTANTS Key, Val, Nil

VARIABLES dict,    \* the value stored under each name, Nil when there is none
          answer   \* what the last lookup returned

Init == dict = [k \in Key |-> Nil] /\ answer = Nil

Put(k, v) == dict' = [dict EXCEPT ![k] = v] /\ UNCHANGED answer

Delete(k) == dict' = [dict EXCEPT ![k] = Nil] /\ UNCHANGED answer

Get(k) == answer' = dict[k] /\ UNCHANGED dict

Next == \E k \in Key : Get(k) \/ Delete(k) \/ \E v \in Val : Put(k, v)

Spec == Init /\ [][Next]_<<dict, answer>>
=============================================================================
