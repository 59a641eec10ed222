------------------------------- MODULE Sharing -------------------------------
(***************************************************************************)
(* What lets variables share registers, whoever computed the assignment:   *)
(* at every point of the running code there is a set of live variables     *)
(* which holds all that may still be read before they are stored again,    *)
(* and a store never takes the register of another live variable.          *)
(*                                                                         *)
(* Abstract specification of the register allocator (RegAlloc).            *)
(***************************************************************************)
CONSTANTS Var, Reg, NoVar, NoReg

VARIABLES
  reg,    \* the register of each variable, or NoReg for its frame slot
  holds,  \* the variable whose value is in each register
  set,    \* the variables that were given a value
  live    \* the variables that may be read before they are stored

vars == <<reg, holds, set, live>>

Init == /\ reg = [v \in Var |-> NoReg]
        /\ holds = [r \in Reg |-> NoVar]
        /\ set = {} /\ live \in SUBSET Var

(* Before the code runs.                                                   *)
Allocate == /\ set = {}
            /\ reg' \in [Var -> Reg \cup {NoReg}] /\ live' \in SUBSET Var
            /\ UNCHANGED <<holds, set>>

(* A read or a branch: what is live after it was live before it.           *)
Go == live' \subseteq live /\ UNCHANGED <<reg, holds, set>>

Define(v) ==
  /\ live' \subseteq live \cup {v}
  /\ set' = set \cup {v}
  /\ holds' = [r \in Reg |-> IF r = reg[v] THEN v ELSE holds[r]]
  /\ \A w \in (live' \cap set) \ {v} : reg[w] = NoReg \/ reg[w] # reg[v]
  /\ UNCHANGED reg

Next == Allocate \/ Go \/ \E v \in Var : Define(v)

Spec == Init /\ [][Next]_vars
-----------------------------------------------------------------------------
TypeOK == /\ reg \in [Var -> Reg \cup {NoReg}]
          /\ holds \in [Reg -> Var \cup {NoVar}]
          /\ set \subseteq Var /\ live \subseteq Var

(* Every live variable that was given a value still has it in its register.*)
OwnValue == \A v \in live \cap set : reg[v] # NoReg => holds[reg[v]] = v
=============================================================================
