---------------------------- MODULE Sharing_proofs ----------------------------
(***************************************************************************)
(* A program that keeps the discipline of module Sharing reads only values *)
(* that were stored for the variable it reads, however many variables      *)
(* share a register.                                                       *)
(***************************************************************************)
EXTENDS Sharing, TLAPS

(* The fields keep their types through every step.                         *)
LEMMA TypeStep == TypeOK /\ [Next]_vars => TypeOK'
<1> SUFFICES ASSUME TypeOK, [Next]_vars PROVE TypeOK'
  OBVIOUS
<1>1. CASE Allocate
  BY <1>1 DEF TypeOK, Allocate
<1>2. CASE Go
  BY <1>2 DEF TypeOK, Go
<1>3. ASSUME NEW v \in Var, Define(v) PROVE TypeOK'
  BY <1>3 DEF TypeOK, Define
<1>4. CASE UNCHANGED vars
  BY <1>4 DEF TypeOK, vars
<1> QED
  BY <1>1, <1>2, <1>3, <1>4 DEF Next

(* A store of v leaves every other live value where it is, because v's     *)
(* register is not theirs.                                                 *)
LEMMA DefineKeepsOthers ==
  ASSUME TypeOK, OwnValue, NEW v \in Var, Define(v)
  PROVE  OwnValue'
<1> SUFFICES ASSUME NEW w \in live' \cap set', reg'[w] # NoReg
             PROVE  holds'[reg'[w]] = w
  BY DEF OwnValue
<1>1. reg' = reg /\ w \in Var /\ reg[w] \in Reg
  BY DEF TypeOK, Define
<1>2. holds'[reg[w]] = IF reg[w] = reg[v] THEN v ELSE holds[reg[w]]
  BY <1>1 DEF Define
<1>3. CASE w = v
  BY <1>1, <1>2, <1>3
<1>4. CASE w # v
  <2>1. w \in live \cap set /\ w \in (live' \cap set) \ {v}
    BY <1>4 DEF Define
  <2>2. reg[w] # reg[v]
    BY <2>1, <1>1 DEF Define
  <2>3. holds[reg[w]] = w
    BY <2>1, <1>1 DEF OwnValue
  <2> QED
    BY <2>2, <2>3, <1>1, <1>2
<1> QED
  BY <1>3, <1>4

(* Reads find their own variable's value (ir68k.c:1609-1616), for any      *)
(* number of variables and registers and any control flow.                 *)
THEOREM OwnValues == Spec => []OwnValue
<1>1. Init => TypeOK /\ OwnValue
  BY DEF Init, TypeOK, OwnValue
<1>2. TypeOK /\ OwnValue /\ [Next]_vars => TypeOK' /\ OwnValue'
  <2> SUFFICES ASSUME TypeOK, OwnValue, [Next]_vars PROVE OwnValue'
    BY TypeStep
  <2>1. CASE Allocate
    BY <2>1 DEF Allocate, OwnValue
  <2>2. CASE Go
    BY <2>2 DEF Go, OwnValue
  <2>3. ASSUME NEW v \in Var, Define(v) PROVE OwnValue'
    BY <2>3, DefineKeepsOthers
  <2>4. CASE UNCHANGED vars
    BY <2>4 DEF OwnValue, vars
  <2> QED
    BY <2>1, <2>2, <2>3, <2>4 DEF Next
<1> QED
  BY <1>1, <1>2, PTL DEF Spec
=============================================================================
