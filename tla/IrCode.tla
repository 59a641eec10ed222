------------------------------- MODULE IrCode -------------------------------
(***************************************************************************)
(* The compiler's intermediate code, src/ir68k.c: expression trees, the    *)
(* items a function body is lowered to, the control-flow graph over them,  *)
(* and the two orders in which an expression is visited: the order the     *)
(* register allocator assumes and the order the code is emitted in.        *)
(*                                                                         *)
(* An expression is [kind, var, alu, kids]: its IrKind, the local variable *)
(* it loads, stores, clears or takes the address of, whether a BINOP's     *)
(* operator has a memory-operand form, and its subexpressions in the order *)
(* a, b, c (a call's function pointer, then its arguments).  Values,       *)
(* sizes and operators make no difference to the order and are left out.   *)
(***************************************************************************)
EXTENDS Naturals, FiniteSets, SequencesExt

CONSTANT NoVar  \* in an expression without a variable

Expr(kind, var, alu, kids) ==
  [kind |-> kind, var |-> var, alu |-> alu, kids |-> kids]
Num         == Expr("NUM", NoVar, FALSE, << >>)
Load(v)     == Expr("LOAD", v, FALSE, << >>)      \* IE_LOAD of a local IE_LEA
Lea(v)      == Expr("LEA", v, FALSE, << >>)       \* &v
Store(v, b) == Expr("STORE", v, FALSE, <<b>>)     \* v = b
Poke(a, b)  == Expr("STORE", NoVar, FALSE, <<a, b>>)   \* *a = b
Memzero(v)  == Expr("MEMZERO", v, FALSE, << >>)
Alu(a, b)   == Expr("BINOP", NoVar, TRUE, <<a, b>>)    \* + - & | and compares
Mul(a, b)   == Expr("BINOP", NoVar, FALSE, <<a, b>>)   \* * / % ^ << >>
Index(a, b) == Expr("INDEX", NoVar, FALSE, <<a, b>>)   \* a[b], longwords
LogAnd(a, b) == Expr("LOGAND", NoVar, FALSE, <<a, b>>) \* && and ||
Cond(a, b, c) == Expr("COND", NoVar, FALSE, <<a, b, c>>)
Comma(a, b) == Expr("COMMA", NoVar, FALSE, <<a, b>>)
Call(args)  == Expr("CALL", NoVar, FALSE, args)

Use(v)      == [var |-> v, op |-> "use"]
MustDef(v)  == [var |-> v, op |-> "must"]
MayDef(v)   == [var |-> v, op |-> "may"]

(* f(1) \o ... \o f(n)                                                     *)
CatAll(n, f(_)) ==
  LET cat[i \in 0 .. n] == IF i = 0 THEN << >> ELSE cat[i - 1] \o f(i)
  IN  cat[n]

(* What a node itself does to its variable, once its operands are done.    *)
Access(e, cond) ==
  CASE e.var = NoVar \/ e.kind = "LEA" -> << >>
    [] e.kind = "LOAD" -> <<Use(e.var)>>
    [] e.kind \in {"STORE", "MEMZERO"} ->
         <<IF cond THEN MayDef(e.var) ELSE MustDef(e.var)>>

(* The operands that are evaluated on one path only.                       *)
OnOneArm(e, i) == e.kind \in {"LOGAND", "COND"} /\ i > 1

(* The events of an expression as the allocator sees them, operands left   *)
(* to right; a store that one arm only executes is a may-def.              *)
RECURSIVE EvWalk(_, _)
EvWalkAllMust(e, cond) ==
  CatAll(Len(e.kids), LAMBDA i : EvWalk(e.kids[i], FALSE)) \o Access(e, FALSE)
EvWalk(e, cond) ==
  CatAll(Len(e.kids), LAMBDA i : EvWalk(e.kids[i], cond \/ OnOneArm(e, i)))
    \o Access(e, cond)

(* An operand the ALU instruction reads in place: a load of a variable in  *)
(* memory or in a data register (an address register is no ALU operand).   *)
InPlace(e, reg, addrRegs) == e.kind = "LOAD" /\ reg[e.var] \notin addrRegs

(* The orders in which the emitted code may evaluate a node's operands.    *)
EmitOrders(e, reg, addrRegs) ==
  CASE e.kind = "COND" -> {<<1, 2>>, <<1, 3>>}
    [] e.kind = "LOGAND" -> {<<1>>, <<1, 2>>}
    [] e.kind = "CALL" -> {Reverse([i \in DOMAIN e.kids |-> i])}
    [] e.kind = "INDEX" -> {<<2, 1>>}
    [] e.kind = "BINOP" /\ ~ (e.alu /\ InPlace(e.kids[2], reg, addrRegs)) -> {<<2, 1>>}
    [] OTHER -> {[i \in DOMAIN e.kids |-> i]}

Concat(S, T) == {s \o t : s \in S, t \in T}

(* The event sequences the emitted code of an expression may execute.      *)
RECURSIVE Traces(_, _, _)
Traces(e, reg, addrRegs) ==
  LET of(order) ==
        LET upto[n \in 0 .. Len(order)] ==
              IF n = 0 THEN {<< >>}
              ELSE Concat(upto[n - 1], Traces(e.kids[order[n]], reg, addrRegs))
        IN  upto[Len(order)]
  IN  Concat(UNION {of(o) : o \in EmitOrders(e, reg, addrRegs)}, {Access(e, FALSE)})

(* Not in the code: no operand of a node stores a variable while another   *)
(* operand of the same node, which may be evaluated before it or after it, *)
(* uses or stores any.                                                     *)
RECURSIVE Sequenced(_)
Sequenced(e) ==
  LET events(i) == EvWalk(e.kids[i], FALSE)
  IN  /\ \A i \in DOMAIN e.kids : Sequenced(e.kids[i])
      /\ e.kind \in {"CALL", "INDEX", "BINOP"} =>
           \A i, j \in DOMAIN e.kids :
             i # j /\ (\E k \in DOMAIN events(i) : events(i)[k].op # "use")
               => events(j) = << >>
-----------------------------------------------------------------------------
(* Statements.  A loop's condition and increment are sequences of at most  *)
(* one expression; labels are named by the place of the statement in the   *)
(* body, which stands for cg_uid, and user labels by a number.             *)
Block(body)      == [kind |-> "BLOCK", body |-> body]
Do(e)            == [kind |-> "EXPR_STMT", e |-> e]
Return(e)        == [kind |-> "RETURN", e |-> e]
If(c, t, f)      == [kind |-> "IF", cond |-> c, then |-> t, els |-> f]
For(c, inc, t)   == [kind |-> "FOR", cond |-> c, inc |-> inc, then |-> t]
DoWhile(t, c)    == [kind |-> "DO", cond |-> c, then |-> t]
Break            == [kind |-> "BREAK"]
Continue         == [kind |-> "CONTINUE"]
Goto(n)          == [kind |-> "GOTO", to |-> n]
Label(n, s)      == [kind |-> "LABEL", to |-> n, then |-> s]

Item(kind, e, label) == [kind |-> kind, e |-> e, label |-> label]
LabelAt(name, path)  == Item("LABEL", Num, <<name, path>>)
Jump(name, path)     == Item("JMP", Num, <<name, path>>)
BranchTo(e, name, path) == Item("CBR", e, <<name, path>>)

(* lower_stmt: s is at path, in the loop at the path loop.                 *)
RECURSIVE Lower(_, _, _)
Lower(s, path, loop) ==
  CASE s.kind = "BLOCK" ->
         CatAll(Len(s.body), LAMBDA i : Lower(s.body[i], Append(path, i), loop))
    [] s.kind = "EXPR_STMT" -> <<Item("EVAL", s.e, << >>)>>
    [] s.kind = "RETURN" -> <<Item("RET", s.e, << >>)>>
    [] s.kind = "IF" ->
         <<BranchTo(s.cond, "else", path)>> \o Lower(s.then, Append(path, 1), loop)
           \o <<Jump("end", path), LabelAt("else", path)>>
           \o Lower(s.els, Append(path, 2), loop) \o <<LabelAt("end", path)>>
    [] s.kind = "FOR" ->
         <<LabelAt("begin", path)>>
           \o [i \in DOMAIN s.cond |-> BranchTo(s.cond[i], "brk", path)]
           \o Lower(s.then, Append(path, 1), path) \o <<LabelAt("cont", path)>>
           \o [i \in DOMAIN s.inc |-> Item("EVAL", s.inc[i], << >>)]
           \o <<Jump("begin", path), LabelAt("brk", path)>>
    [] s.kind = "DO" ->
         <<LabelAt("begin", path)>> \o Lower(s.then, Append(path, 1), path)
           \o <<LabelAt("cont", path), BranchTo(s.cond, "begin", path),
                LabelAt("brk", path)>>
    [] s.kind = "BREAK" -> <<Jump("brk", loop)>>
    [] s.kind = "CONTINUE" -> <<Jump("cont", loop)>>
    [] s.kind = "GOTO" -> <<Jump("user", <<s.to>>)>>
    [] s.kind = "LABEL" ->
         <<LabelAt("user", <<s.to>>)>> \o Lower(s.then, Append(path, 1), loop)

(* The elements of S in the order of the strict total order before.        *)
InOrder(S, before(_, _)) ==
  [k \in 1 .. Cardinality(S) |->
     CHOOSE i \in S : Cardinality({j \in S : before(j, i)}) = k - 1]

Transfers == {"JMP", "CBR", "RET"}

(* ir_build_cfg: the first item, every label and every item after a        *)
(* transfer lead a block; blocks[b] is the half-open range of its items.   *)
Blocks(items) ==
  LET lead == {i \in DOMAIN items : \/ i = 1 \/ items[i].kind = "LABEL"
                                    \/ items[i - 1].kind \in Transfers}
      starts == InOrder(lead, <)
      ends == Append(Tail(starts), Len(items) + 1)
  IN  [b \in DOMAIN starts |-> [start |-> starts[b], end |-> ends[b]]]

BlockOfLabel(items, blocks, label) ==
  {b \in DOMAIN blocks : items[blocks[b].start].kind = "LABEL"
                         /\ items[blocks[b].start].label = label}

(* The successors, from a block's last item.                               *)
Succ(items, blocks, b) ==
  LET last == items[blocks[b].end - 1]
      target == BlockOfLabel(items, blocks, last.label)
      next == {b + 1} \cap DOMAIN blocks
  IN  CASE last.kind = "JMP" -> target
        [] last.kind = "RET" -> {}
        [] last.kind = "CBR" -> target \cup next
        [] OTHER -> next
-----------------------------------------------------------------------------
(* ra_walk: the references to variables, each with whether it is in a      *)
(* loop, and the variables whose address is taken.                         *)
RECURSIVE Refs(_, _)
Refs(e, d) ==
  CatAll(Len(e.kids), LAMBDA i : Refs(e.kids[i], d))
    \o (IF e.kind \in {"LOAD", "STORE", "LEA"} /\ e.var # NoVar
        THEN <<[var |-> e.var, lea |-> e.kind = "LEA", inLoop |-> d]>> ELSE << >>)

RECURSIVE StmtRefs(_, _)
StmtRefs(s, d) ==
  CASE s.kind = "BLOCK" -> CatAll(Len(s.body), LAMBDA i : StmtRefs(s.body[i], d))
    [] s.kind \in {"EXPR_STMT", "RETURN"} -> Refs(s.e, d)
    [] s.kind = "IF" -> Refs(s.cond, d) \o StmtRefs(s.then, d) \o StmtRefs(s.els, d)
    [] s.kind = "FOR" -> CatAll(Len(s.cond), LAMBDA i : Refs(s.cond[i], TRUE))
                           \o CatAll(Len(s.inc), LAMBDA i : Refs(s.inc[i], TRUE))
                           \o StmtRefs(s.then, TRUE)
    [] s.kind = "DO" -> Refs(s.cond, TRUE) \o StmtRefs(s.then, TRUE)
    [] s.kind = "LABEL" -> StmtRefs(s.then, d)
    [] OTHER -> << >>

(* ra_has_user_jump.                                                       *)
RECURSIVE HasUserJump(_)
HasUserJump(s) ==
  CASE s.kind \in {"GOTO", "LABEL"} -> TRUE
    [] s.kind = "BLOCK" -> \E i \in DOMAIN s.body : HasUserJump(s.body[i])
    [] s.kind = "IF" -> HasUserJump(s.then) \/ HasUserJump(s.els)
    [] s.kind \in {"FOR", "DO"} -> HasUserJump(s.then)
    [] OTHER -> FALSE
=============================================================================
