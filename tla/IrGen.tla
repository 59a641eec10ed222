-------------------------------- MODULE IrGen --------------------------------
(***************************************************************************)
(* The other code generator (ir68k.c), used from level 2 on for the        *)
(* functions it can take: a function's tree is built into items over       *)
(* expression trees, level 3 folds constants in them and drops what is     *)
(* dead, the busiest variables move to registers, and the items are        *)
(* selected into instructions.  The names p of nodes and the context c are *)
(* those of Codegen; c.reg gives the register of a promoted variable.      *)
(*                                                                         *)
(* An expression has a kind k (nop, num, lea, load, store, bin, un, logand,*)
(* logor, cond, comma, cast, call, memzero), an operator, the size and     *)
(* signedness of its value, what it mentions and its operands.             *)
(***************************************************************************)
EXTENDS Codegen

Ir(k, op, t, x, kids) == [k |-> k, op |-> op, sz |-> t.sz, u |-> t.u, x |-> x, kids |-> kids]
NoType == Type("", 0, FALSE)
Nop == Ir("nop", "", NoType, <<>>, <<>>)
IrNum(v, t) == Ir("num", "", t, v, <<>>)
LeaOf(v) == Ir("lea", "", NoType, v, <<>>)
IrLoad(a, t) == Ir("load", "", t, <<>>, <<a>>)

(* The nodes below a node, in the order of its fields, and all of a tree.  *)
RECURSIVE Nodes(_)
Below(n) ==
  LET one(f) == IF f \in DOMAIN n THEN <<n[f]>> ELSE <<>>
      all(f) == IF f \in DOMAIN n THEN n[f] ELSE <<>>
  IN  one("l") \o one("r") \o one("c") \o one("then") \o one("els") \o one("init") \o one("inc")
      \o all("body") \o all("args")
Nodes(n) == LET sub == Below(n) IN <<n>> \o Concat([i \in DOMAIN sub |-> Nodes(sub[i])])

-----------------------------------------------------------------------------
(* Which functions it takes (ty_ok, expr_ok, stmt_ok).                     *)
TyOk(t) == ~ IsFlonum(t) /\ ~ IsRecord(t) /\ t.k # "vla" /\ ~ (IsInteger(t) /\ t.sz = 8)
StmtKinds == {"block", "expr", "null", "return", "if", "for", "do", "goto", "label"}
ExprKinds ==
  {"null", "num", "var", "memzero", "bin", "comma", "logand", "logor", "neg", "bitnot", "not", "addr", "deref",
   "cast", "assign", "cond", "call"}
Takes(n) ==
  /\ n.k \in StmtKinds \cup ExprKinds
  /\ "ty" \in DOMAIN n => TyOk(n.ty)
  /\ n.k = "block" => n.mark = <<>>
  /\ n.k = "call" => "buf" \notin DOMAIN n /\ ~ IsAlloca(n) /\ ~ IsSetjmp(n)
Eligible(f) == LET all == Nodes(f.body) IN \A i \in DOMAIN all : Takes(all[i])

-----------------------------------------------------------------------------
(* Registers (ir_prep_regs and, up to level 2, ir_color_regs).  The parser *)
(* has made x op= b into tmp = &x, *tmp = *tmp op b; where tmp is used for *)
(* nothing else, *tmp is x again.  An alias is <<tmp, x>>.                 *)
FitsRegister(t) == t.sz = 4 /\ (IsInteger(t) \/ t.k = "ptr")
Unnamed(v) == SubSeq(v.name, 1, 1) = "."
AliasOf(n) ==
  IF n.k = "comma" /\ n.l.k = "assign" /\ n.l.l.k = "var" /\ n.l.l.v.local /\ Unnamed(n.l.l.v) /\ n.l.l.ty.k = "ptr"
  THEN LET a == Unwrapped(n.l.r)
       IN  IF a.k = "addr" /\ a.l.k = "var" /\ a.l.v.local /\ ~ Unnamed(a.l.v) /\ FitsRegister(a.l.ty)
           THEN <<<<n.l.l.v.name, a.l.v>>>> ELSE <<>>
  ELSE <<>>
IsUseOf(n, name) == n.k = "var" /\ n.v.name = name
Aliases(f) ==
  LET all == Nodes(f.body)
      found == Concat([i \in DOMAIN all |-> AliasOf(all[i])])
      uses(name) == Cardinality({i \in DOMAIN all : IsUseOf(all[i], name)})
      derefs(name) == Cardinality({i \in DOMAIN all : all[i].k = "deref" /\ IsUseOf(all[i].l, name)})
      kept == SelectSeq(found, LAMBDA a : uses(a[1]) = 1 + derefs(a[1]))
  IN  FoldLeft(LAMBDA fa, a : (a[1] :> a[2]) @@ fa, [x \in {} |-> <<>>], kept)
IsAlias(n, fa) == n.k = "var" /\ n.v.name \in DOMAIN fa

(* ra_walk: the uses of variables, <<name, in a loop>>, and <<name>> of    *)
(* one whose address is taken.                                             *)
RECURSIVE Uses(_, _, _)
Uses(n, loop, fa) ==
  LET all(ns, in) == Concat([i \in DOMAIN ns |-> Uses(ns[i], in, fa)])
      own == CASE n.k = "var" -> <<<<n.v.name, loop>>>>
               [] n.k = "addr" /\ n.l.k = "var" -> <<<<n.l.v.name>>>>
               [] OTHER -> <<>>
  IN  CASE n.k = "deref" /\ IsAlias(n.l, fa) -> <<<<fa[n.l.v.name].name, loop>>>>
        [] n.k = "assign" /\ IsAlias(n.l, fa) -> <<>>
        [] n.k = "for" -> Uses(n.init, loop, fa) \o all(<<n.c, n.inc, n.then>>, TRUE)
        [] OTHER -> own \o all(Below(n), loop \/ n.k = "do")

(* Every candidate has a register of its own, the most used first.         *)
Pool == DataPool \o AddressPool
Registers(f, fa) ==
  LET uses == Uses(f.body, FALSE, fa)
      vars == SelectSeq(f.params \o f.locals, LAMBDA v : ~ Unnamed(v) /\ FitsRegister(v.ty))
      count(v) == Cardinality({i \in DOMAIN uses : uses[i][1] = v.name /\ Len(uses[i]) = 2})
      worth(v) == <<v.name>> \notin Range(uses) /\ <<v.name, TRUE>> \in Range(uses)
      hot == SelectSeq(vars, worth)
      sorted == SortSeq([i \in DOMAIN hot |-> <<count(hot[i]), -i, hot[i].name>>],
                        LAMBDA a, b : a[1] > b[1] \/ (a[1] = b[1] /\ a[2] > b[2]))
      n == IF Len(sorted) < Len(Pool) THEN Len(sorted) ELSE Len(Pool)
  IN  FoldLeft(LAMBDA r, i : (sorted[i][3] :> Pool[i]) @@ r, [x \in {} |-> ""], [i \in 1 .. n |-> i])

-----------------------------------------------------------------------------
(* The builder: build_addr and build_expr.  An array or a function is its  *)
(* address, and an alias is the variable it stands for.                    *)
RECURSIVE Build(_, _)
RECURSIVE BuildAddr(_, _)
BuildAddr(n, fa) ==
  CASE n.k = "var" -> LeaOf(n.v)
    [] n.k = "deref" -> IF IsAlias(n.l, fa) THEN LeaOf(fa[n.l.v.name]) ELSE Build(n.l, fa)
    [] n.k = "comma" -> Ir("comma", "", TInt, <<>>, <<Build(n.l, fa), BuildAddr(n.r, fa)>>)
IsAddress(t) == t.k \in {"array", "func"}
Build(n, fa) ==
  LET l == Build(n.l, fa)
      r == Build(n.r, fa)
  IN  CASE n.k = "null" -> Nop
        [] n.k = "num" -> IrNum(n.v, n.ty)
        [] n.k \in {"var", "deref"} -> IF IsAddress(n.ty) THEN BuildAddr(n, fa) ELSE IrLoad(BuildAddr(n, fa), n.ty)
        [] n.k = "addr" -> BuildAddr(n.l, fa)
        [] n.k = "assign" -> IF IsAlias(n.l, fa) THEN Nop ELSE Ir("store", "", n.ty, <<>>, <<BuildAddr(n.l, fa), r>>)
        [] n.k = "comma" -> Ir("comma", "", r, <<>>, <<l, r>>)
        [] n.k = "cast" -> Ir("cast", n.ty.k, n.ty, <<n.l.ty.sz, n.l.ty.u>>, <<l>>)
        [] n.k = "cond" -> Ir("cond", "", n.ty, <<>>, <<Build(n.c, fa), l, r>>)
        [] n.k = "not" -> Ir("un", "not", TInt, <<>>, <<l>>)
        [] n.k \in {"bitnot", "neg"} -> Ir("un", n.k, n.ty, <<>>, <<l>>)
        [] n.k \in {"logand", "logor"} -> Ir(n.k, "", TInt, <<>>, <<l, r>>)
        [] n.k = "memzero" -> Ir("memzero", "", n.v.ty, n.v, <<>>)
        [] n.k = "call" ->
             LET args == Evaluated([i \in DOMAIN n.args |-> Build(n.args[i], fa)])
             IN  IF n.l.k = "var" /\ n.l.ty.k = "func" THEN Ir("call", "", n.ty, <<n.l.v>>, args)
                 ELSE Ir("call", "", n.ty, <<>>, Append(args, l))
        [] n.k = "bin" ->                           \* signed as its left operand is
             Ir("bin", n.op, [sz |-> n.ty.sz, u |-> n.l.ty.u], n.op = "add" /\ HasBase(n.ty), <<l, r>>)

(* lower_stmt: at the place p of the tree, where Codegen has the same node.*)
Item(k, e, p, l, when) == [k |-> k, e |-> e, p |-> p, l |-> l, when |-> when]
LabelHere(l) == <<Item("label", Nop, "", l, FALSE)>>
JumpTo(l) == <<Item("jmp", Nop, "", l, FALSE)>>
Evaluate(n, p, fa) == <<Item("eval", Build(n, fa), p, "", FALSE)>>
BranchOn(n, p, l, when, fa) == <<Item("cbr", Build(n, fa), p, l, when)>>
RECURSIVE Lowered(_, _, _)
Lowered(n, p, fa) ==
  LET sub(m, q) == Lowered(m, p \o q, fa)
      begin == "L_begin_" \o p  else == "L_else_" \o p  end == "L_end_" \o p
  IN  CASE n.k = "block" -> Concat([i \in DOMAIN n.body |-> sub(n.body[i], ToString(i))])
        [] n.k = "null" -> <<>>
        [] n.k = "expr" -> Evaluate(n.l, p, fa)
        [] n.k = "return" -> <<Item("ret", Build(n.l, fa), p, "", FALSE)>>
        [] n.k = "if" -> BranchOn(n.c, p \o "c", else, FALSE, fa) \o sub(n.then, "t") \o JumpTo(end)
                         \o LabelHere(else) \o sub(n.els, "e") \o LabelHere(end)
        [] n.k = "for" ->
             sub(n.init, "i") \o LabelHere(begin)
             \o (IF n.c.k = "null" THEN <<>> ELSE BranchOn(n.c, p \o "c", n.brk, FALSE, fa))
             \o sub(n.then, "t") \o LabelHere(n.cont) \o Evaluate(n.inc, p \o "n", fa) \o JumpTo(begin) \o LabelHere(n.brk)
        [] n.k = "do" ->
             LabelHere(begin) \o sub(n.then, "t") \o LabelHere(n.cont)
             \o BranchOn(n.c, p \o "c", begin, TRUE, fa) \o LabelHere(n.brk)
        [] n.k = "goto" -> JumpTo(n.label)
        [] n.k = "label" -> LabelHere(n.label) \o sub(n.l, "s")

-----------------------------------------------------------------------------
(* Level 3: constants are folded, and what cannot be reached or does       *)
(* nothing is dropped.                                                     *)
Wrapped(v) == Signed(v % Span(4), 4)
IsNum(e) == e.k = "num"
NumOf(e) == Wrapped(e.x)
NumLike(v, e) == IrNum(v, Type("", IF e.sz = 0 THEN 4 ELSE e.sz, e.u))

RECURSIVE Has(_, _)
Has(e, kinds) == e.k \in kinds \/ \E i \in DOMAIN e.kids : Has(e.kids[i], kinds)
IsPure(e) == ~ Has(e, {"call", "store", "memzero"})
IsTrivial(e) == ~ Has(e, {"call", "store", "memzero", "load"})
RECURSIVE Same(_, _)
Same(a, b) ==
  /\ a.k = b.k
  /\ CASE a.k = "num" -> a.x = b.x
       [] a.k = "lea" -> a.x.name = b.x.name /\ a.x.local = b.x.local
       [] a.k = "un" -> a.op = b.op /\ Same(a.kids[1], b.kids[1])
       [] a.k \in {"load", "bin", "cast"} ->
            /\ a.op = b.op /\ a.sz = b.sz /\ a.u = b.u
            /\ a.k = "cast" => a.x = b.x
            /\ \A i \in DOMAIN a.kids : Same(a.kids[i], b.kids[i])
       [] OTHER -> FALSE

(* fold_binop: division by zero and shifts out of range stay.              *)
FoldedOp(op, u, a, b) ==
  LET ua == a % Span(4)  ub == b % Span(4)
      overflow == ~ u /\ a = -(Span(4) \div 2) /\ b = -1
      quotient == IF u THEN ua \div ub ELSE Quotient(a, b)
      truth(x) == IF x THEN <<1>> ELSE <<0>>
  IN  CASE op = "add" -> <<a + b>> [] op = "sub" -> <<a - b>> [] op = "mul" -> <<a * b>>
        [] op = "and" -> <<ua & ub>> [] op = "or" -> <<ua | ub>> [] op = "xor" -> <<ua ^^ ub>>
        [] op \in {"div", "mod"} ->
             IF b = 0 \/ overflow THEN <<>>
             ELSE IF op = "div" THEN <<quotient>> ELSE <<(IF u THEN ua ELSE a) - (IF u THEN ub ELSE b) * quotient>>
        [] op \in {"shl", "shr"} ->
             IF b \notin 0 .. Byte * 4 - 1 THEN <<>>
             ELSE IF op = "shl" THEN <<ua * 2 ^ b>> ELSE <<(IF u THEN ua ELSE a) \div 2 ^ b>>
        [] op = "eq" -> truth(a = b) [] op = "ne" -> truth(a # b)
        [] op = "lt" -> truth(IF u THEN ua < ub ELSE a < b) [] op = "le" -> truth(IF u THEN ua <= ub ELSE a <= b)

(* ie_binop_identity: neutral, absorbing and equal operands.               *)
Identity(e) ==
  LET a == e.kids[1]  b == e.kids[2]
      on(x, v) == IsNum(x) /\ NumOf(x) = v
      neutral == CASE e.op \in {"add", "or", "xor", "sub", "shl", "shr"} -> 0 [] e.op = "mul" -> 1
                   [] e.op = "and" -> -1 [] OTHER -> Span(4)
  IN  CASE on(b, neutral) -> a
        [] e.op \in {"add", "mul", "and", "or", "xor"} /\ on(a, neutral) -> b
        [] e.op \in {"mul", "and"} /\ ((on(b, 0) /\ IsTrivial(a)) \/ (on(a, 0) /\ IsTrivial(b))) -> NumLike(0, e)
        [] e.op = "add" /\ IsPure(a) /\ Same(a, b) -> Ir("bin", "shl", e, FALSE, <<a, IrNum(1, TInt)>>)
        [] OTHER -> e

(* ie_fold, on an expression whose operands are folded.                    *)
FoldedHere(e) ==
  LET a == e.kids[1]  b == e.kids[2]
      truth(x) == IrNum(IF x THEN 1 ELSE 0, TInt)
      both == IsNum(a) /\ IsNum(b)
      result == FoldedOp(e.op, e.u, NumOf(a), NumOf(b))
      narrow == NumOf(a) % Span(e.sz)
      absorbing == IF e.k = "logand" THEN 0 ELSE 1
  IN  CASE e.k = "bin" -> IF ~ both THEN Identity(e) ELSE IF result = <<>> THEN e ELSE NumLike(Wrapped(result[1]), e)
        [] e.kids = <<>> \/ (e.k \in {"cast", "un", "cond", "logand", "logor"} /\ ~ IsNum(a)) -> e
        [] e.k = "cast" /\ e.op = "bool" -> NumLike(IF NumOf(a) # 0 THEN 1 ELSE 0, e)
        [] e.k = "cast" /\ IsInteger([k |-> e.op]) ->
             NumLike(IF e.sz = 4 THEN NumOf(a) ELSE IF e.u THEN narrow ELSE Signed(narrow, e.sz), e)
        [] e.k = "un" -> (CASE e.op = "neg" -> NumLike(Wrapped(- NumOf(a)), e)
                            [] e.op = "bitnot" -> NumLike(-1 - NumOf(a), e)
                            [] e.op = "not" -> truth(NumOf(a) = 0))
        [] e.k = "cond" -> IF NumOf(a) # 0 THEN b ELSE e.kids[3]
        [] e.k \in {"logand", "logor"} ->
             IF (NumOf(a) = 0) = (absorbing = 0) THEN IrNum(absorbing, TInt)
             ELSE IF IsNum(b) THEN truth(NumOf(b) # 0) ELSE e
        [] OTHER -> e
RECURSIVE Folded(_)
Folded(e) == FoldedHere([e EXCEPT !.kids = Evaluated([i \in DOMAIN @ |-> Folded(@[i])])])

FoldedItem(i) ==
  LET e == Folded(i.e)
  IN  IF i.k = "cbr" /\ IsNum(e)
      THEN [i EXCEPT !.k = IF (NumOf(e) # 0) = i.when THEN "jmp" ELSE "nop", !.e = Nop]
      ELSE [i EXCEPT !.e = e]
Follows(items, i) ==
  LET to == {j \in DOMAIN items : items[j].k = "label" /\ items[j].l = items[i].l}
  IN  CASE items[i].k = "jmp" -> to [] items[i].k = "ret" -> {}
        [] OTHER -> ({i + 1} \cap DOMAIN items) \cup (IF items[i].k = "cbr" THEN to ELSE {})
RECURSIVE Reached(_, _)
Reached(items, from) ==
  LET next == UNION {Follows(items, i) : i \in from} \ from
  IN  IF next = {} THEN from ELSE Reached(items, from \cup next)
Optimized(lowered) ==
  LET items == Evaluated([i \in DOMAIN lowered |-> FoldedItem(lowered[i])])
      live == Reached(items, {1} \cap DOMAIN items)
      dead(i) == i \notin live \/ (items[i].k = "eval" /\ IsTrivial(items[i].e))
  IN  Evaluated([i \in DOMAIN items |-> IF dead(i) THEN [items[i] EXCEPT !.k = "nop", !.e = Nop] ELSE items[i]])

-----------------------------------------------------------------------------
(* Selection.  An operand in place: a constant, or a long variable, behind *)
(* casts that change nothing; <<>> when there is none.  A variable in an   *)
(* address register is no operand of arithmetic.                           *)
RECURSIVE IrConst(_)
IrConst(e) ==
  CASE e.k = "cast" /\ IsInteger([k |-> e.op]) /\ e.sz >= 4 -> IrConst(e.kids[1])
    [] e.k = "num" /\ e.sz >= 4 -> <<NumOf(e)>>
    [] OTHER -> <<>>
RegOf(e, c) == IF e.k = "lea" /\ e.x.local /\ e.x.name \in DOMAIN c.reg THEN <<c.reg[e.x.name]>> ELSE <<>>
RECURSIVE InPlace(_, _)
InPlace(e, c) ==
  CASE e.k = "cast" /\ IsInteger([k |-> e.op]) /\ e.sz = 4 -> InPlace(e.kids[1], c)
    [] e.k = "load" /\ e.sz = 4 /\ e.kids[1].k = "lea" ->
         LET r == RegOf(e.kids[1], c)
         IN  IF r = <<>> THEN <<Place(e.kids[1].x, c)>> ELSE IF r[1] \in AddressRegs THEN <<>> ELSE <<r>>
    [] OTHER -> <<>>
RECURSIVE IsSimpleBase(_)
IsSimpleBase(e) ==
  IF e.k = "cast" THEN IsSimpleBase(e.kids[1]) ELSE e.k = "lea" \/ (e.k = "load" /\ e.kids[1].k = "lea")

RECURSIVE Select(_, _, _, _)
RECURSIVE Jump(_, _, _, _, _, _)

(* ir_const_binop: what follows the other operand when one is the constant *)
(* k, as <<code>>, or <<>>.                                                *)
Add(k) == IF k = 0 THEN <<>> ELSE <<Line("add", 4, Imm(k), D0)>>
Flag(op, u) == Truth01(CcOf(op, u))
IrConstCode(e, k, p, d) ==
  LET uk == k % Span(4)
      power == IsPow2(uk)
      by(op) == ShiftBy(op, Ctz(uk), D0, D1)
      near(alu, n) == <<Move(4, D0, D1), Line("asl", 4, Imm(Ctz(n)), D0), Line(alu, 4, D1, D0)>>
      isNear(n) == k >= 3 /\ IsPow2(n) /\ Ctz(n) <= MaxShift
      mask == <<Line("and", 4, Imm(uk - 1), D0)>>
      neg == <<Line("neg", 4, <<>>, D0)>>
      rounded == Rounded(uk - 1, "L_s_" \o p, d) \o by("asr")
      remainder == <<Line("tst", 4, <<>>, D0), Branch("pl", "L_s_" \o p)>> \o neg \o mask \o neg
                   \o <<Branch("ra", "L_sx_" \o p), At("L_s_" \o p, d)>> \o mask \o <<At("L_sx_" \o p, d)>>
  IN  CASE e.op \in {"add", "sub"} -> <<Add(IF e.op = "add" THEN k ELSE -k)>>
        [] e.op \in {"and", "or", "xor"} -> <<<<Line(Alu(e.op), 4, Imm(k), D0)>>>>
        [] e.op \in Relations -> <<<<Line("cmp", 4, Imm(k), D0)>> \o Flag(e.op, e.u)>>
        [] e.op \in {"shl", "shr"} /\ k \in 1 .. Byte * 4 - 1 ->
             <<ShiftBy(IF e.op = "shl" THEN "asl" ELSE IF e.u THEN "lsr" ELSE "asr", k, D0, D1)>>
        [] e.op = "mul" /\ k \in {-1, 0, 1} -> <<IF k = 0 THEN LoadImm(0) ELSE IF k = 1 THEN <<>> ELSE neg>>
        [] e.op = "mul" /\ power -> <<by("asl")>>
        [] e.op = "mul" /\ isNear(uk - 1) -> <<near("add", uk - 1)>>
        [] e.op = "mul" /\ isNear(uk + 1) -> <<near("sub", uk + 1)>>
        [] e.op = "div" /\ power /\ (e.u \/ k >= 2) -> <<IF e.u THEN by("lsr") ELSE rounded>>
        [] e.op = "mod" /\ power /\ (e.u \/ k >= 2) -> <<IF e.u THEN mask ELSE remainder>>
        [] OTHER -> <<>>
IrLeftUnswapped(e, k, p, d) ==                     \* a mutant: the relation is kept
  IF e.op \in Commutative \cup {"lt", "le"} THEN IrConstCode(e, k, p, d) ELSE <<>>
IrLeftCode(e, k, p, d) ==
  CASE e.op \in Commutative -> IrConstCode(e, k, p, d)
    [] e.op \in {"lt", "le"} -> <<<<Line("cmp", 4, Imm(k), D0)>> \o Flag(Swapped(e.op), e.u)>>
    [] OTHER -> <<>>
IrMemoryCode(e, ea) ==
  CASE e.op \in {"add", "sub", "and", "or"} -> <<<<Line(e.op, 4, ea, D0)>>>>
    [] e.op \in Relations -> <<<<Line("cmp", 4, ea, D0)>> \o Flag(e.op, e.u)>>
    [] OTHER -> <<>>

(* ir_binop, ir_indexed_load, ir_call and ir_memzero.                      *)
BothSelected(a, b, p, d, c) ==
  Select(b, p \o "r", d, c) \o Push \o Select(a, p \o "l", d + 1, c) \o Pop(D1)
SelectBinop(e, p, d, c) ==
  LET a == e.kids[1]  b == e.kids[2]
      right == IF IrConst(b) = <<>> THEN <<>> ELSE IrConstCode(e, IrConst(b)[1], p, d)
      left == IF IrConst(a) = <<>> THEN <<>> ELSE IrLeftCode(e, IrConst(a)[1], p, d)
      memory == IF InPlace(b, c) = <<>> THEN <<>> ELSE IrMemoryCode(e, InPlace(b, c)[1])
  IN  CASE right # <<>> -> Select(a, p \o "l", d, c) \o right[1]
        [] left # <<>> -> Select(b, p \o "r", d, c) \o left[1]
        [] memory # <<>> -> Select(a, p \o "l", d, c) \o memory[1]
        [] OTHER -> BothSelected(a, b, p, d, c) \o LongCode(e.op, e.u, d)
SelectIndexed(sum, p, d, c) ==
  Select(sum.kids[2], p \o "r", d, c) \o <<Move(4, D0, D1)>> \o Select(sum.kids[1], p \o "l", d, c)
  \o <<Move(4, D0, A0), Move(4, <<"(a0,d1)">>, D0)>>
IsIndexedSum(e) == e.k = "bin" /\ e.op = "add" /\ e.x /\ IsSimpleBase(e.kids[1])
SelectCall(e, p, d, c) ==
  LET direct == e.x # <<>>
      n == Len(e.kids) - (IF direct THEN 0 ELSE 1)
      arg(i) == Select(e.kids[i], p \o ToString(i), d + n - i, c) \o Push
  IN  Concat(Reverse([i \in 1 .. n |-> arg(i)]))
      \o (IF direct THEN <<Jsr(IF e.x[1].name = "longjmp" THEN <<"longjmp">> ELSE Place(e.x[1], c), d + n)>>
          ELSE Select(e.kids[n + 1], p \o "f", d + n, c) \o <<Move(4, D0, A0), Jsr(Off("a0", 0), d + n)>>)
      \o (IF n = 0 THEN <<>> ELSE <<Line("adda", 4, Imm(4 * n), SP)>>)
SelectMemzero(e, p, d, c) ==
  IF e.x.name \in DOMAIN c.reg THEN <<Move(4, Imm(0), <<c.reg[e.x.name]>>)>> ELSE MemZero([v |-> e.x], p, d, c)
SelectStore(e, p, d, c) ==
  LET a == e.kids[1]
      value(n) == Select(e.kids[2], p \o "r", d + n, c)
  IN  CASE RegOf(a, c) # <<>> -> value(0) \o <<Move(4, D0, RegOf(a, c))>>
        [] RegOf(a, c) = <<>> /\ a.k = "lea" -> value(0) \o <<Move(e.sz, D0, Place(a.x, c))>>
        [] OTHER -> Select(a, p \o "l", d, c) \o Push \o value(1) \o Pop(A1) \o <<Move(e.sz, D0, Off("a1", 0))>>
SelectShort(e, cc, p, d, c) ==
  LET test(a, q) == Select(a, q, d, c) \o <<Line("tst", 4, <<>>, D0), Branch(cc, "L_short_" \o p)>>
      way == IF cc = "eq" THEN 1 ELSE 0
  IN  test(e.kids[1], p \o "l") \o test(e.kids[2], p \o "r")
      \o LoadImm(way) \o <<Branch("ra", "L_end_" \o p), At("L_short_" \o p, d)>>
      \o LoadImm(1 - way) \o <<At("L_end_" \o p, d)>>

(* ir_expr: the value in d0.                                               *)
Select(e, p, d, c) ==
  LET a == e.kids[1]
      whole == Type("int", e.sz, e.u)
  IN  CASE e.k = "nop" -> <<>>
        [] e.k = "num" -> LoadImm(e.x)
        [] e.k = "lea" -> Lea(Place(e.x, c))
        [] e.k = "load" ->
             IF RegOf(a, c) # <<>> THEN <<Move(4, RegOf(a, c), D0)>>
             ELSE IF e.sz = 4 /\ IsIndexedSum(a) THEN SelectIndexed(a, p, d, c) ELSE Select(a, p, d, c) \o Load(whole)
        [] e.k = "store" -> SelectStore(e, p, d, c)
        [] e.k = "bin" -> SelectBinop(e, p, d, c)
        [] e.k = "un" ->
             Select(a, IF e.op = "not" THEN p \o "n" ELSE p, d, c)
             \o (IF e.op = "not" THEN <<Line("tst", 4, <<>>, D0)>> \o Truth01("eq")
                 ELSE <<Line(IF e.op = "neg" THEN "neg" ELSE "not", 4, <<>>, D0)>>)
        [] e.k = "logand" -> SelectShort(e, "eq", p, d, c)
        [] e.k = "logor" -> SelectShort(e, "ne", p, d, c)
        [] e.k = "cond" ->
             Jump(a, "L_else_" \o p, FALSE, p \o "c", d, c) \o Select(e.kids[2], p \o "l", d, c)
             \o <<Branch("ra", "L_end_" \o p), At("L_else_" \o p, d)>> \o Select(e.kids[3], p \o "r", d, c)
             \o <<At("L_end_" \o p, d)>>
        [] e.k = "comma" -> Select(a, p \o "l", d, c) \o Select(e.kids[2], p \o "r", d, c)
        [] e.k = "cast" ->
             Select(a, p \o "c", d, c)
             \o (CASE e.op = "void" -> <<>> [] e.op = "bool" -> <<Line("tst", 4, <<>>, D0)>> \o Truth01("ne")
                   [] OTHER -> CastNarrow(whole))
        [] e.k = "call" -> SelectCall(e, p, d, c)
        [] e.k = "memzero" -> SelectMemzero(e, p, d, c)

(* ir_cond: a branch to l taken exactly when e is when.                    *)
Jump(e, l, when, p, d, c) ==
  LET a == e.kids[1]  b == e.kids[2]
      A(to, w) == Jump(a, to, w, p \o "l", d, c)
      B(to, w) == Jump(b, to, w, p \o "r", d, c)
      skip == "L_skip_" \o p
      compared(code, with) == code \o <<Line("cmp", 4, with, D0)>>
      on(rel) == <<Branch(CcOf(IF when THEN rel ELSE Negated(rel), e.u), l)>>
  IN  CASE e.k = "un" /\ e.op = "not" -> Jump(a, l, ~ when, p, d, c)
        [] e.k \in {"logand", "logor"} ->
             IF when = (e.k = "logand") THEN A(skip, ~ when) \o B(l, when) \o <<At(skip, d)>> ELSE A(l, when) \o B(l, when)
        [] e.k = "bin" /\ e.op \in Relations ->
             (CASE IrConst(b) # <<>> -> compared(Select(a, p \o "l", d, c), Imm(IrConst(b)[1]))
                [] IrConst(b) = <<>> /\ IrConst(a) # <<>> -> compared(Select(b, p \o "r", d, c), Imm(IrConst(a)[1]))
                [] IrConst(b) = <<>> /\ IrConst(a) = <<>> /\ InPlace(b, c) # <<>> ->
                     compared(Select(a, p \o "l", d, c), InPlace(b, c)[1])
                [] OTHER -> compared(BothSelected(a, b, p, d, c), D1))
             \o on(IF IrConst(b) = <<>> /\ IrConst(a) # <<>> THEN Swapped(e.op) ELSE e.op)
        [] OTHER -> Select(e, p, d, c) \o <<Line("tst", 4, <<>>, D0), Branch(IF when THEN "ne" ELSE "eq", l)>>

SelectItem(i, c) ==
  CASE i.k = "label" -> <<At(i.l, 0)>>
    [] i.k = "nop" -> <<>>
    [] i.k = "jmp" -> <<Branch("ra", i.l)>>
    [] i.k = "cbr" -> Jump(i.e, i.l, i.when, i.p, 0, c)
    [] i.k = "eval" -> Select(i.e, i.p, 0, c)
    [] i.k = "ret" -> Select(i.e, i.p, 0, c) \o <<Branch("ra", "L_return_" \o c.fn)>>

-----------------------------------------------------------------------------
(* emit_text: a function through this generator when it takes it.  A mode  *)
(* has the level o, whether the generator is on, and whether registers are *)
(* given to variables.                                                     *)
Emitted(f, mode, globals) ==
  LET here == mode.ir /\ mode.o >= 2 /\ Eligible(f)
      fa == IF here /\ mode.regalloc THEN Aliases(f) ELSE [x \in {} |-> <<>>]
      regs == IF here /\ mode.regalloc THEN Registers(f, fa) ELSE [x \in {} |-> ""]
      c == Context(f, mode.o, globals, regs)
      lowered == Lowered(f.body, f.name, fa)
      items == IF mode.o >= 3 THEN Optimized(lowered) ELSE lowered
      body == IF here THEN Concat([i \in DOMAIN items |-> SelectItem(items[i], c)]) ELSE Stmt(f.body, f.name, 0, c)
  IN  Function(f, c, mode.regalloc, body)
=============================================================================
