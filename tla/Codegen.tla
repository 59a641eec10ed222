------------------------------ MODULE Codegen ------------------------------
(***************************************************************************)
(* The single-pass code generator (codegen68k.c): a typed tree becomes a   *)
(* sequence of instructions at optimisation level 0, 1 or 2, with the      *)
(* peephole pass from level 1.  An expression leaves its value in d0, or   *)
(* in d0 and d1 when it has 8 bytes, and temporaries go to the stack.      *)
(*                                                                         *)
(* Every generator takes the node n, a name p for it that makes its labels *)
(* unique (the code counts), the number d of longs on the stack there (the *)
(* code's global depth) and the context c: the level o, the place of every *)
(* object, the function's name and its frame's size.                       *)
(***************************************************************************)
EXTENDS CTypes, M68k

CONSTANTS
  MaxShift,     \* the largest count of an immediate shift: 8 in the code
  MaxClear,     \* the largest object cleared without a loop: 16 in the code
  SpillSlots    \* longs reserved to save temporaries around setjmp: 16 in the code

Line(op, sz, s, d) == [op |-> op, sz |-> sz, s |-> s, d |-> d]
At(l, d) == [op |-> "label", sz |-> 4, s |-> <<l>>, d |-> <<>>, depth |-> d]
Jsr(f, d) == [op |-> "jsr", sz |-> 4, s |-> f, d |-> <<>>, depth |-> d]
Move(sz, s, d) == Line("move", sz, s, d)
Branch(cc, l) == Line("b", 4, <<cc>>, <<l>>)
D0 == <<"d0">>  D1 == <<"d1">>  D2 == <<"d2">>  D3 == <<"d3">>
A0 == <<"a0">>  A1 == <<"a1">>  SP == <<"sp">>
Imm(n) == <<"#", n>>
Off(r, n) == <<"(", r, n>>
Push == <<Move(4, D0, <<"push">>)>>
Pop(r) == <<Move(4, <<"pop">>, r)>>
Push64 == <<Move(4, D1, <<"push">>), Move(4, D0, <<"push">>)>>
Pop64 == <<Move(4, <<"pop">>, D2), Move(4, <<"pop">>, D3)>>
Longs(t) == IF t.sz = 8 THEN 2 ELSE 1
LoadImm(v) == <<Move(4, Imm(v), D0)>>
Truth01(cc) == <<Line("s", 1, <<cc>>, D0), Line("and", 4, Imm(1), D0)>>
CopyBytes(sz, from, to) ==
  Concat([i \in 1 .. sz |-> <<Move(1, Off(from, i - 1), D1), Move(1, D1, Off(to, i - 1))>>])
Lea(ea) == <<Line("lea", 4, ea, A0), Move(4, A0, D0)>>

(* Where an object is, as an operand: symref gives a global's own name.    *)
Place(v, c) ==
  CASE v.ty.k = "func" -> <<"code", v.name>>
    [] v.local -> Off("a6", c.at[v.name])
    [] OTHER -> <<"ea", c.at[v.name]>>

Load(t) ==
  IF t.k \in {"array", "struct", "union", "func", "vla"} THEN <<>>
  ELSE <<Move(4, D0, A0)>> \o
       (CASE t.sz = 1 /\ t.u -> <<Move(4, Imm(0), D0), Move(1, Off("a0", 0), D0)>>
          [] t.sz = 1 -> <<Move(1, Off("a0", 0), D0), Line("ext", 2, <<>>, D0), Line("ext", 4, <<>>, D0)>>
          [] t.sz = 2 /\ t.u -> <<Move(4, Imm(0), D0), Move(2, Off("a0", 0), D0)>>
          [] t.sz = 2 -> <<Move(2, Off("a0", 0), D0), Line("ext", 4, <<>>, D0)>>
          [] t.sz = 4 -> <<Move(4, Off("a0", 0), D0)>>
          [] t.sz = 8 -> <<Move(4, Off("a0", 0), D0), Move(4, Off("a0", 4), D1)>>)
Store(t) ==
  Pop(A1) \o
  (CASE IsRecord(t) -> <<Move(4, D0, A0)>> \o CopyBytes(t.sz, "a0", "a1")
     [] t.sz = 8 -> <<Move(4, D0, Off("a1", 0)), Move(4, D1, Off("a1", 4))>>
     [] OTHER -> <<Move(t.sz, D0, Off("a1", 0))>>)

(* Z is set iff the value is 0, or one of the two zeros.                   *)
CmpZero(t) ==
  (IF IsFlonum(t) THEN <<Line("and", 4, Imm(Span(4) \div 2 - 1), D0)>> ELSE <<>>) \o
  (IF t.sz = 8 THEN <<Line("or", 4, D1, D0)>>
   ELSE IF IsFlonum(t) THEN <<>> ELSE <<Line("tst", 4, <<>>, D0)>>)

CastNarrow(t) ==
  CASE t.sz = 1 /\ t.u -> <<Line("and", 4, Imm(Span(1) - 1), D0)>>
    [] t.sz = 1 -> <<Line("ext", 2, <<>>, D0), Line("ext", 4, <<>>, D0)>>
    [] t.sz = 2 /\ t.u -> <<Line("and", 4, Imm(Span(2) - 1), D0)>>
    [] t.sz = 2 -> <<Line("ext", 4, <<>>, D0)>>
    [] OTHER -> <<>>
CastCallLeaving(argsz, f, d) == (IF argsz = 8 THEN Push64 ELSE Push) \o <<Jsr(f, d + argsz \div 4)>>
CastCall(argsz, f, d) ==
  (IF argsz = 8 THEN Push64 ELSE Push) \o <<Jsr(f, d + argsz \div 4), Line("adda", 4, Imm(argsz), SP)>>

(* cast: 32-bit integers go to and from floating point as signed longs.    *)
CastCode(from, to, p, d) ==
  LET ff == IsFlonum(from)  tf == IsFlonum(to)
      from64 == IsInteger(from) /\ from.sz = 8
      to64 == IsInteger(to) /\ to.sz = 8
  IN  CASE to.k = "void" -> <<>>
        [] to.k = "bool" -> CmpZero(from) \o Truth01("ne")
        [] ff /\ tf -> IF from.sz = to.sz THEN <<>> ELSE CastCall(from.sz, <<"ftof", from.sz, to.sz>>, d)
        [] ~ ff /\ tf -> IF from64 THEN CastCall(8, <<"itof", 8, from.u, to.sz>>, d)
                         ELSE CastCall(4, <<"itof", 4, FALSE, to.sz>>, d)
        [] ff /\ ~ tf -> IF to64 THEN CastCall(from.sz, <<"ftoi", from.sz, 8>>, d)
                         ELSE CastCall(from.sz, <<"ftoi", from.sz, 4>>, d) \o CastNarrow(to)
        [] to64 /\ from64 -> <<>>
        [] to64 -> <<Move(4, D0, D1), Move(4, Imm(0), D0)>> \o
                   (IF from.u THEN <<>>
                    ELSE <<Line("tst", 4, <<>>, D1), Branch("pl", "L_sx_" \o p), Move(4, Imm(-1), D0),
                           At("L_sx_" \o p, d)>>)
        [] OTHER -> (IF from64 THEN <<Move(4, D1, D0)>> ELSE <<>>) \o CastNarrow(to)

ShiftBy(op, n, reg, scratch) ==
  CASE n <= 0 -> <<>>
    [] n \in 1 .. MaxShift -> <<Line(op, 4, Imm(n), reg)>>
    [] OTHER -> <<Move(4, Imm(n), scratch), Line(op, 4, scratch, reg)>>
PushStruct(t) ==
  <<Line("suba", 4, Imm(AlignTo(t.sz, 4)), SP), Move(4, D0, A1)>> \o CopyBytes(t.sz, "a1", "sp")

-----------------------------------------------------------------------------
(* The constant and memory operands of levels 1 and 2.                     *)
RECURSIVE Const32(_)
Const32(n) ==
  CASE n.k = "cast" /\ IsInteger(n.ty) /\ n.ty.sz >= 4 -> Const32(n.l)
    [] n.k = "num" /\ IsInteger(n.ty) /\ n.ty.sz >= 4 -> <<Signed(n.v % Span(4), 4)>>
    [] OTHER -> <<>>                                \* not a constant
RECURSIVE SimpleLval(_)
SimpleLval(n) ==
  CASE n.k = "cast" /\ IsInteger(n.ty) /\ n.ty.sz = 4 -> SimpleLval(n.l)
    [] n.k = "var" /\ n.ty.k # "vla" -> <<n>>
    [] OTHER -> <<>>
IsLong(t) == t.sz = 4 /\ (IsInteger(t) \/ t.k = "ptr")
IsMemoryLong(n) == SimpleLval(n) # <<>> /\ IsLong(SimpleLval(n)[1].ty)
Commutative == {"add", "mul", "and", "or", "xor", "eq", "ne"}
Ctz(v) == CHOOSE k \in 0 .. Byte * 4 : v = 2 ^ k
IsPow2(v) == \E k \in 0 .. Byte * 4 - 1 : v = 2 ^ k

(* Relations: the condition after cmp of d0 with the other operand.        *)
CcOf(rel, u) ==
  CASE rel \in {"eq", "ne"} -> rel
    [] rel = "lt" -> IF u THEN "cs" ELSE "lt" [] rel = "le" -> IF u THEN "ls" ELSE "le"
    [] rel = "gt" -> IF u THEN "hi" ELSE "gt" [] rel = "ge" -> IF u THEN "cc" ELSE "ge"
Swapped(rel) ==
  CASE rel = "lt" -> "gt" [] rel = "gt" -> "lt" [] rel = "le" -> "ge" [] rel = "ge" -> "le"
    [] OTHER -> rel
NegatedAsSwapped(rel) == Swapped(rel)
Negated(rel) ==
  CASE rel = "lt" -> "ge" [] rel = "ge" -> "lt" [] rel = "le" -> "gt" [] rel = "gt" -> "le"
    [] rel = "eq" -> "ne" [] rel = "ne" -> "eq"

(* What follows the other operand, in d0, when one operand is the constant *)
(* k, as <<code>>; <<>> when the operator is not special-cased.            *)
Alu(op) == CASE op = "xor" -> "eor" [] OTHER -> op
RoundedEarly(k, l, d) ==
  <<At(l, d), Line("tst", 4, <<>>, D0), Branch("pl", l), Line("add", 4, Imm(k), D0)>>
Rounded(k, l, d) ==                                 \* k added to what is negative
  <<Line("tst", 4, <<>>, D0), Branch("pl", l), Line("add", 4, Imm(k), D0), At(l, d)>>
ConstCode(op, u, k, p, d, o) ==
  LET uk == k % Span(4)
      signed2 == o >= 2 /\ ~ u /\ k >= 2 /\ IsPow2(uk)
      net2 == o >= 2 /\ k >= 3
      mask == Line("and", 4, Imm(uk - 1), D0)
      add(n) == IF n = 0 THEN <<>> ELSE <<Line("add", 4, Imm(n), D0)>>
      net(by, alu) == <<Move(4, D0, D1), Line("asl", 4, Imm(by), D0), Line(alu, 4, D1, D0)>>
      s == "L_s_" \o p  x == "L_sx_" \o p
  IN  CASE op = "add" -> <<add(k)>>
        [] op = "sub" -> <<add(-k)>>
        [] op \in {"and", "or", "xor"} -> <<<<Line(Alu(op), 4, Imm(k), D0)>>>>
        [] op \in Relations -> <<<<Line("cmp", 4, Imm(k), D0)>> \o Truth01(CcOf(op, u))>>
        [] op = "shl" /\ k \in 1 .. Byte * 4 - 1 -> <<ShiftBy("asl", k, D0, D1)>>
        [] op = "shr" /\ k \in 1 .. Byte * 4 - 1 -> <<ShiftBy(IF u THEN "lsr" ELSE "asr", k, D0, D1)>>
        [] op = "mul" /\ k = 0 -> <<LoadImm(0)>>
        [] op = "mul" /\ k = 1 -> <<<<>>>>
        [] op = "mul" /\ k = -1 -> <<<<Line("neg", 4, <<>>, D0)>>>>
        [] op = "mul" /\ IsPow2(uk) -> <<ShiftBy("asl", Ctz(uk), D0, D1)>>
        [] op = "mul" /\ net2 /\ IsPow2(uk - 1) /\ Ctz(uk - 1) <= MaxShift -> <<net(Ctz(uk - 1), "add")>>
        [] op = "mul" /\ net2 /\ IsPow2(uk + 1) /\ Ctz(uk + 1) <= MaxShift -> <<net(Ctz(uk + 1), "sub")>>
        [] op = "div" /\ u /\ IsPow2(uk) -> <<ShiftBy("lsr", Ctz(uk), D0, D1)>>
        [] op = "div" /\ signed2 -> <<Rounded(uk - 1, s, d) \o ShiftBy("asr", Ctz(uk), D0, D1)>>
        [] op = "mod" /\ u /\ IsPow2(uk) -> <<<<mask>>>>
        [] op = "mod" /\ signed2 ->
             <<<<Line("tst", 4, <<>>, D0), Branch("pl", s), Line("neg", 4, <<>>, D0), mask,
                 Line("neg", 4, <<>>, D0), Branch("ra", x), At(s, d), mask, At(x, d)>>>>
        [] OTHER -> <<>>
LeftCode(op, u, k, p, d, o) ==
  CASE op \in Commutative -> ConstCode(op, u, k, p, d, o)
    [] op \in {"lt", "le"} -> <<<<Line("cmp", 4, Imm(k), D0)>> \o Truth01(CcOf(Swapped(op), u))>>
    [] OTHER -> <<>>
MemoryCode(op, u, ea) ==
  CASE op \in {"add", "sub", "and", "or"} -> <<<<Line(op, 4, ea, D0)>>>>
    [] op \in Relations -> <<<<Line("cmp", 4, ea, D0)>> \o Truth01(CcOf(op, u))>>
    [] OTHER -> <<>>

(* What follows the operands: d0 and d1, or d0:d1 and d2:d3.               *)
LongCode(op, u, d) ==
  CASE op \in {"add", "sub", "and", "or", "xor"} -> <<Line(Alu(op), 4, D1, D0)>>
    [] op = "mul" -> <<Jsr(<<"int", "mul", 4, FALSE>>, d)>>
    [] op \in {"div", "mod"} -> <<Jsr(<<"int", op, 4, u>>, d)>>
    [] op \in Relations -> <<Line("cmp", 4, D1, D0)>> \o Truth01(CcOf(op, u))
    [] op = "shl" -> <<Line("asl", 4, D1, D0)>>
    [] op = "shr" -> <<Line(IF u THEN "lsr" ELSE "asr", 4, D1, D0)>>
PairCode(n, d) ==
  LET both(op) == <<Line(op, 4, D3, D1), Line(op, 4, D2, D0)>>
      u == n.l.ty.u
  IN  CASE n.op = "add" -> <<Line("add", 4, D3, D1), Line("addx", 4, D2, D0)>>
        [] n.op = "sub" -> <<Line("sub", 4, D3, D1), Line("subx", 4, D2, D0)>>
        [] n.op \in {"and", "or", "xor"} -> both(Alu(n.op))
        [] n.op \in {"mul", "div", "mod"} -> <<Jsr(<<"int", n.op, 8, u>>, d)>>
        [] n.op \in Relations ->
             <<Jsr(<<"int", "cmp", 8, u>>, d), Line("tst", 4, <<>>, D0)>> \o Truth01(CcOf(n.op, FALSE))
FlonumCode(n, p, d) ==
  LET sz == n.l.ty.sz
      f == IF n.op \in Relations THEN <<"flocmp", sz>> ELSE <<"flo", n.op, sz>>
      ordered == <<Branch("vc", "L_ord_" \o p), Move(4, Imm(0), D0), At("L_ord_" \o p, d)>>
  IN  <<Jsr(f, d + sz \div 2), Line("adda", 4, Imm(sz * 2), SP)>> \o
      (IF n.op \in Relations
       THEN <<Line("s", 1, <<n.op>>, D0)>> \o (IF n.op \in {"lt", "le"} THEN ordered ELSE <<>>)
            \o <<Line("and", 4, Imm(1), D0)>>
       ELSE <<>>)
-----------------------------------------------------------------------------
(* What the nodes of a tree ask of their function: calls_returns_twice and *)
(* node_clobbers_d2d3 look for one over the fields of each node.           *)
IsSetjmp(n) == n.k = "call" /\ n.l.k = "var" /\ n.l.v.name = "setjmp"
IsAlloca(n) == n.k = "call" /\ n.l.k = "var" /\ n.l.v.name = "alloca"
IsBitfield(n) == n.k = "member" /\ n.m.w > 0
AsksOfFields(n) ==
  {x \in {"returns twice"} : IsSetjmp(n)} \cup {x \in {"d2 and d3"} : n.k = "assign" /\ IsBitfield(n.l)}
Asks(n) ==
  {x \in {"returns twice"} : IsSetjmp(n)}
  \cup {x \in {"d2 and d3"} : \/ n.k = "bin" /\ IsInteger(n.l.ty) /\ n.l.ty.sz = 8
                              \/ n.k = "assign" /\ IsBitfield(n.l)}
RECURSIVE Demands(_)
Demands(n) ==
  Asks(n) \cup UNION {Demands(n[f]) : f \in {"l", "r", "c", "then", "els", "init", "inc"} \cap DOMAIN n}
          \cup UNION {UNION {Demands(n[f][i]) : i \in DOMAIN n[f]} : f \in {"body", "args"} \cap DOMAIN n}
CallsReturnsTwice(n) == "returns twice" \in Demands(n)
ClobbersD2D3(n) == "d2 and d3" \in Demands(n)

(* A memzero clears a local before its initialiser assigns to its parts.   *)
MemZero(n, p, d, c) ==
  LET sz == n.v.ty.sz  at == c.at[n.v.name]
      clear(from, w) == Line("clr", w, <<>>, Off("a6", at + from))
      longs == [i \in 1 .. sz \div 4 |-> clear(4 * (i - 1), 4)]
      left == sz % 4
  IN  IF c.o >= 1 /\ sz <= MaxClear /\ at % 2 = 0
      THEN longs \o (IF left >= 2 THEN <<clear(sz - left, 2)>> ELSE <<>>)
                 \o (IF left % 2 = 1 THEN <<clear(sz - 1, 1)>> ELSE <<>>)
      ELSE <<Line("lea", 4, Off("a6", at), A0), Move(2, Imm(sz - 1), D1), At("L_memzero_" \o p, d),
             Line("clr", 1, <<>>, <<"(a0)+">>), Line("dbra", 2, <<>>, <<"L_memzero_" \o p>>)>>

FieldLoaded(m) ==
  ShiftBy("asl", Byte * 4 - m.w - m.lo, D0, D1) \o ShiftBy(IF m.ty.u THEN "lsr" ELSE "asr", Byte * 4 - m.w, D0, D1)
FieldStored(m) ==
  LET fmask == 2 ^ m.w - 1
      unit(from, to) == <<Move(m.ty.sz, from, to)>>
  IN  <<Move(4, D0, D3), Move(4, D0, D1), Line("and", 4, Imm(fmask), D1)>>
      \o ShiftBy("asl", m.lo, D1, D0) \o Pop(A1)
      \o (IF m.ty.sz < 4 THEN <<Move(4, Imm(0), D2)>> ELSE <<>>) \o unit(Off("a1", 0), D2)
      \o <<Line("and", 4, Imm(Span(4) - 1 - fmask * 2 ^ m.lo), D2), Line("or", 4, D1, D2)>> \o unit(D2, Off("a1", 0))
      \o <<Move(4, D3, D0)>>
      \o ShiftBy("asl", Byte * 4 - m.w, D0, D1) \o ShiftBy(IF m.ty.u THEN "lsr" ELSE "asr", Byte * 4 - m.w, D0, D1)

RECURSIVE Expr(_, _, _, _)
RECURSIVE AddrOf(_, _, _, _)
RECURSIVE CondJump(_, _, _, _, _, _)
RECURSIVE Stmt(_, _, _, _)
RECURSIVE PushArgs(_, _, _, _, _)
RECURSIVE Unwrapped(_)

Stmts(body, p, d, c) == Concat([i \in DOMAIN body |-> Stmt(body[i], p \o ToString(i), d, c)])

(* gen_addr: the address of an lvalue, in d0.                              *)
AddrOf(n, p, d, c) ==
  CASE n.k = "var" -> IF n.v.local /\ n.ty.k = "vla" THEN <<Move(4, Place(n.v, c), D0)>> ELSE Lea(Place(n.v, c))
    [] n.k = "deref" -> Expr(n.l, p, d, c)
    [] n.k = "comma" -> Expr(n.l, p \o "l", d, c) \o AddrOf(n.r, p \o "r", d, c)
    [] n.k = "member" -> AddrOf(n.l, p, d, c) \o (IF n.m.off # 0 THEN <<Line("add", 4, Imm(n.m.off), D0)>> ELSE <<>>)
    [] n.k \in {"assign", "cond", "call"} /\ IsRecord(n.ty) -> Expr(n, p, d, c)
    [] n.k = "vlaptr" -> Lea(Place(n.v, c))

(* gen_indexed_load: base[index] of longs with a variable for base; the    *)
(* index waits in d1 while the base is loaded.                             *)
Unwrapped(n) == IF n.k = "cast" THEN Unwrapped(n.l) ELSE n
IsIndexed(n) ==
  /\ n.l.k = "bin" /\ n.l.op = "add" /\ HasBase(n.l.ty)
  /\ LET b == Unwrapped(n.l.l) IN b.k = "var" /\ b.ty.k # "vla"
  /\ IsLong(n.ty)
Indexed(n, p, d, c) ==
  Expr(n.l.r, p \o "r", d, c) \o <<Move(4, D0, D1)>> \o Expr(n.l.l, p \o "l", d, c)
  \o <<Move(4, D0, A0), Move(4, <<"(a0,d1)">>, D0)>>

(* Arguments from the last to the first; their bytes on the stack.         *)
ArgSize(t) == IF IsRecord(t) THEN AlignTo(t.sz, 4) ELSE IF t.sz = 8 /\ t.k \notin {"array", "func"} THEN 8 ELSE 4
ArgsSize(args) == FoldLeft(LAMBDA n, a : n + ArgSize(a.ty), 0, args)
PushArgs(args, i, p, d, c) ==
  IF i > Len(args) THEN <<>>
  ELSE LET t == args[i].ty
           later == ArgsSize(SubSeq(args, i + 1, Len(args))) \div 4
       IN  PushArgs(args, i + 1, p, d, c) \o Expr(args[i], p \o ToString(i), d + later, c)
           \o (IF IsRecord(t) THEN PushStruct(t) ELSE IF ArgSize(t) = 8 THEN Push64 ELSE Push)

(* A call of setjmp first copies what is on the stack to the frame, and    *)
(* brings it back where longjmp arrives too.                               *)
CallCode(n, p, d, c) ==
  LET spilled == IF IsSetjmp(n) THEN d ELSE 0
      slot(i) == Off("a6", -c.size + (i - 1) * 4)
      buf == IF "buf" \in DOMAIN n THEN 4 ELSE 0
      bytes == ArgsSize(n.args) + buf
      in == d + bytes \div 4
  IN  [i \in 1 .. spilled |-> Move(4, Off("sp", (i - 1) * 4), slot(i))]
      \o PushArgs(n.args, 1, p, d, c)
      \o (IF buf = 0 THEN <<>> ELSE <<Line("lea", 4, Place(n.buf, c), A0), Move(4, A0, <<"push">>)>>)
      \o (IF n.l.k = "var" /\ n.l.ty.k = "func"
          THEN <<Jsr(IF n.l.v.name \in {"setjmp", "longjmp"} THEN <<n.l.v.name>> ELSE <<"code", n.l.v.name>>, in)>>
          ELSE Expr(n.l, p \o "f", in, c) \o <<Move(4, D0, A0), Jsr(Off("a0", 0), in)>>)
      \o (IF bytes = 0 THEN <<>> ELSE <<Line("adda", 4, Imm(bytes), SP)>>)
      \o [i \in 1 .. spilled |-> Move(4, slot(i), Off("sp", (i - 1) * 4))]

AssignCode(n, p, d, c) ==
  LET direct == /\ c.o >= 2 /\ n.ty.sz <= 4
                /\ IsInteger(n.ty) \/ n.ty.k \in {"ptr", "float"}
                /\ SimpleLval(n.l) # <<>>
      value == Expr(n.r, p \o "r", d, c)
  IN  IF n.l.k = "vlaptr" THEN value \o <<Move(4, D0, Place(n.l.v, c))>>
      ELSE IF direct THEN value \o <<Move(n.ty.sz, D0, Place(SimpleLval(n.l)[1].v, c))>>
      ELSE AddrOf(n.l, p \o "l", d, c) \o Push \o Expr(n.r, p \o "r", d + 1, c)
           \o (IF IsBitfield(n.l) THEN FieldStored(n.l.m) ELSE Store(n.ty))

BinaryCode(n, p, d, c) ==
  LET L(k) == Expr(n.l, p \o "l", d + k, c)
      R(k) == Expr(n.r, p \o "r", d + k, c)
      small(e) == IsInteger(e.ty) /\ e.ty.sz <= 4 /\ Const32(e) # <<>>
      right == IF c.o >= 1 /\ small(n.r) THEN ConstCode(n.op, n.l.ty.u, Const32(n.r)[1], p, d, c.o) ELSE <<>>
      left == IF c.o >= 2 /\ small(n.l) THEN LeftCode(n.op, n.r.ty.u, Const32(n.l)[1], p, d, c.o) ELSE <<>>
      memory == IF c.o >= 2 /\ IsMemoryLong(n.r)
                THEN MemoryCode(n.op, n.l.ty.u, Place(SimpleLval(n.r)[1].v, c)) ELSE <<>>
      shift == n.op \in {"shl", "shr"}
      push(t) == IF t.sz = 8 THEN Push64 ELSE Push
  IN  CASE IsFlonum(n.l.ty) ->
             R(0) \o push(n.l.ty) \o L(Longs(n.l.ty)) \o push(n.l.ty) \o FlonumCode(n, p, d)
        [] n.l.ty.sz = 8 /\ shift ->
             R(0) \o (IF n.r.ty.sz = 8 THEN <<Move(4, D1, D0)>> ELSE <<>>) \o Push \o L(1) \o Pop(D2)
             \o <<Jsr(<<"int", n.op, 8, n.op = "shr" /\ n.l.ty.u>>, d)>>
        [] n.l.ty.sz = 8 -> R(0) \o Push64 \o L(2) \o Pop64 \o PairCode(n, d)
        [] right # <<>> -> L(0) \o right[1]
        [] left # <<>> -> R(0) \o left[1]
        [] memory # <<>> -> L(0) \o memory[1]
        [] OTHER -> R(0) \o Push \o L(1) \o Pop(D1)
             \o LongCode(n.op, IF n.op \in {"div", "mod"} THEN n.ty.u ELSE n.l.ty.u, d)

(* A branch on n to one of two ends, as if and ?: and loops make it.       *)
JumpUnless(n, l, p, d, c) ==
  IF c.o >= 2 THEN CondJump(n, l, FALSE, p, d, c)
  ELSE Expr(n, p, d, c) \o CmpZero(n.ty) \o <<Branch("eq", l)>>
ShortCircuit(n, cc, p, d, c) ==
  LET test(e, q) == Expr(e, q, d, c) \o CmpZero(e.ty) \o <<Branch(cc, "L_short_" \o p)>>
      way == IF cc = "eq" THEN 1 ELSE 0
  IN  test(n.l, p \o "l") \o test(n.r, p \o "r")
      \o LoadImm(way) \o <<Branch("ra", "L_end_" \o p), At("L_short_" \o p, d)>>
      \o LoadImm(1 - way) \o <<At("L_end_" \o p, d)>>

Expr(n, p, d, c) ==
  CASE n.k = "null" -> <<>>
    [] n.k = "num" -> IF n.ty.sz = 8 THEN <<Move(4, Imm(n.v \div Span(4)), D0), Move(4, Imm(n.v), D1)>>
                      ELSE LoadImm(n.v)
    [] n.k = "memzero" -> MemZero(n, p, d, c)
    [] n.k = "neg" ->
         Expr(n.l, p, d, c) \o
         (CASE IsFlonum(n.ty) -> <<Line("eor", 4, Imm(Span(4) \div 2), D0)>>
            [] n.ty.sz = 8 -> <<Line("neg", 4, <<>>, D1), Line("negx", 4, <<>>, D0)>>
            [] OTHER -> <<Line("neg", 4, <<>>, D0)>>)
    [] n.k = "var" -> AddrOf(n, p, d, c) \o Load(n.ty)
    [] n.k = "member" -> AddrOf(n, p, d, c) \o Load(n.ty) \o (IF n.m.w > 0 THEN FieldLoaded(n.m) ELSE <<>>)
    [] n.k = "deref" -> IF c.o >= 2 /\ IsIndexed(n) THEN Indexed(n, p, d, c) ELSE Expr(n.l, p, d, c) \o Load(n.ty)
    [] n.k = "addr" -> AddrOf(n.l, p, d, c)
    [] n.k = "assign" -> AssignCode(n, p, d, c)
    [] n.k = "stmtexpr" -> Stmts(n.body, p, d, c)
    [] n.k = "comma" -> Expr(n.l, p \o "l", d, c) \o Expr(n.r, p \o "r", d, c)
    [] n.k = "cast" -> Expr(n.l, p \o "c", d, c) \o CastCode(n.l.ty, n.ty, p, d)
    [] n.k = "cond" ->
         JumpUnless(n.c, "L_else_" \o p, p \o "c", d, c) \o Expr(n.l, p \o "l", d, c)
         \o <<Branch("ra", "L_end_" \o p), At("L_else_" \o p, d)>> \o Expr(n.r, p \o "r", d, c)
         \o <<At("L_end_" \o p, d)>>
    [] n.k = "not" -> Expr(n.l, p \o "n", d, c) \o CmpZero(n.l.ty) \o Truth01("eq")
    [] n.k = "bitnot" -> Expr(n.l, p, d, c) \o <<Line("not", 4, <<>>, D0)>>
    [] n.k = "logand" -> ShortCircuit(n, "eq", p, d, c)
    [] n.k = "logor" -> ShortCircuit(n, "ne", p, d, c)
    [] IsAlloca(n) ->
         Expr(n.args[1], p, d, c) \o <<Line("add", 4, Imm(3), D0), Line("and", 4, Imm(-4), D0),
                                 Line("suba", 4, D0, SP), Move(4, SP, D0)>>
    [] n.k = "call" /\ ~ IsAlloca(n) -> CallCode(n, p, d, c)
    [] n.k = "bin" -> BinaryCode(n, p, d, c)

(* gen_cond: a branch to l taken exactly when n is when.                   *)
IsBranchRelational(n) ==
  /\ n.k = "bin" /\ n.op \in Relations
  /\ \A t \in {n.l.ty, n.r.ty} : (IsInteger(t) \/ t.k = "ptr") /\ t.sz <= 4
CondJump(n, l, when, p, d, c) ==
  LET L(to, w) == CondJump(n.l, to, w, p \o "l", d, c)
      R(to, w) == CondJump(n.r, to, w, p \o "r", d, c)
      skip == "L_skip_" \o p
      jump(rel, u) == <<Branch(CcOf(IF when THEN rel ELSE Negated(rel), u), l)>>
      ExprL(k) == Expr(n.l, p \o "l", d + k, c)
      ExprR == Expr(n.r, p \o "r", d, c)
  IN  CASE n.k = "not" -> CondJump(n.l, l, ~ when, p, d, c)
        [] n.k \in {"logand", "logor"} /\ when = (n.k = "logand") ->
             L(skip, ~ when) \o R(l, when) \o <<At(skip, d)>>
        [] n.k \in {"logand", "logor"} -> L(l, when) \o R(l, when)
        [] IsBranchRelational(n) ->
             IF Const32(n.r) # <<>>
             THEN ExprL(0) \o <<Line("cmp", 4, Imm(Const32(n.r)[1]), D0)>> \o jump(n.op, n.l.ty.u)
             ELSE IF Const32(n.l) # <<>>
             THEN ExprR \o <<Line("cmp", 4, Imm(Const32(n.l)[1]), D0)>> \o jump(Swapped(n.op), n.r.ty.u)
             ELSE IF IsMemoryLong(n.r)
             THEN ExprL(0) \o <<Line("cmp", 4, Place(SimpleLval(n.r)[1].v, c), D0)>> \o jump(n.op, n.l.ty.u)
             ELSE ExprR \o Push \o ExprL(1) \o Pop(D1) \o <<Line("cmp", 4, D1, D0)>> \o jump(n.op, n.l.ty.u)
        [] OTHER -> Expr(n, p, d, c) \o CmpZero(n.ty) \o <<Branch(IF when THEN "ne" ELSE "eq", l)>>
-----------------------------------------------------------------------------
(* gen_stmt.  A block that declares a variable-length array keeps the      *)
(* stack pointer in its mark, and takes it back at its end; a loop does so *)
(* for the body that break and continue leave.                             *)
Mark(n, c) == IF n.mark = <<>> THEN <<>> ELSE <<Move(4, SP, Place(n.mark[1], c))>>
Reclaim(n, c) == IF n.mark = <<>> THEN <<>> ELSE <<Move(4, Place(n.mark[1], c), SP)>>

CaseCode(k) ==
  IF k.lo = k.hi THEN <<Line("cmp", 4, Imm(k.lo), D0), Branch("eq", k.label)>>
  ELSE <<Move(4, D0, D1), Line("sub", 4, Imm(k.lo), D1), Line("cmp", 4, Imm(k.hi - k.lo), D1), Branch("ls", k.label)>>
ReturnedStruct(t) ==
  IF ~ IsRecord(t) THEN <<>>
  ELSE <<Move(4, D0, A0), Move(4, Off("a6", 8), A1)>> \o CopyBytes(t.sz, "a0", "a1") \o <<Move(4, Off("a6", 8), D0)>>

Stmt(n, p, d, c) ==
  LET sub(m, q) == Stmt(m, p \o q, d, c)
      body == n.then
      m == IF body.k = "block" THEN body ELSE [mark |-> <<>>]
  IN  CASE n.k = "if" ->
             JumpUnless(n.c, "L_else_" \o p, p \o "c", d, c) \o sub(n.then, "t")
             \o <<Branch("ra", "L_end_" \o p), At("L_else_" \o p, d)>> \o sub(n.els, "e") \o <<At("L_end_" \o p, d)>>
        [] n.k = "for" ->
             sub(n.init, "i") \o Mark(m, c) \o <<At("L_begin_" \o p, d)>>
             \o (IF n.c.k = "null" THEN <<>> ELSE JumpUnless(n.c, n.brk, p \o "c", d, c))
             \o sub(n.then, "t") \o <<At(n.cont, d)>> \o Reclaim(m, c) \o Expr(n.inc, p \o "n", d, c)
             \o <<Branch("ra", "L_begin_" \o p), At(n.brk, d)>> \o Reclaim(m, c)
        [] n.k = "do" ->
             Mark(m, c) \o <<At("L_begin_" \o p, d)>> \o sub(n.then, "t") \o <<At(n.cont, d)>> \o Reclaim(m, c)
             \o (IF c.o >= 2 THEN CondJump(n.c, "L_begin_" \o p, TRUE, p \o "c", d, c)
                 ELSE Expr(n.c, p \o "c", d, c) \o CmpZero(n.c.ty) \o <<Branch("ne", "L_begin_" \o p)>>)
             \o <<At(n.brk, d)>> \o Reclaim(m, c)
        [] n.k = "switch" ->
             Expr(n.c, p \o "c", d, c) \o Concat([i \in DOMAIN n.cases |-> CaseCode(n.cases[i])])
             \o [i \in DOMAIN n.default |-> Branch("ra", n.default[i])] \o <<Branch("ra", n.brk)>>
             \o sub(n.then, "t") \o <<At(n.brk, d)>>
        [] n.k \in {"case", "label"} -> <<At(n.label, d)>> \o sub(n.l, "s")
        [] n.k = "block" -> Mark(n, c) \o Stmts(n.body, p, d, c) \o Reclaim(n, c)
        [] n.k = "goto" -> <<Branch("ra", n.label)>>
        [] n.k = "return" ->
             (IF n.l.k = "null" THEN <<>> ELSE Expr(n.l, p, d, c) \o ReturnedStruct(n.l.ty))
             \o <<Branch("ra", "L_return_" \o c.fn)>>
        [] n.k = "expr" -> Expr(n.l, p, d, c)
        [] n.k = "null" -> <<>>
-----------------------------------------------------------------------------
(* assign_lvar_offsets: parameters above the frame pointer, a narrow one   *)
(* at the high end of its long; locals below.  A function is one of the  *)
(* parser's globals.                                                       *)
Slot(t) == IF t.sz <= 4 THEN 4 ELSE AlignTo(t.sz, 4)
FirstParam(f) == IF IsRecord(f.ty.ret) THEN 12 ELSE 8
ParamOffset(f, i) ==
  LET t == f.params[i].ty
      top == FoldLeft(LAMBDA n, v : n + Slot(v.ty), FirstParam(f), SubSeq(f.params, 1, i - 1))
  IN  IF ~ IsRecord(t) /\ t.k # "array" THEN top + Slot(t) - t.sz ELSE top
Bottom(vars) == FoldLeft(LAMBDA n, v : AlignTo(n + v.ty.sz, 2), 0, vars)
FrameSize(f) == Bottom(f.locals) + (IF CallsReturnsTwice(f.body) THEN SpillSlots * 4 ELSE 0)
Offsets(f) ==
  LET param(v) == {i \in DOMAIN f.params : f.params[i] = v}
      local(v) == CHOOSE i \in DOMAIN f.locals : f.locals[i] = v
  IN  [x \in {v.name : v \in Range(f.params) \cup Range(f.locals)} |->
         LET v == CHOOSE w \in Range(f.params) \cup Range(f.locals) : w.name = x
         IN  IF param(v) # {} THEN ParamOffset(f, CHOOSE i \in param(v) : TRUE)
             ELSE - Bottom(SubSeq(f.locals, 1, local(v)))]

(* emit_text for one function: body is its code, and regs says which of    *)
(* its variables live in registers (none when the tree is walked).  With   *)
(* regalloc the registers d2 to the highest in use are saved, and d2 and   *)
(* d3 when the body uses them otherwise.                                   *)
DataPool == <<"d2", "d3", "d4", "d5", "d6", "d7">>
AddressPool == <<"a2", "a3", "a4", "a5">>
Context(f, o, globals, regs) ==
  [o |-> o, at |-> Offsets(f) @@ globals, fn |-> f.name, size |-> FrameSize(f), reg |-> regs]
Upto(pool, used) == SubSeq(pool, 1, SelectLastInSeq(pool, LAMBDA r : r \in used))
Saved(f, regs, regalloc) ==
  LET data == Upto(DataPool, Range(regs))
  IN  (IF regalloc /\ Len(data) < 2 /\ ClobbersD2D3(f.body) THEN SubSeq(DataPool, 1, 2) ELSE data)
      \o Upto(AddressPool, Range(regs))
Function(f, c, regalloc, body) ==
  LET saves == Saved(f, c.reg, regalloc)
      varargs == FoldLeft(LAMBDA n, v : n + Slot(v.ty), FirstParam(f), f.params)
      loaded == SelectSeq(f.params, LAMBDA v : v.name \in DOMAIN c.reg)
  IN  <<At(f.name, 0), Line("link", 4, Imm(c.size), <<>>)>>
      \o (IF saves = <<>> THEN <<>> ELSE <<Line("save", 4, saves, <<>>)>>)
      \o [i \in DOMAIN loaded |-> Move(4, Place(loaded[i], c), <<c.reg[loaded[i].name]>>)]
      \o (IF f.variadic THEN <<Line("lea", 4, Off("a6", varargs), A0), Move(4, A0, Off("a6", c.at["__va_area__"]))>>
          ELSE <<>>)
      \o body
      \o (IF f.name = "main" THEN LoadImm(0) ELSE <<>>)
      \o <<At("L_return_" \o f.name, 0)>>
      \o (IF saves = <<>> THEN <<>> ELSE <<Line("restore", 4, saves, <<>>)>>)
      \o <<Line("unlk", 4, <<>>, <<>>), Line("rts", 4, <<>>, <<>>)>>

(* The peephole pass: a line that is deleted becomes Gone until the end.   *)
Gone == Line("gone", 0, <<>>, <<>>)
NextLine(code, i) == SelectInSubSeq(code, i + 1, Len(code), LAMBDA l : l # Gone)
FromA0 == Move(4, A0, D0)
LoadsA0 == Move(4, Off("a0", 0), D0)
KillsD0(l) == l \in {LoadsA0, Move(4, Imm(0), D0), Move(4, <<"(a0,d1)">>, D0)}
UsesA0(l) == \E s \in {l.s, l.d} : s # <<>> /\ (s[1] = "(a0)+" \/ (s[1] = "(" /\ s[2] = "a0"))
IsTransfer(l) == (l.op = "b" /\ l.s = <<"ra">>) \/ l.op = "rts"
Peep(code, i) ==
  LET a == code[i]
      j == NextLine(code, i)
      n == code[j]
      k == NextLine(code, j)
      end == SelectInSubSeq(code, i + 1, Len(code), LAMBDA l : l.op = "label")
      next == IF end = 0 THEN Len(code) + 1 ELSE end
  IN  CASE a = Gone \/ j = 0 -> code
        [] a = FromA0 /\ n = Move(4, D0, A0) -> [code EXCEPT ![j] = Gone]
        [] a = FromA0 /\ KillsD0(n) -> [code EXCEPT ![i] = Gone]
        [] a.op = "lea" /\ n = LoadsA0 /\ ~ (k # 0 /\ UsesA0(code[k])) ->
             [code EXCEPT ![i] = Gone, ![j] = Move(4, a.s, D0)]
        [] a.op = "b" /\ a.s = <<"ra">> /\ n.op = "label" /\ n.s = a.d -> [code EXCEPT ![i] = Gone]
        [] IsTransfer(a) ->
             SubSeq(code, 1, i) \o [l \in 1 .. next - 1 - i |-> Gone] \o SubSeq(code, next, Len(code))
        [] OTHER -> code
RECURSIVE Sweep(_, _)
Sweep(code, i) == IF i > Len(code) THEN code ELSE Sweep(Peep(code, i), i + 1)
RECURSIVE Peephole(_)
Peephole(code) ==
  LET once == Sweep(code, 1)
  IN  IF once = code THEN SelectSeq(code, LAMBDA l : l # Gone) ELSE Peephole(once)

(* emit_data: where the variables are, from an address on, and the memory  *)
(* with their bytes and the addresses in them.                             *)
Variables(globals) == SelectSeq(globals, LAMBDA g : g.ty.k # "func" /\ g.def)
Addresses(vars, base) ==
  FoldLeft(LAMBDA a, g : [at |-> (g.name :> AlignTo(a.top, 2)) @@ a.at, top |-> AlignTo(a.top, 2) + g.ty.sz],
           [at |-> [name \in {} |-> 0], top |-> base], vars).at
Image(vars, at, code, mem) ==
  LET address(l) == IF l \in DOMAIN at THEN at[l] ELSE Label(code, l)
      bytes(b, g) ==
        FoldLeft(LAMBDA c, k : [c EXCEPT ![at[g.name] + k - 1] = IF g.data = <<>> THEN 0 ELSE g.data[k]],
                 b, [k \in 1 .. g.ty.sz |-> k])
      whole(b, g) ==
        FoldLeft(LAMBDA c, r : WriteAt(c, at[g.name] + r.at, 4, (address(r.label) + r.addend) % Span(4)),
                 bytes(b, g), g.rel)
  IN  FoldLeft(whole, mem, vars)

(* A program: a call of main, then the functions.                          *)
Compiled(functions, o) ==
  LET code == <<Jsr(<<"code", "main">>, 0), At("halt", 0)>> \o Concat(functions)
  IN  IF o >= 1 THEN Peephole(code) ELSE code
=============================================================================
