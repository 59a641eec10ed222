------------------------------- MODULE CTypes -------------------------------
(***************************************************************************)
(* The typed tree the parser hands to the code generator (type.c and the   *)
(* node builders of parse.c).  The parser builds untyped nodes and calls   *)
(* add_type on them; the builders here give the node with its type and the *)
(* conversions add_type puts around its operands.                          *)
(***************************************************************************)
EXTENDS Integers, Sequences, SequencesExt

Type(k, sz, u) == [k |-> k, sz |-> sz, u |-> u]
TVoid == Type("void", 1, FALSE)      TBool == Type("bool", 1, FALSE)
TChar == Type("char", 1, FALSE)      TUChar == Type("char", 1, TRUE)
TShort == Type("short", 2, FALSE)    TUShort == Type("short", 2, TRUE)
TInt == Type("int", 4, FALSE)        TUInt == Type("int", 4, TRUE)
TLong == Type("long", 4, FALSE)      TULong == Type("long", 4, TRUE)
TLLong == Type("long", 8, FALSE)     TULLong == Type("long", 8, TRUE)
TFloat == Type("float", 4, FALSE)    TDouble == Type("double", 8, FALSE)

PointerTo(t) == [k |-> "ptr", sz |-> 4, u |-> TRUE, base |-> t]
ArrayOf(t, n) == [k |-> "array", sz |-> t.sz * n, u |-> FALSE, base |-> t, len |-> n]
VlaOf(t, len) ==                    \* size: the variable that holds it, once known
  [k |-> "vla", sz |-> 4, u |-> FALSE, base |-> t, len |-> len, size |-> <<>>]
TEnum == Type("enum", 4, FALSE)
FuncType(ret, params, variadic) ==                 \* params: <<[name, ty], ...>>
  [k |-> "func", sz |-> 1, u |-> FALSE, ret |-> ret, params |-> params, variadic |-> variadic]

IsInteger(t) == t.k \in {"bool", "char", "short", "int", "long", "enum"}
IsFlonum(t) == t.k \in {"float", "double"}
IsNumeric(t) == IsInteger(t) \/ IsFlonum(t)
IsRecord(t) == t.k \in {"struct", "union"}
HasBase(t) == t.k \in {"ptr", "array", "vla"}

(* TLC keeps a function as its formula until it is needed as a sequence.   *)
Evaluated(q) == q \o <<>>
Concat(qs) == FlattenSeq(Evaluated(qs))

AlignTo(n, to) == ((n + to - 1) \div to) * to
AlignDown(n, to) == AlignTo(n - to + 1, to)

RECURSIVE AlignOf(_)
AlignOf(t) ==
  CASE IsRecord(t) -> t.al
    [] t.k = "array" -> AlignOf(t.base)
    [] OTHER -> IF t.sz = 1 THEN 1 ELSE 2

(* Members are declared as [name, ty, al, w], w the width of a bit field   *)
(* or -1, and get an offset and, a bit field, its distance lo from the     *)
(* least significant bit: the first field of a unit takes the most         *)
(* significant bits.  A byte has byte bits.                                *)
Largest(decls, least) == FoldLeft(LAMBDA n, d : IF d.al > n THEN d.al ELSE n, least, decls)
PlaceMember(byte, packed, acc, d) ==
  LET unit == d.ty.sz * byte
      start == CASE d.w = 0 -> AlignTo(acc.bits, unit)
                 [] d.w > 0 -> IF acc.bits \div unit = (acc.bits + d.w - 1) \div unit
                               THEN acc.bits ELSE AlignTo(acc.bits, unit)
                 [] OTHER -> IF packed THEN acc.bits ELSE AlignTo(acc.bits, d.al * byte)
      m == [name |-> d.name, ty |-> d.ty, w |-> d.w,
            off |-> CASE d.w > 0 -> AlignDown(start \div byte, d.ty.sz) [] d.w = 0 -> 0 [] OTHER -> start \div byte,
            lo |-> IF d.w > 0 THEN unit - (start % unit) - d.w ELSE 0]
  IN  [bits |-> start + (IF d.w = -1 THEN unit ELSE d.w), members |-> Append(acc.members, m)]
StructOf(decls, byte, packed, least) ==
  LET placed == FoldLeft(LAMBDA acc, d : PlaceMember(byte, packed, acc, d), [bits |-> 0, members |-> <<>>], decls)
      al == IF packed THEN least ELSE Largest(decls, least)
  IN  [k |-> "struct", u |-> FALSE, al |-> al, sz |-> AlignTo(placed.bits, al * byte) \div byte,
       members |-> placed.members]
UnionOf(decls, least) ==
  LET al == Largest(decls, least)
  IN  [k |-> "union", u |-> FALSE, al |-> al,
       sz |-> AlignTo(FoldLeft(LAMBDA n, d : IF d.ty.sz > n THEN d.ty.sz ELSE n, 0, decls), al),
       members |-> Evaluated([i \in DOMAIN decls |-> [name |-> decls[i].name, ty |-> decls[i].ty,
                                                      w |-> decls[i].w, off |-> 0, lo |-> 0]])]

(* struct_ref: the path of members to a name, through unnamed members.     *)
RECURSIVE MemberPath(_, _)
MemberPath(t, name) ==
  LET found(m) == IF m.name # "" THEN IF m.name = name THEN <<m>> ELSE <<>>
                  ELSE IF ~ IsRecord(m.ty) THEN <<>>
                  ELSE LET rest == MemberPath(m.ty, name) IN IF rest = <<>> THEN <<>> ELSE <<m>> \o rest
      i == SelectInSeq(t.members, LAMBDA m : found(m) # <<>>)
  IN  IF i = 0 THEN <<>> ELSE found(t.members[i])

(* is_compatible, for the types that _Generic and its builtin tell apart.  *)
RECURSIVE IsCompatible(_, _)
IsCompatible(t1, t2) ==
  \/ t1 = t2
  \/ /\ t1.k = t2.k
     /\ CASE t1.k \in {"char", "short", "int", "long"} -> t1.u = t2.u
          [] t1.k \in {"float", "double"} -> TRUE
          [] t1.k = "ptr" -> IsCompatible(t1.base, t2.base)
          [] t1.k = "func" -> /\ IsCompatible(t1.ret, t2.ret)
                              /\ t1.variadic = t2.variadic /\ Len(t1.params) = Len(t2.params)
                              /\ \A i \in DOMAIN t1.params : IsCompatible(t1.params[i].ty, t2.params[i].ty)
          [] OTHER -> FALSE

(* get_common_type: pointers decay, long double is double here.            *)
CommonType(t1, t2) ==
  LET wide(t) == IF t.sz < 4 THEN TInt ELSE t
      a == wide(t1)  b == wide(t2)
  IN  CASE HasBase(t1) -> PointerTo(t1.base)
        [] t1.k = "func" -> PointerTo(t1)
        [] t2.k = "func" -> PointerTo(t2)
        [] "double" \in {t1.k, t2.k} -> TDouble
        [] "float" \in {t1.k, t2.k} -> TFloat
        [] OTHER -> IF a.sz < b.sz \/ (a.sz = b.sz /\ b.u) THEN b ELSE a
-----------------------------------------------------------------------------
Num(v, t) == [k |-> "num", v |-> v, ty |-> t]
Var(v) == [k |-> "var", v |-> v, ty |-> v.ty]
NullExpr == [k |-> "null", ty |-> TVoid]
Cast(e, t) == [k |-> "cast", l |-> e, ty |-> t]

(* A binary operator before add_type has seen it: new_add and new_sub give *)
(* one, so that to_assign can take its operands apart again.               *)
Parts(op, l, r) == [op |-> op, l |-> l, r |-> r]
Arithmetic == {"add", "sub", "mul", "div", "mod", "and", "or", "xor"}
Relations == {"eq", "ne", "lt", "le"}
Binary(p) ==
  LET t == CommonType(p.l.ty, p.r.ty)
      node(l, r, ty) == [k |-> "bin", op |-> p.op, l |-> l, r |-> r, ty |-> ty]
  IN  IF p.op \in Arithmetic THEN node(Cast(p.l, t), Cast(p.r, t), t)
      ELSE IF p.op \in Relations THEN node(Cast(p.l, t), Cast(p.r, t), TInt)
      ELSE node(p.l, p.r, p.l.ty)                   \* shifts

Scaled(i, t) == Binary(Parts("mul", i, IF t.k = "vla" THEN Var(t.size[1]) ELSE Num(t.sz, TLong)))
NewAdd(l, r) ==
  CASE ~ HasBase(l.ty) /\ ~ HasBase(r.ty) -> Parts("add", l, r)
    [] HasBase(l.ty) -> Parts("add", l, Scaled(r, l.ty.base))
    [] OTHER -> Parts("add", r, Scaled(l, r.ty.base))
NewSub(l, r) ==
  CASE ~ HasBase(l.ty) -> Parts("sub", l, r)
    [] HasBase(l.ty) /\ IsInteger(r.ty) -> Parts("sub", l, Scaled(r, l.ty.base))
    [] OTHER -> Parts("div", [k |-> "bin", op |-> "sub", l |-> l, r |-> r, ty |-> TLong], Num(l.ty.base.sz, TInt))

(* new_sub gives its node the pointer's type, so add_type leaves it alone. *)
Subtraction(l, r) ==
  LET p == NewSub(l, r)
  IN  IF p.op = "sub" /\ HasBase(l.ty) THEN [k |-> "bin", op |-> "sub", l |-> p.l, r |-> p.r, ty |-> l.ty]
      ELSE Binary(p)

Unary(op, e) ==
  CASE op = "neg" -> LET t == CommonType(TInt, e.ty) IN [k |-> "neg", l |-> Cast(e, t), ty |-> t]
    [] op = "not" -> [k |-> "not", l |-> e, ty |-> TInt]
    [] op = "bitnot" -> [k |-> "bitnot", l |-> e, ty |-> e.ty]
Logical(op, l, r) == [k |-> op, l |-> l, r |-> r, ty |-> TInt]          \* logand, logor
Comma(l, r) == [k |-> "comma", l |-> l, r |-> r, ty |-> r.ty]
Addr(e) == [k |-> "addr", l |-> e, ty |-> PointerTo(IF e.ty.k = "array" THEN e.ty.base ELSE e.ty)]
Deref(e) == IF e.ty.k = "func" THEN e ELSE [k |-> "deref", l |-> e, ty |-> e.ty.base]
Member(e, m) == [k |-> "member", l |-> e, m |-> m, ty |-> m.ty]
Assign(l, r) ==
  [k |-> "assign", l |-> l, r |-> IF l.ty.k = "struct" THEN r ELSE Cast(r, l.ty), ty |-> l.ty]
Cond(c, a, b) ==
  LET t == CommonType(a.ty, b.ty)
  IN  IF TVoid \in {a.ty, b.ty} THEN [k |-> "cond", c |-> c, l |-> a, r |-> b, ty |-> TVoid]
      ELSE [k |-> "cond", c |-> c, l |-> Cast(a, t), r |-> Cast(b, t), ty |-> t]

(* A op= B is tmp = &A, *tmp = *tmp op B, and A.x op= B keeps the member   *)
(* apart so that x may be a bit field.                                     *)
Local(name, t) == [name |-> name, ty |-> t, local |-> TRUE]
Object(e) == IF e.k = "member" THEN e.l ELSE e
ToAssign(b, tmp) ==
  LET at == Deref(Var(tmp))
      again == IF b.l.k = "member" THEN Member(at, b.l.m) ELSE at
  IN  Comma(Assign(Var(tmp), Addr(Object(b.l))), Assign(again, Binary(Parts(b.op, again, b.r))))

(* A++ is (typeof A)((A += 1) - 1).                                        *)
IncDec(e, by, tmp) ==
  Cast(Binary(NewAdd(ToAssign(NewAdd(e, Num(by, TInt)), tmp), Num(-by, TInt))), e.ty)

(* a ?: b is tmp = a, tmp ? tmp : b.                                       *)
Elvis(a, b, tmp) == Comma(Assign(Var(tmp), a), Cond(Var(tmp), Var(tmp), b))

(* Arguments beyond the parameters are those of a variadic function.       *)
Call(f, args) ==
  LET ft == IF f.ty.k = "func" THEN f.ty ELSE f.ty.base
      arg(i) == CASE i > Len(ft.params) -> IF args[i].ty = TFloat THEN Cast(args[i], TDouble) ELSE args[i]
                  [] IsRecord(ft.params[i].ty) -> args[i]
                  [] OTHER -> Cast(args[i], ft.params[i].ty)
  IN  [k |-> "call", l |-> f, args |-> Evaluated([i \in DOMAIN args |-> arg(i)]), ty |-> ft.ret]
=============================================================================
