------------------------------ MODULE CMeaning ------------------------------
(***************************************************************************)
(* What a program of CSource means, from the C standard and not from the   *)
(* compiler: its result.  Memory is a function from places to values; a    *)
(* place is an object and the steps to a part of it (member numbers and    *)
(* indices; the members of a union are one place), so nothing depends on   *)
(* layout.  A value is [n, v, s]: a number, or a pointer to a place or to  *)
(* a function.                                                             *)
(*                                                                         *)
(* The state st is [mem, env, uid, out, to, ret, jv, ub] with the globals  *)
(* and functions of the program: out is "run", or how control leaves a     *)
(* statement ("break", "continue", "return", "jump" for longjmp), or       *)
(* "seek" while it looks for the label to.  ub is set by what C leaves     *)
(* undefined, but signed arithmetic wraps.                                 *)
(***************************************************************************)
EXTENDS CSource, M68k

V(n) == [n |-> n, v |-> "", s |-> <<>>]
At_(v, s) == [n |-> 0, v |-> v, s |-> s]
Place_(v, s, w) == [v |-> v, s |-> s, w |-> w]
Key(p) == [v |-> p.v, s |-> p.s]

Fit(n, ty) ==
  CASE ty.k = "bool" -> IF n = 0 THEN 0 ELSE 1
    [] ty.u -> n % Span(ty.sz)
    [] OTHER -> Signed(n % Span(ty.sz), ty.sz)
IsTrue(val, ty) == IF IsFlonum(ty) THEN ~ FloZero(val.n, ty.sz) ELSE val.v # "" \/ val.n # 0
Conversion(val, from, to) ==
  CASE to.k = "bool" -> V(IF IsTrue(val, from) THEN 1 ELSE 0)
    [] IsInteger(to) /\ IsFlonum(from) -> V(Fit(Conv(<<"ftoi", from.sz, IF to.sz = 8 THEN 8 ELSE 4>>, val.n), to))
    [] IsInteger(to) /\ IsInteger(from) -> V(Fit(val.n, to))
    [] IsFlonum(to) /\ IsInteger(from) ->
         LET sz == IF from.sz = 8 THEN 8 ELSE 4
         IN  V(Conv(<<"itof", sz, FALSE, to.sz>>, val.n % Span(sz)))
    [] IsFlonum(to) /\ IsFlonum(from) /\ to.sz # from.sz -> V(Conv(<<"ftof", from.sz, to.sz>>, val.n))
    [] OTHER -> val

Rank(t) == CASE t.k = "long" /\ t.sz = 8 -> 3 [] t.k = "long" -> 2 [] OTHER -> 1
Promoted(t) == IF IsInteger(t) /\ t.sz < 4 THEN TInt ELSE t
Common(t1, t2) ==
  LET a == Promoted(t1)  b == Promoted(t2)
      hi == IF Rank(a) >= Rank(b) THEN a ELSE b
      lo == IF Rank(a) >= Rank(b) THEN b ELSE a
  IN  IF TDouble \in {a, b} THEN TDouble ELSE IF TFloat \in {a, b} THEN TFloat
      ELSE IF lo.u /\ lo.sz = hi.sz THEN [hi EXCEPT !.u = TRUE] ELSE hi
-----------------------------------------------------------------------------
(* The result of an expression: [st, ty, val, at], at holding the place    *)
(* when it is an lvalue (or a structure).                                  *)
Gives(st, ty, val) == [st |-> st, ty |-> ty, val |-> val, at |-> <<>>]
Lvalue(st, ty, p) == [st |-> st, ty |-> ty, val |-> V(0), at |-> <<p>>]
Used(r) ==
  IF r.at = <<>> \/ IsRecord(r.ty) THEN r
  ELSE LET p == r.at[1]
       IN  CASE r.ty.k \in {"array", "vla"} -> Gives(r.st, PointerTo(r.ty.base), At_(p.v, Append(p.s, 0)))
             [] r.ty.k = "func" -> Gives(r.st, PointerTo(r.ty), At_(p.v, <<>>))
             [] OTHER -> IF Key(p) \in DOMAIN r.st.mem THEN Gives(r.st, r.ty, r.st.mem[Key(p)])
                         ELSE Gives([r.st EXCEPT !.ub = TRUE], r.ty, V(0))
(* A bit field narrower than int promotes to int.                          *)
Narrowed(r) == IF r.at # <<>> /\ r.at[1].w > 0 /\ r.at[1].w < Byte * 4 THEN [Used(r) EXCEPT !.ty = TInt] ELSE Used(r)

PutScalar(st, p, ty, val) ==
  LET n == IF p.w <= 0 THEN val.n
           ELSE IF ty.u THEN val.n % 2 ^ p.w
           ELSE LET m == val.n % 2 ^ p.w IN IF m >= 2 ^ (p.w - 1) THEN m - 2 ^ p.w ELSE m
  IN  [st EXCEPT !.mem = (Key(p) :> [val EXCEPT !.n = n]) @@ @]
PutRecord(st, p, q) ==                             \* copies q to p
  LET below == {k \in DOMAIN st.mem : k.v = q.v /\ IsPrefix(q.s, k.s)}
      rest(k) == SubSeq(k.s, Len(q.s) + 1, Len(k.s))
      from(k) == [v |-> q.v, s |-> q.s \o SubSeq(k.s, Len(p.s) + 1, Len(k.s))]
      to == {[v |-> p.v, s |-> p.s \o rest(k)] : k \in below}
  IN  [st EXCEPT !.mem = [k \in to |-> st.mem[from(k)]] @@ @]
Put_(r, p, ty) ==                                  \* the value r, converted, into p
  IF IsRecord(ty) THEN PutRecord(r.st, p, r.at[1]) ELSE PutScalar(r.st, p, ty, Conversion(r.val, r.ty, ty))

FreshObject(st, id) == [name |-> id \o "@" \o ToString(st.uid), st |-> [st EXCEPT !.uid = @ + 1]]
BindObject(st, id, ty, v) == [st EXCEPT !.env = (id :> [v |-> v, ty |-> ty]) @@ @]

(* The parts of a type, by their positions from 0: a path goes to a part,  *)
(* and Located gives the steps in memory, the type and the bits.           *)
Width(ty) == IF ty.k = "array" THEN ty.len ELSE IF ty.k = "union" THEN 1 ELSE Len(ty.members)
IsAggregate(ty) == ty.k = "array" \/ IsRecord(ty)
PartType(ty, i) == IF ty.k = "array" THEN ty.base ELSE ty.members[i + 1].ty
RECURSIVE TypeAt(_, _)
TypeAt(ty, path) == IF path = <<>> THEN ty ELSE TypeAt(PartType(ty, path[1]), Tail(path))
RECURSIVE Located(_, _)
Located(ty, path) ==
  IF path = <<>> THEN [steps |-> <<>>, ty |-> ty, w |-> -1]
  ELSE LET in == Located(PartType(ty, path[1]), Tail(path))
           steps == (IF ty.k = "union" THEN <<>> ELSE <<path[1]>>) \o in.steps
       IN  IF Len(path) = 1 /\ IsRecord(ty) THEN [in EXCEPT !.steps = steps, !.w = ty.members[path[1] + 1].w]
           ELSE [in EXCEPT !.steps = steps]
RECURSIVE PathTo(_, _)
PathTo(ty, m) ==                                   \* <<>> when no member has the name
  LET in(j) == IF ty.members[j].name = "" /\ IsRecord(ty.members[j].ty) THEN PathTo(ty.members[j].ty, m) ELSE <<>>
      here == {j \in DOMAIN ty.members : ty.members[j].name = m}
      within == {j \in DOMAIN ty.members : in(j) # <<>>}
  IN  IF here # {} THEN <<(CHOOSE j \in here : TRUE) - 1>>
      ELSE IF within # {} THEN LET j == CHOOSE k \in within : TRUE IN <<j - 1>> \o in(j) ELSE <<>>
Part(p, ty, path) == LET x == Located(ty, path) IN Place_(p.v, p.s \o x.steps, x.w)
PartOf(r, m) ==
  LET path == PathTo(r.ty, m) IN Lvalue(r.st, TypeAt(r.ty, path), Part(r.at[1], r.ty, path))
Stepped_(val, by) == IF by = 0 THEN val ELSE [val EXCEPT !.s[Len(val.s)] = @ + by]
Pointed(r) == IF r.ty.base.k = "func" THEN Lvalue(r.st, r.ty.base, Place_(r.val.v, <<>>, -1))
              ELSE Lvalue(r.st, r.ty.base, Place_(r.val.v, r.val.s, -1))

CodeOf == [op \in {"+"} |-> "add"] @@ [op \in {"-"} |-> "sub"] @@ [op \in {"*"} |-> "mul"] @@ [op \in {"/"} |-> "div"]
          @@ [op \in {"%"} |-> "mod"] @@ [op \in {"&"} |-> "and"] @@ [op \in {"|"} |-> "or"] @@ [op \in {"^"} |-> "xor"]
          @@ [op \in {"<<"} |-> "shl"] @@ [op \in {">>"} |-> "shr"] @@ [op \in {"=="} |-> "eq"] @@ [op \in {"!="} |-> "ne"]
          @@ [op \in {"<"} |-> "lt"] @@ [op \in {"<="} |-> "le"]
Truth_(p) == V(IF p THEN 1 ELSE 0)

(* An arithmetic operator on two scalars; st is the state after both.      *)
Computed(op, a, b, st) ==
  LET shift == op \in {"<<", ">>"}
      relation == op \in {"==", "!=", "<", "<="}
      ty == IF shift THEN Promoted(a.ty) ELSE Common(a.ty, b.ty)
      x == Conversion(a.val, a.ty, ty).n
      y == IF shift THEN b.val.n ELSE Conversion(b.val, b.ty, ty).n
      order == FloOrder(x, y, ty.sz)
      wrong == \/ op \in {"/", "%"} /\ IsInteger(ty) /\ (y = 0 \/ (y = -1 /\ -x = x % Span(ty.sz)))
               \/ shift /\ y \notin 0 .. Byte * ty.sz - 1
      n == Calc(CodeOf[op], x % Span(ty.sz), y % Span(ty.sz), ty.sz, ty.u)
  IN  IF wrong THEN Gives([st EXCEPT !.ub = TRUE], ty, V(0))
      ELSE IF IsFlonum(ty)
      THEN IF relation THEN Gives(st, TInt, Truth_(CASE op = "==" -> order = 0 [] op = "!=" -> order # 0
                                                     [] op = "<" -> order = -1 [] op = "<=" -> order \in {-1, 0}))
           ELSE Gives(st, ty, V(Flo(CodeOf[op], x, y, ty.sz)))
      ELSE IF relation THEN Gives(st, TInt, V(n))
      ELSE Gives(st, ty, V(Fit(n, ty)))
Index1(val) == IF val.s = <<>> THEN 0 ELSE val.s[Len(val.s)]
OnPointers(op, a, b, st) ==
  CASE op = "+" -> IF HasBase(a.ty) THEN Gives(st, a.ty, Stepped_(a.val, b.val.n)) ELSE Gives(st, b.ty, Stepped_(b.val, a.val.n))
    [] op = "-" /\ HasBase(b.ty) -> Gives(st, TLong, V(Index1(a.val) - Index1(b.val)))
    [] op = "-" /\ ~ HasBase(b.ty) -> Gives(st, a.ty, Stepped_(a.val, - b.val.n))
    [] op = "==" -> Gives(st, TInt, Truth_(a.val = b.val))
    [] op = "!=" -> Gives(st, TInt, Truth_(a.val # b.val))
    [] op = "<" -> Gives(st, TInt, Truth_(Index1(a.val) < Index1(b.val)))
    [] op = "<=" -> Gives(st, TInt, Truth_(Index1(a.val) <= Index1(b.val)))
Operation(op, a, b, st) ==
  CASE op = ">" -> IF HasBase(a.ty) THEN OnPointers("<", b, a, st) ELSE Computed("<", b, a, st)
    [] op = ">=" -> IF HasBase(a.ty) THEN OnPointers("<=", b, a, st) ELSE Computed("<=", b, a, st)
    [] OTHER -> IF HasBase(a.ty) \/ HasBase(b.ty) THEN OnPointers(op, a, b, st) ELSE Computed(op, a, b, st)
-----------------------------------------------------------------------------
RECURSIVE Eval_(_, _)
RECURSIVE Exec(_, _)
RECURSIVE Called_(_, _, _)
Value(e, st) == Narrowed(Eval_(e, st))

RECURSIVE Values(_, _, _)
Values(es, st, done) ==
  IF Len(done) = Len(es) THEN done
  ELSE Values(es, IF done = <<>> THEN st ELSE done[Len(done)].st,
              Append(done, Value(es[Len(done) + 1], IF done = <<>> THEN st ELSE done[Len(done)].st)))

Updated(op, l, r) ==                               \* l op= r, r evaluated before l
  LET cur == Narrowed(l)
      res == IF op = "=" THEN [r EXCEPT !.st = l.st] ELSE Operation(op, cur, r, cur.st)
      st == Put_(res, l.at[1], l.ty)
  IN  IF IsRecord(l.ty) THEN Lvalue(st, l.ty, l.at[1])
      ELSE Gives(st, l.ty, st.mem[Key(l.at[1])])
Assigner == [op \in {"="} |-> "="] @@ [op \in {"+="} |-> "+"] @@ [op \in {"-="} |-> "-"] @@ [op \in {"*="} |-> "*"]
            @@ [op \in {"&="} |-> "&"] @@ [op \in {"|="} |-> "|"] @@ [op \in {"^="} |-> "^"] @@ [op \in {"/="} |-> "/"]
            @@ [op \in {"%="} |-> "%"] @@ [op \in {"<<="} |-> "<<"] @@ [op \in {">>="} |-> ">>"]

Eval_(e, st) ==
  CASE e.k = "lit" -> Gives(st, e.ty, V(e.n))
    [] e.k = "ref" -> LET x == st.env[e.id] IN Lvalue(st, x.ty, Place_(x.v, <<>>, -1))
    [] e.k = "sizeof" -> Gives(st, TULong, V(e.ty.sz))
    [] e.k = "as" -> LET r == Value(e.l, st)
                     IN  IF e.ty.k = "void" THEN Gives(r.st, TVoid, V(0)) ELSE Gives(r.st, e.ty, Conversion(r.val, r.ty, e.ty))
    [] e.k = "then" -> Value(e.r, Eval_(e.l, st).st)
    [] e.k = "dot" -> PartOf(Eval_(e.l, st), e.m)
    [] e.k = "arrow" -> PartOf(Pointed(Value(e.l, st)), e.m)
    [] e.k = "index" -> LET a == Value(e.l, st)  b == Value(e.r, a.st)
                        IN  Pointed(OnPointers("+", a, b, b.st))
    [] e.k = "op1" ->
         (CASE e.op = "&" -> LET r == Eval_(e.l, st) IN Gives(r.st, PointerTo(r.ty), At_(r.at[1].v, r.at[1].s))
            [] e.op = "*" -> Pointed(Value(e.l, st))
            [] e.op = "!" -> LET r == Value(e.l, st) IN Gives(r.st, TInt, Truth_(~ IsTrue(r.val, r.ty)))
            [] e.op \in {"++", "--"} ->
                 LET r == Eval_(e.l, st) IN Updated(IF e.op = "++" THEN "+" ELSE "-", r, Gives(r.st, TInt, V(1)))
            [] OTHER -> LET r == Value(e.l, st)
                            z == Gives(r.st, TInt, V(IF e.op = "~" THEN -1 ELSE 0))
                        IN  CASE e.op = "+" -> Gives(r.st, Promoted(r.ty), r.val)
                              [] e.op = "-" /\ IsFlonum(r.ty) ->        \* the other sign
                                   Gives(r.st, r.ty, V((r.val.n + Span(r.ty.sz) \div 2) % Span(r.ty.sz)))
                              [] e.op = "-" /\ ~ IsFlonum(r.ty) -> Computed("-", z, r, r.st)
                              [] e.op = "~" -> Computed("^", r, z, r.st))
    [] e.k = "post" ->
         LET r == Eval_(e.l, st)
             old == Used(r)
             new == Updated(IF e.op = "++" THEN "+" ELSE "-", r, Gives(r.st, TInt, V(1)))
         IN  Gives(new.st, old.ty, old.val)
    [] e.k = "op2" /\ e.op \in {"&&", "||"} ->
         LET a == Value(e.l, st)  b == Value(e.r, a.st)
             decided == IsTrue(a.val, a.ty) = (e.op = "||")
         IN  IF decided THEN Gives(a.st, TInt, Truth_(e.op = "||")) ELSE Gives(b.st, TInt, Truth_(IsTrue(b.val, b.ty)))
    [] e.k = "op2" /\ e.op \notin {"&&", "||"} ->
         LET a == Value(e.l, st)  b == Value(e.r, a.st) IN Operation(e.op, a, b, b.st)
    [] e.k = "set" -> LET r == Value(e.r, st)  l == Eval_(e.l, r.st) IN Updated(Assigner[e.op], l, r)
    [] e.k = "either" ->
         LET c == Value(e.c, st)
             a == Value(e.l, c.st)  b == Value(e.r, c.st)
             r == IF IsTrue(c.val, c.ty) THEN a ELSE b
         IN  IF IsNumeric(a.ty) /\ IsNumeric(b.ty)
             THEN Gives(r.st, Common(a.ty, b.ty), Conversion(r.val, r.ty, Common(a.ty, b.ty))) ELSE r
    [] e.k = "apply" -> LET f == Value(e.l, st)
                            args == Values(e.args, f.st, <<>>)
                        IN  Called_(f.val.v, args, IF args = <<>> THEN f.st ELSE args[Len(args)].st)
    [] e.k = "stmts" ->
         LET last == e.body[Len(e.body)]
             inside == FoldLeft(LAMBDA x, t : Exec(t, x), st, SubSeq(e.body, 1, Len(e.body) - 1))
             r == Value(last.e, inside)
         IN  [r EXCEPT !.st.env = st.env]

(* A call binds the parameters, in the environment of the globals.         *)
Function_(st, id) == st.fns[SelectInSeq(st.fns, LAMBDA f : f.id = id)]
RECURSIVE BindParams(_, _, _, _)
BindParams(st, f, args, i) ==
  IF i > Len(f.params) THEN st
  ELSE LET o == FreshObject(st, f.params[i].id)
           bound == BindObject(o.st, f.params[i].id, f.params[i].ty, o.name)
       IN  BindParams(Put_([args[i] EXCEPT !.st = bound], Place_(o.name, <<>>, -1), f.params[i].ty), f, args, i + 1)
Called_(id, args, st) ==
  CASE id = "setjmp" -> Gives([st EXCEPT !.jv = 0], TInt, V(st.jv))
    [] id = "longjmp" -> Gives([st EXCEPT !.out = "jump", !.jv = args[1].val.n], TVoid, V(0))
    [] id = "alloca" -> LET o == FreshObject(st, "alloca") IN Gives(o.st, PointerTo(TVoid), At_(o.name, <<0>>))
    [] OTHER ->
         LET f == Function_(st, id)
             end == Exec(Braces(f.body), BindParams([st EXCEPT !.env = st.globals], f, args, 1))
             back == [end EXCEPT !.env = st.env, !.out = IF @ = "jump" THEN "jump" ELSE "run"]
         IN  IF end.out # "return" \/ f.ret.k = "void" THEN Gives(back, f.ret, V(0))
             ELSE IF IsRecord(f.ret) THEN Lvalue(back, f.ret, end.ret.at[1])
             ELSE Gives(back, f.ret, Conversion(end.ret.val, end.ret.ty, f.ret))
-----------------------------------------------------------------------------
(* Initializers.  The current object is a path below the aggregate of the  *)
(* list; an expression initializes the first scalar in it (or all of it,   *)
(* when it has the type), and the next object is the one after it.         *)
RECURSIVE Descended(_, _, _)
Descended(ty, path, of) ==                         \* of: the type of the expression
  LET t == TypeAt(ty, path)
  IN  IF IsAggregate(t) /\ ~ (IsRecord(t) /\ IsRecord(of)) THEN Descended(ty, Append(path, 0), of) ELSE path
RECURSIVE Next_(_, _)
Next_(ty, path) ==
  LET up == SubSeq(path, 1, Len(path) - 1)
      next == path[Len(path)] + 1
  IN  IF Len(path) = 1 \/ next < Width(TypeAt(ty, up)) THEN Append(up, next) ELSE Next_(ty, up)
RECURSIVE Designated(_, _)
Designated(ty, at) ==
  IF at = <<>> THEN <<>>
  ELSE LET p == IF at[1].m = "" THEN <<at[1].i>> ELSE PathTo(ty, at[1].m)
       IN  p \o Designated(TypeAt(ty, p), Tail(at))

RECURSIVE Leaves(_)
Leaves(ty) ==                                      \* the paths to the scalars
  IF ~ IsAggregate(ty) THEN {<<>>}
  ELSE UNION {{<<i>> \o q : q \in Leaves(PartType(ty, i))} : i \in 0 .. Width(ty) - 1}
Zeroed(st, p, ty) ==
  [st EXCEPT !.mem = [k \in {Key(Part(p, ty, q)) : q \in Leaves(ty)} |-> V(0)] @@ @]

RECURSIVE ListInto(_, _, _, _, _)
RECURSIVE InitInto(_, _, _, _)
InitInto(st, p, ty, init) ==
  CASE init.k = "list" /\ IsAggregate(ty) -> ListInto(Zeroed(st, p, ty), p, ty, init.items, <<0>>)
    [] init.k = "list" /\ ~ IsAggregate(ty) -> InitInto(st, p, ty, init.items[1].init)
    [] OTHER -> LET r == Value(init, st) IN Put_(r, p, ty)
ListInto(st, p, ty, items, cur) ==
  IF items = <<>> THEN st
  ELSE LET x == items[1]
           at == IF x.at = <<>> THEN cur ELSE Designated(ty, x.at)
           to == IF x.init.k = "list" THEN at ELSE Descended(ty, at, Value(x.init, st).ty)
       IN  ListInto(InitInto(st, Part(p, ty, to), TypeAt(ty, to), x.init), p, ty, Tail(items), Next_(ty, to))
-----------------------------------------------------------------------------
(* Statements.  A label is sought through a statement by executing it with *)
(* out = "seek"; to is [l, n], l being "" for a case with lower bound n.   *)
RECURSIVE LabelsIn(_)
LabelsIn(t) ==                                     \* not those of an inner switch
  CASE t.s = "case" -> {[l |-> "", n |-> t.lo, hi |-> t.hi]} \cup LabelsIn(t.a)
    [] t.s = "default" -> {[l |-> "default", n |-> 0, hi |-> 0]} \cup LabelsIn(t.a)
    [] t.s = "label" -> {[l |-> t.l, n |-> 0, hi |-> 0]} \cup LabelsIn(t.a)
    [] t.s = "if" -> LabelsIn(t.a) \cup (IF t.b = <<>> THEN {} ELSE LabelsIn(t.b[1]))
    [] t.s \in {"while", "do", "for"} -> LabelsIn(t.a)
    [] t.s = "switch" -> {x \in LabelsIn(t.a) : x.l \notin {"", "default"}}
    [] t.s = "block" -> UNION {LabelsIn(t.body[i]) : i \in DOMAIN t.body}
    [] OTHER -> {}
Found(st, l, n) == st.out = "seek" /\ st.to.l = l /\ st.to.n = n
Running(st) == [st EXCEPT !.out = "run"]
Landed(t, st, l, n) == Exec(t.a, IF Found(st, l, n) THEN Running(st) ELSE st)

RECURSIVE Iterate(_, _)
Again(t, st) ==                                    \* after the body
  CASE st.out = "break" -> Running(st)
    [] st.out \in {"run", "continue"} ->
         Iterate(t, IF t.s = "for" THEN Eval_(t.n, Running(st)).st ELSE Running(st))
    [] OTHER -> st
Iterate(t, st) ==
  LET c == Value(t.c, st) IN IF IsTrue(c.val, c.ty) THEN Again(t, Exec(t.a, c.st)) ELSE c.st
Switched(t, st) ==
  LET c == Value(t.c, st)
      n == Conversion(c.val, c.ty, Promoted(c.ty)).n
      fits == {x \in LabelsIn(t.a) : x.l = "" /\ n \in x.n .. x.hi}
      default == {x \in LabelsIn(t.a) : x.l = "default"}
      x == CHOOSE y \in (IF fits # {} THEN fits ELSE default) : TRUE
      end == Exec(t.a, [c.st EXCEPT !.out = "seek", !.to = [l |-> x.l, n |-> x.n]])
  IN  IF fits \cup default = {} THEN c.st ELSE IF end.out = "break" THEN Running(end) ELSE end
InOrder(body, st) == FoldLeft(LAMBDA x, t : Exec(t, x), st, body)
RECURSIVE Block_(_, _)
Block_(body, st) ==
  LET end == InOrder(body, st)
      point == SelectLastInSeq(body, LAMBDA t : t.s = "point")
  IN  CASE end.out = "seek" /\ st.out # "seek" /\ \E i \in DOMAIN body : \E x \in LabelsIn(body[i]) : x.l = end.to.l ->
             Block_(body, [end EXCEPT !.out = "seek"])
        [] end.out = "jump" /\ point # 0 -> InOrder(SubSeq(body, point, Len(body)), Running(end))
        [] OTHER -> end
Declared_(t, st) ==
  LET o == IF t.static THEN [name |-> t.id \o "$", st |-> st] ELSE FreshObject(st, t.id)
      p == Place_(o.name, <<>>, -1)
      bound == BindObject(o.st, t.id, t.ty, o.name)
  IN  IF st.out = "seek" \/ t.init = <<>> \/ (t.static /\ \E k \in DOMAIN st.mem : k.v = o.name) THEN bound
      ELSE InitInto(bound, p, t.ty, t.init[1])

Exec(t, st) ==
  LET seeking == st.out = "seek"
      here(end) == [end EXCEPT !.env = st.env]
  IN  CASE st.out \notin {"run", "seek"} -> st
        [] t.s = "point" -> IF seeking THEN st ELSE Exec(t.a, st)
        [] t.s = "var" -> Declared_(t, st)
        [] t.s = "block" -> here(Block_(t.body, st))
        [] t.s = "if" /\ seeking ->
             LET a == Exec(t.a, st) IN IF a.out = "seek" /\ t.b # <<>> THEN Exec(t.b[1], a) ELSE a
        [] t.s = "if" /\ ~ seeking ->
             LET c == Value(t.c, st)
             IN  IF IsTrue(c.val, c.ty) THEN Exec(t.a, c.st) ELSE IF t.b = <<>> THEN c.st ELSE Exec(t.b[1], c.st)
        [] t.s \in {"while", "do"} -> IF seeking \/ t.s = "do" THEN Again(t, Exec(t.a, st)) ELSE Iterate(t, st)
        [] t.s = "for" -> here(LET in == Exec(t.i, st) IN IF seeking THEN Again(t, Exec(t.a, in)) ELSE Iterate(t, in))
        [] t.s = "switch" -> IF ~ seeking THEN Switched(t, st)
                             ELSE IF st.to.l = "" THEN st
                             ELSE LET end == Exec(t.a, st) IN IF end.out = "break" THEN Running(end) ELSE end
        [] t.s = "case" -> Landed(t, st, "", t.lo)
        [] t.s = "default" -> Landed(t, st, "default", 0)
        [] t.s = "label" -> Landed(t, st, t.l, 0)
        [] seeking -> st
        [] t.s = "expr" -> Eval_(t.e, st).st
        [] t.s = "return" -> LET r == Value(t.e, st) IN [r.st EXCEPT !.out = "return", !.ret = r]
        [] t.s = "goto" -> [st EXCEPT !.out = "seek", !.to = [l |-> t.l, n |-> 0]]
        [] OTHER -> [st EXCEPT !.out = t.s]        \* break, continue

(* The result of a program: main's, as the pattern it leaves in a long.    *)
Empty == [mem |-> [k \in {} |-> V(0)], env |-> [x \in {} |-> [v |-> "", ty |-> TVoid]], uid |-> 0, out |-> "run",
          to |-> [l |-> "", n |-> 0], ret |-> <<>>, jv |-> 0, ub |-> FALSE]
FnNames == {"setjmp", "longjmp", "alloca"}
Meaning(p) ==
  LET names == FnNames \cup {p.fns[i].id : i \in DOMAIN p.fns}
      fn(x) == IF x \in FnNames THEN FuncType(TInt, <<>>, TRUE)
               ELSE FnType(p.fns[SelectInSeq(p.fns, LAMBDA f : f.id = x)])
      known == [Empty EXCEPT !.env = [x \in names |-> [v |-> x, ty |-> fn(x)]]]
      global(st, t) == LET o == BindObject(st, t.id, t.ty, t.id)
                           z == Zeroed(o, Place_(t.id, <<>>, -1), t.ty)
                       IN  IF t.init = <<>> THEN z ELSE InitInto(z, Place_(t.id, <<>>, -1), t.ty, t.init[1])
      start == FoldLeft(global, known, p.vars)
      end == Called_("main", <<>>, start @@ [globals |-> start.env, fns |-> p.fns])
  IN  [n |-> end.val.n % Span(4), ub |-> end.st.ub]
=============================================================================
