----------------------------- MODULE MCCompiler -----------------------------
(* Programs for Compiler: one for each construct and the ways it meets the *)
(* others, and every operator on every mixture of types.                   *)
EXTENDS Compiler

x == Ref("x")  y == Ref("y")  i == Ref("i")  s == Ref("s")  a == Ref("a")  p == Ref("p")  q == Ref("q")  t == Ref("t")
Vars == <<Declare(TInt, "x"), Declare(TInt, "y")>>
Main(body) == Fn(TInt, "main", <<>>, body)
Simple(body) == Program(<<>>, Vars, <<Main(body)>>)
Calling(fns, body) == Program(<<>>, Vars, Append(fns, Main(body)))
With(records, body) == Program(records, Vars, <<Main(body)>>)
f(args) == Apply(Ref("f"), args)
g(args) == Apply(Ref("g"), args)
Eq(l, r) == Set("=", l, r)
Plus(l, r) == Op2("+", l, r)
Minus(l, r) == Op2("-", l, r)
Inc(l) == Do(Post("++", l))

Pair_ == Record("struct", "Pair", <<M(TChar, "c"), M(TInt, "n")>>)
Field == Record("struct", "Field", <<Bits(TInt, "a", 3), Bits(TUInt, "b", 4), Bits(TInt, "c", 5), M(TChar, "d")>>)
Nest == Record("struct", "Nest", <<M(TInt, "h"), M(Pair_, "p"), M(ArrayOf(TShort, 3), "v")>>)

Named_ ==
  [sum |-> Simple(<<
     Declare(TInt, "i"), DeclareAs(TInt, "s", I(0)),
     For(Do(Eq(i, I(1))), Op2("<=", i, x), Post("++", i), Do(Set("+=", s, i))),
     Return(Plus(s, y))>>),
   loops |-> Simple(<<
     DeclareAs(TInt, "i", I(0)), DeclareAs(TInt, "s", I(0)),
     While(I(1), Braces(<<
       Inc(i), If(Op2("==", i, y), Continue), If(Op2("&&", Op2(">", i, x), Op1("!", Op2("<", i, y))), Break),
       DoWhile(Do(Set("+=", s, Op2("*", i, I(2)))), Op2("||", Op2("<", s, i), Op2(">=", y, s))),
       If(Op2("<", i, y), Continue), Inc(s)>>)),
     Return(Plus(s, i))>>),
   switch |-> Simple(<<
     DeclareAs(TInt, "i", I(0)), DeclareAs(TInt, "s", I(1)),
     For(Do(Eq(i, x)), Op2("<", i, I(6)), Op1("++", i), Switch(i, Braces(<<
       Case(-1, -1, Do(Set("*=", s, I(3)))), Default(Do(Set("-=", s, I(1)))), Case(2, 3, Break), Case(4, 4, Do(Set("+=", s, I(5)))),
       If(Op2("==", y, I(1)), Continue), Case(5, 5, Do(Eq(s, Op1("-", s))))>>))),
     Return(s)>>),
   jumps |-> Simple(<<
     DeclareAs(TInt, "s", I(0)),
     IfElse(Op2("<", x, y), Goto_("in"), Braces(<<Labelled("out", Do(Set("+=", s, I(1)))), Labelled("in", Inc(s))>>)),
     If(Op2("<", s, I(3)), Goto_("out")),
     Return(Plus(s, x))>>),
   calls |-> Calling(<<
     Fn(TInt, "f", <<P(TInt, "n"), P(TChar, "c"), P(TInt, "m")>>, <<
       If(Op2("<=", Ref("n"), I(0)), Return(Ref("c"))),
       Return(Plus(Ref("n"), f(<<Minus(Ref("n"), I(1)), Ref("m"), Ref("c")>>)))>>)>>,
     <<Return(Minus(f(<<x, y, f(<<I(1), x, I(3)>>)>>), f(<<y, x, I(1)>>)))>>),
   wide |-> Calling(<<
     Fn(TLLong, "f", <<P(TLLong, "n"), P(TChar, "c"), P(TULLong, "m")>>, <<
       Return(Plus(Op2("*", Ref("n"), Ref("m")), Ref("c")))>>)>>,
     <<DeclareAs(TLLong, "s", f(<<Minus(x, I(2)), y, Plus(x, y)>>)),
       Return(Plus(As(TInt, Op2(">>", s, I(8))), As(TInt, s)))>>),
   records |-> Program(<<Pair_>>, Vars, <<
     Fn(Pair_, "f", <<P(Pair_, "p"), P(TInt, "n")>>, <<
       Do(Set("+=", Dot(p, "n"), Ref("n"))), Do(Post("++", Dot(p, "c"))), Return(p)>>),
     Main(<<
       DeclareAs(Pair_, "p", Plains(<<x, y>>)), Declare(Pair_, "q"),
       Do(Eq(q, f(<<p, I(2)>>))), Do(Eq(Dot(q, "n"), Plus(Dot(f(<<p, I(1)>>), "n"), Dot(p, "n")))),
       Do(Eq(p, Either(Op2("<", x, y), f(<<q, I(1)>>), q))),
       Return(Plus(Plus(Dot(p, "n"), Dot(p, "c")), Plus(Dot(q, "c"), Dot(q, "n"))))>>)>>),
   fields |-> With(<<Field>>, <<
     Declare(Field, "s"), DeclareAs(PointerTo(Field), "p", Op1("&", s)),
     Do(Eq(Dot(s, "b"), y)), Do(Eq(Dot(s, "c"), Eq(Dot(s, "a"), x))), Do(Eq(Dot(s, "d"), y)),
     Do(Set("+=", Arrow(p, "b"), Dot(s, "c"))), Do(Set("<<=", Dot(s, "c"), I(1))), Do(Op1("++", Dot(s, "a"))),
     Return(Plus(Plus(Dot(s, "a"), Op2("*", Dot(s, "b"), I(8))), Plus(Dot(s, "c"), Dot(s, "d"))))>>),
   arrays |-> Simple(<<
     DeclareAs(ArrayOf(ArrayOf(TShort, 3), 2), "a", List(<<Plain(Plains(<<x, y>>)), Plain(Plains(<<I(1), x, I(2)>>))>>)),
     DeclareAs(PointerTo(TShort), "p", Op1("&", Index(Index(a, I(1)), I(0)))),
     DeclareAs(PointerTo(TShort), "q", p), DeclareAs(TInt, "s", Op1("*", Post("++", p))),
     Do(Set("+=", p, I(1))), Do(Set("-=", Op1("*", Op1("--", p)), s)), Do(Eq(Index(Index(a, I(0)), I(2)), Op1("*", p))),
     Return(Plus(Op2("*", Index(Index(a, I(0)), I(2)), I(4)), Plus(Minus(p, q), Op2("<", q, p))))>>),
   indexed |-> Simple(<<
     DeclareAs(ArrayOf(TInt, 3), "a", Plains(<<I(1), x, y>>)), DeclareAs(PointerTo(TInt), "p", Plus(a, I(1))),
     DeclareAs(TInt, "i", Op2("&", x, I(1))),
     DeclareAs(TInt, "s", Plus(Index(p, i), Index(p, Minus(i, I(1))))),
     Return(Plus(s, Op2("*", Index(a, Index(a, I(0))), Index(p, Op1("-", i)))))>>),
   pointers |-> Program(<<>>, Append(Vars, DeclareAs(ArrayOf(PointerTo(FuncType(TInt, <<[name |-> "", ty |-> TInt]>>, FALSE)), 2), "t",
                                           Plains(<<Ref("f"), Op1("&", Ref("g"))>>))), <<
     Fn(TInt, "f", <<P(TInt, "n")>>, <<Return(Plus(Ref("n"), y))>>),
     Fn(TInt, "g", <<P(TInt, "n")>>, <<Return(Op2("^", Ref("n"), x))>>),
     Main(<<Do(Eq(x, Apply(Op1("*", Index(t, I(0))), <<x>>))), Return(Minus(Apply(Index(t, Op2("<", x, y)), <<x>>), y))>>)>>),
   exprs |-> Simple(<<
     DeclareAs(TInt, "s", StmtExpr(<<DeclareAs(TInt, "x", I(5)), Do(Set("+=", x, y)), Do(Op2("*", x, I(2)))>>)),
     Do(Then(Set("|=", s, x), Set("^=", s, I(6)))),
     DeclareAs(TInt, "t", Op2("&&", x, Op2("||", Set("-=", y, I(1)), Post("--", s)))),
     Do(Eq(t, Either(Op1("!", t), Either(x, s, y), Minus(s, t)))),
     Return(Plus(t, Plus(x, y)))>>),
   conditions |-> Simple(<<
     DeclareAs(TUInt, "t", y), DeclareAs(TInt, "s", I(0)),
     If(Op2("&&", Op1("!", Op2("||", Op2("<", x, I(0)), Op2("<", I(3), y))), Op2("!=", x, y)), Do(Set("+=", s, I(1)))),
     If(Op2("||", Op1("!", Op2("&&", x, y)), Op1("!", Op2(">=", t, x))), Do(Set("+=", s, I(2)))),
     IfElse(Op2("&&", Op2("||", Op2(">", t, I(1)), Post("++", s)), Op2("<=", I(1), t)), Do(Set("+=", s, I(4))), Do(Set("-=", s, I(8)))),
     Return(s)>>),
   kinds |-> Simple(<<
     DeclareAs(TBool, "t", x), DeclareAs(TChar, "c", y), DeclareAs(TUShort, "s", Minus(x, y)), DeclareAs(TULLong, "q", Ref("c")),
     Do(Set("+=", t, I(2))), Do(Set("*=", Ref("c"), I(3))), Do(Set("<<=", q, I(3))), Do(Op1("--", s)),
     Return(Plus(Plus(t, Op2("*", Ref("c"), I(2))), Plus(s, As(TInt, Op2(">>", q, I(4))))))>>),
   floats |-> Calling(<<
     Fn(TDouble, "f", <<P(TFloat, "a"), P(TDouble, "b")>>, <<
       If(Op2("<", a, Ref("b")), Return(Op1("-", a))), Return(Plus(Op2("*", a, Ref("b")), x))>>)>>,
     <<DeclareAs(TFloat, "s", x), DeclareAs(TDouble, "t", Op2("/", y, s)), Do(Set("+=", s, t)),
       If(Op2("&&", Op1("!", Op2("==", s, s)), t), Return(I(9))),
       Return(Plus(As(TInt, f(<<s, y>>)), Op2("<=", t, s)))>>),
   statics |-> Calling(<<
     Fn(TInt, "f", <<P(TInt, "n")>>, <<
       Static(TInt, "s", I(3)), Static(ArrayOf(TChar, 3), "a", Plains(<<I(1), I(-1)>>)),
       Do(Set("+=", Index(a, I(2)), Ref("n"))), Inc(s), Return(Plus(s, Plus(Index(a, I(2)), Index(a, I(1)))))>>)>>,
     <<Do(f(<<x>>)), Do(Eq(x, f(<<y>>))), Return(Op2("*", x, f(<<I(0)>>)))>>),
   lists |-> With(<<Pair_, Nest>>, <<
     DeclareAs(Nest, "s", List(<<Plain(x), Plain(I(2)), Plain(y), [at |-> <<[m |-> "v", i |-> 0], [m |-> "", i |-> 1]>>, init |-> x],
                                 Plain(I(3)), [at |-> <<[m |-> "p", i |-> 0], [m |-> "n", i |-> 0]>>, init |-> Minus(x, y)]>>)),
     DeclareAs(ArrayOf(Pair_, 2), "a", List(<<[at |-> <<[m |-> "", i |-> 1]>>, init |-> Plains(<<y>>)]>>)),
     Do(Eq(x, Plus(Dot(s, "h"), Op2("*", Dot(Dot(s, "p"), "n"), I(4))))),
     Do(Eq(y, Plus(Index(Dot(s, "v"), I(1)), Index(Dot(s, "v"), I(2))))),
     Return(Plus(Plus(x, y), Plus(Dot(Index(a, I(1)), "c"), Dot(Index(a, I(0)), "n"))))>>),
   vla |-> Simple(<<
     DeclareAs(TInt, "i", I(0)), DeclareAs(TInt, "s", I(0)),
     While(Op2("<", Post("++", i), I(2)), Braces(<<
       Declare(VlaOf(TInt, Plus(Op2("&", x, I(1)), i)), "a"), Do(Eq(Index(a, Minus(i, I(1))), y)),
       If(Op2("==", i, y), Continue), Do(Set("+=", s, Index(a, Minus(i, I(1)))))>>)),
     Return(Plus(s, i))>>),
   busy |-> Calling(<<                              \* more variables in its loop than data registers
     Fn(TInt, "f", <<P(TInt, "n"), P(TInt, "m"), P(TInt, "s"), P(TInt, "t"), P(TInt, "i"), P(PointerTo(TInt), "p"), P(PointerTo(TInt), "q")>>, <<
       DoWhile(Braces(<<Do(Set("+=", s, Op2("^", Ref("n"), t))), Do(Eq(Op1("*", q), Minus(s, Index(p, I(0))))), Do(Eq(p, q))>>),
               Op2("<", Op1("++", i), Ref("m"))),
       Return(Plus(s, Op1("*", p)))>>)>>,
     <<DeclareAs(TInt, "s", f(<<I(3), y, x, I(1), I(0), Op1("&", x), Op1("&", y)>>)), Return(Plus(s, Op2("*", x, y)))>>),
   kept |-> Calling(<<                              \* a callee that needs d2 and d3 itself
     Fn(TInt, "f", <<P(TLLong, "n"), P(TInt, "m")>>, <<Return(As(TInt, Plus(Ref("n"), Ref("m"))))>>)>>,
     <<DeclareAs(TInt, "i", I(0)), DeclareAs(TInt, "s", y),
       While(Op2("<", i, I(2)), Braces(<<Do(Set("+=", s, f(<<Op2("*", s, i), x>>))), Inc(i)>>)),
       Return(Plus(s, x))>>),
   settled |-> Simple(<<                            \* what level 3 folds and drops
     DeclareAs(TInt, "s", Plus(Op2("*", x, I(1)), Op2("/", I(-7), Plus(I(1), I(1))))), Do(Plus(x, y)),
     IfElse(Minus(I(1), I(1)), Do(Eq(s, y)), Do(Set("+=", s, Plus(y, y)))),
     While(I(0), Inc(x)), DoWhile(Inc(s), Op2("&&", I(0), Post("++", x))),
     If(Op2("||", Op1("!", I(3)), Op2("<", Op1("-", I(2)), I(1))), Do(Set("+=", s, Either(I(0), Post("++", x), I(3))))),
     For(Do(Eq(x, I(0))), I(1), Op1("++", x), If(Op2("<=", I(2), x), Break)),
     Do(Set("^=", s, Plus(Op2("*", I(0), y), Plus(Op2("&", y, I(-1)), As(TChar, Plus(I(100), I(100))))))),
     Goto_("out"), Inc(x), Labelled("out", Return(Plus(s, Op2("&", I(0), Set("+=", x, I(1)))))), Inc(x)>>),
   setjmp |-> Program(<<>>, Vars \o <<Declare(FuncType(TInt, <<>>, FALSE), "setjmp"), Declare(FuncType(TVoid, <<[name |-> "", ty |-> TInt]>>, FALSE), "longjmp")>>, <<
     Fn(TVoid, "f", <<P(TInt, "n")>>, <<Do(Apply(Ref("longjmp"), <<Ref("n")>>)), Inc(x)>>),
     Main(<<DeclareAs(TInt, "s", I(0)),
       SetjmpPoint(Do(Set("+=", s, Plus(Op2("*", Apply(Ref("setjmp"), <<>>), I(2)), Plus(x, y))))),
       If(Op2("<", s, I(3)), Do(f(<<I(3)>>))),
       Return(Plus(s, x))>>)>>)]


(* Every operator on every mixture of types, its second operand a variable *)
(* or a constant, for its value or for a branch.                           *)
Typed ==
  [bool |-> TBool, char |-> TChar, ushort |-> TUShort, int |-> TInt, uint |-> TUInt, llong |-> TLLong,
   ullong |-> TULLong, float |-> TFloat, double |-> TDouble]
Relation == {"==", "!=", "<", "<=", ">", ">="}
Shift == {"<<", ">>"}
Integral == {"+", "-", "*", "/", "%", "&", "|", "^"} \cup Shift \cup Relation
Mixtures ==
  {<<"int", "int">>, <<"uint", "int">>, <<"char", "ushort">>, <<"bool", "uint">>, <<"llong", "int">>,
   <<"uint", "ullong">>, <<"char", "llong">>}
Floating == {<<"float", "float">>, <<"double", "int">>, <<"char", "double">>}
Narrow == {"bool", "char", "ushort"}
(* Integers narrower than int are not promoted before a shift, and a count *)
(* of eight bytes is not narrowed.                                         *)
IsSound(op, ty, tz) == op \in Shift => ty \notin Narrow /\ tz \notin {"llong", "ullong"}
Binaries ==
  {<<"value", j[2], j[1][1], j[1][2]>> : j \in {k \in Mixtures \X Integral : IsSound(k[2], k[1][1], k[1][2])}}
  \cup {<<"value", op, ts[1], ts[2]>> : op \in {"+", "-", "*", "/"} \cup Relation, ts \in Floating}
  \cup {<<"branch", op, ts[1], ts[2]>> : op \in Relation, ts \in Mixtures \cup Floating}
  \cup {<<"update", j[2], j[1][1], j[1][2]>> :
           j \in {k \in Mixtures \X (Integral \ Relation) : IsSound(k[2], k[1][1], k[1][2])}}
Constants_ ==
  {<<side, op, ty, k>> : side \in {"right", "left"}, op \in Integral, ty \in {"int", "uint"}, k \in {0, 1, 2, 3, 7, 8, 64, -1}}
  \cup {<<"fork", op, ty, k>> : op \in Relation, ty \in {"int", "uint"}, k \in {0, 3, -1}}
Casts == {<<"to", ty, tz>> : ty \in DOMAIN Typed, tz \in DOMAIN Typed} \ {<<"to", "uint", tz>> : tz \in {"float", "double"}}
(* The complement of a long long leaves its high half, that of a narrower  *)
(* integer is not promoted; a step back from a bool is to 1.               *)
Unaries ==
  {<<"unary", op, ty>> : op \in {"+", "-", "!"}, ty \in DOMAIN Typed} \cup {<<"unary", "~", ty>> : ty \in {"int", "uint"}}
  \cup {<<"step", op, ty>> : op \in {"++", "--"}, ty \in DOMAIN Typed \ {"float", "double"}}
  \cup {<<"step", op, ty>> : op \in {"post++", "post--"}, ty \in {"char", "ushort", "int", "uint", "llong"}}
Trees == {<<"tree", o1, o2>> : o1 \in {"+", "-", "*", "&", "<", "<<", "&&"}, o2 \in {"-", "/", "|", "^", "<=", ">>", "||"}}

Low(e) == Op2("^", As(TInt, e), As(TInt, Op2(">>", As(TLLong, e), I(8))))
Operands(ty, tz, body) == Program(<<>>, <<Declare(Typed[ty], "x"), Declare(Typed[tz], "y")>>, <<Main(body)>>)
Answer(e) == <<If(e, Return(I(1))), Return(I(2))>>
MCSource(j) ==
  CASE j[1] = "program" -> Named_[j[2]]
    [] j[1] = "value" -> Operands(j[3], j[4], <<Return(IF "double" \in {j[3], j[4]} THEN Op2(j[2], x, y) ELSE Low(Op2(j[2], x, y)))>>)
    [] j[1] = "branch" -> Operands(j[3], j[4], Answer(Op2(j[2], x, y)))
    [] j[1] = "update" -> Operands(j[3], j[4], <<Do(Set(j[2] \o "=", x, y)), Return(Low(x))>>)
    [] j[1] = "right" -> Operands(j[3], "int", <<Return(Op2(j[2], x, I(j[4])))>>)
    [] j[1] = "left" -> Operands(j[3], "int", <<Return(Op2(j[2], I(j[4]), x))>>)
    [] j[1] = "fork" -> Operands(j[3], "int", Answer(Op2(j[2], x, I(j[4]))))
    [] j[1] = "unary" -> Operands(j[3], "int", <<Return(IF j[3] = "double" THEN Op1(j[2], x) ELSE Low(Op1(j[2], x)))>>)
    [] j[1] = "step" -> Operands(j[3], "int",
         <<Do(Eq(y, CASE j[2] = "post++" -> Post("++", x) [] j[2] = "post--" -> Post("--", x) [] OTHER -> Op1(j[2], x))),
           Return(Op2("^", Low(x), y))>>)
    [] j[1] = "tree" -> Operands("int", "int", <<
         Declare(TInt, "z"), Do(Set("=", Ref("z"), Op2(j[2], y, I(3)))),
         Return(Op2(j[3], Op2(j[2], x, Op2(j[2], y, x)), Op2(j[2], Op1("-", Ref("z")), x)))>>)
    [] j[1] = "to" -> Operands(j[2], j[3], <<Return(As(Typed[j[3]], x))>>)
MCInputs(j) ==
  CASE j[1] = "program" -> {<<0, 1>>, <<3, 2>>, <<-1, 5>>}
    [] j[1] \in {"value", "branch", "update", "tree"} -> {<<-1, 3>>, <<5, -2>>, <<-128, -1>>, <<127, 0>>}
    [] OTHER -> {<<v, 0>> : v \in {-128, -5, 3, 127}}
Programs == {<<"program", n>> : n \in DOMAIN Named_}

(* The three levels with each generator; -O3 without registers, RegAlloc   *)
(* has those of level 3.                                                   *)
MCModes ==
  {[o |-> o, ir |-> FALSE, regalloc |-> TRUE] : o \in 0 .. 2}
  \cup {[o |-> 2, ir |-> TRUE, regalloc |-> r] : r \in BOOLEAN} \cup {[o |-> 3, ir |-> TRUE, regalloc |-> FALSE]}
MCJobs == Programs \cup Binaries \cup Constants_ \cup Casts \cup Unaries \cup Trees
=============================================================================
