------------------------------- MODULE CSource -------------------------------
(***************************************************************************)
(* C programs as trees, and the tokens they are written with: the inputs   *)
(* of the checks of the compiler.  Parentheses are written only where the  *)
(* grammar of C needs them, so that the parser has to find the tree again. *)
(***************************************************************************)
EXTENDS CTypes

Lit(n, ty) == [k |-> "lit", n |-> n, ty |-> ty]
I(n) == Lit(n, TInt)
Ref(id) == [k |-> "ref", id |-> id]
Op1(op, e) == [k |-> "op1", op |-> op, l |-> e]               \* + - ! ~ & * ++ --
Op2(op, l, r) == [k |-> "op2", op |-> op, l |-> l, r |-> r]   \* with && and ||
Set(op, l, r) == [k |-> "set", op |-> op, l |-> l, r |-> r]   \* = += ...
Post(op, e) == [k |-> "post", op |-> op, l |-> e]
Index(l, r) == [k |-> "index", l |-> l, r |-> r]
Dot(e, m) == [k |-> "dot", l |-> e, m |-> m]
Arrow(e, m) == [k |-> "arrow", l |-> e, m |-> m]
Apply(f, args) == [k |-> "apply", l |-> f, args |-> args]
Either(c, a, b) == [k |-> "either", c |-> c, l |-> a, r |-> b]
Then(l, r) == [k |-> "then", l |-> l, r |-> r]                 \* l, r
As(ty, e) == [k |-> "as", ty |-> ty, l |-> e]
SizeOfType(ty) == [k |-> "sizeof", ty |-> ty]
StmtExpr(items) == [k |-> "stmts", body |-> items]

(* A record type is written by its tag; members are [name, ty, w].         *)
Record(k, tag, members) == [k |-> k, sz |-> 0, u |-> FALSE, tag |-> tag, members |-> members]
M(ty, name) == [name |-> name, ty |-> ty, w |-> -1]
Bits(ty, name, w) == [name |-> name, ty |-> ty, w |-> w]

(* Statements.                                                             *)
Do(e) == [s |-> "expr", e |-> e]
If(c, a) == [s |-> "if", c |-> c, a |-> a, b |-> <<>>]
IfElse(c, a, b) == [s |-> "if", c |-> c, a |-> a, b |-> <<b>>]
While(c, a) == [s |-> "while", c |-> c, a |-> a]
DoWhile(a, c) == [s |-> "do", a |-> a, c |-> c]
For(i, c, n, a) == [s |-> "for", i |-> i, c |-> c, n |-> n, a |-> a]
Switch(c, a) == [s |-> "switch", c |-> c, a |-> a]
Case(lo, hi, a) == [s |-> "case", lo |-> lo, hi |-> hi, a |-> a]
Default(a) == [s |-> "default", a |-> a]
Labelled(l, a) == [s |-> "label", l |-> l, a |-> a]
Goto_(l) == [s |-> "goto", l |-> l]
Break == [s |-> "break"]
Continue == [s |-> "continue"]
Return(e) == [s |-> "return", e |-> e]
SetjmpPoint(a) == [s |-> "point", a |-> a]                     \* a statement that calls setjmp
Braces(items) == [s |-> "block", body |-> items]
Declare(ty, id) == [s |-> "var", ty |-> ty, id |-> id, static |-> FALSE, init |-> <<>>]
DeclareAs(ty, id, init) == [Declare(ty, id) EXCEPT !.init = <<init>>]
Static(ty, id, init) == [DeclareAs(ty, id, init) EXCEPT !.static = TRUE]

(* An initializer: an expression, or a list of [at, init], at the path of  *)
(* designators written before it.                                          *)
List(items) == [k |-> "list", items |-> items]
Plain(e) == [at |-> <<>>, init |-> e]
Plains(es) == List([i \in DOMAIN es |-> Plain(es[i])])

Fn(ret, id, params, body) == [ret |-> ret, id |-> id, params |-> params, body |-> body, variadic |-> FALSE]
P(ty, id) == [ty |-> ty, id |-> id]
Program(records, vars, fns) == [records |-> records, vars |-> vars, fns |-> fns]
-----------------------------------------------------------------------------
Words(q) == [i \in DOMAIN q |-> <<q[i]>>]
Number(n, ty) == <<"num", n, ty>>
Id(n) == <<"id", n>>
Parens(q) == Words(<<"(">>) \o q \o Words(<<")">>)
Separated(qs) == FoldLeft(LAMBDA r, q : IF r = <<>> THEN q ELSE r \o Words(<<",">>) \o q, <<>>, qs)

BaseWords_(ty) ==
  CASE ty.k \in {"struct", "union"} -> <<<<ty.k>>, Id(ty.tag)>>
    [] ty.k = "void" -> Words(<<"void">>)
    [] ty.k = "bool" -> Words(<<"_Bool">>)
    [] ty.k = "float" -> Words(<<"float">>)
    [] ty.k = "double" -> Words(<<"double">>)
    [] OTHER -> Words((IF ty.u THEN <<"unsigned">> ELSE <<>>) \o (IF ty.sz = 8 THEN <<"long">> ELSE <<>>) \o <<ty.k>>)

(* A declarator is written from the name outwards.                         *)
RECURSIVE Written(_, _)
RECURSIVE Shown(_, _)
Written(ty, d) ==
  CASE ty.k = "ptr" -> LET p == Words(<<"*">>) \o d
                       IN  Written(ty.base, IF ty.base.k \in {"array", "vla", "func"} THEN Parens(p) ELSE p)
    [] ty.k = "array" -> Written(ty.base, d \o <<<<"[">>, Number(ty.len, TInt), <<"]">>>>)
    [] ty.k = "vla" -> Written(ty.base, d \o <<<<"[">>>> \o Shown(ty.len, 1) \o <<<<"]">>>>)
    [] ty.k = "func" ->
         LET ps == [i \in DOMAIN ty.params |->
                      Written(ty.params[i].ty, IF ty.params[i].name = "" THEN <<>> ELSE <<Id(ty.params[i].name)>>)]
             more == IF ty.variadic /\ ps # <<>> THEN Words(<<",", "...">>) ELSE <<>>
         IN  Written(ty.ret, d \o Parens(IF ps = <<>> /\ ~ ty.variadic THEN Words(<<"void">>) ELSE Separated(ps) \o more))
    [] OTHER -> BaseWords_(ty) \o d

Tightness == [op \in {"||"} |-> 4] @@ [op \in {"&&"} |-> 5] @@ [op \in {"|"} |-> 6] @@ [op \in {"^"} |-> 7]
             @@ [op \in {"&"} |-> 8] @@ [op \in {"==", "!="} |-> 9] @@ [op \in {"<", "<=", ">", ">="} |-> 10]
             @@ [op \in {"<<", ">>"} |-> 11] @@ [op \in {"+", "-"} |-> 12] @@ [op \in {"*", "/", "%"} |-> 13]
Precedence(e) ==
  CASE e.k = "then" -> 1 [] e.k = "set" -> 2 [] e.k = "either" -> 3 [] e.k = "op2" -> Tightness[e.op]
    [] e.k \in {"op1", "as", "sizeof"} -> 14 [] OTHER -> 15
RECURSIVE Items(_)
Bare(e) ==
  CASE e.k = "lit" -> <<Number(e.n, e.ty)>>
    [] e.k = "ref" -> <<Id(e.id)>>
    [] e.k = "op1" -> Words(<<e.op>>) \o Shown(e.l, 14)
    [] e.k = "op2" -> Shown(e.l, Tightness[e.op]) \o Words(<<e.op>>) \o Shown(e.r, Tightness[e.op] + 1)
    [] e.k = "set" -> Shown(e.l, 14) \o Words(<<e.op>>) \o Shown(e.r, 2)
    [] e.k = "post" -> Shown(e.l, 15) \o Words(<<e.op>>)
    [] e.k = "index" -> Shown(e.l, 15) \o Words(<<"[">>) \o Shown(e.r, 1) \o Words(<<"]">>)
    [] e.k = "dot" -> Shown(e.l, 15) \o <<<<".">>, Id(e.m)>>
    [] e.k = "arrow" -> Shown(e.l, 15) \o <<<<"->">>, Id(e.m)>>
    [] e.k = "apply" -> Shown(e.l, 15) \o Parens(Separated([i \in DOMAIN e.args |-> Shown(e.args[i], 2)]))
    [] e.k = "either" -> Shown(e.c, 4) \o Words(<<"?">>) \o Shown(e.l, 1) \o Words(<<":">>) \o Shown(e.r, 3)
    [] e.k = "then" -> Shown(e.l, 1) \o Words(<<",">>) \o Shown(e.r, 2)
    [] e.k = "as" -> Parens(Written(e.ty, <<>>)) \o Shown(e.l, 14)
    [] e.k = "sizeof" -> Words(<<"sizeof">>) \o Parens(Written(e.ty, <<>>))
    [] e.k = "stmts" -> Parens(Words(<<"{">>) \o Items(e.body) \o Words(<<"}">>))
Shown(e, least) == IF Precedence(e) < least THEN Parens(Bare(e)) ELSE Bare(e)

RECURSIVE Initial(_)
Initial(i) ==
  IF i.k # "list" THEN Shown(i, 2)
  ELSE LET designator(d) == IF d.m # "" THEN <<<<".">>, Id(d.m)>> ELSE <<<<"[">>, Number(d.i, TInt), <<"]">>>>
           item(x) == FoldLeft(LAMBDA q, d : q \o designator(d), <<>>, x.at)
                      \o (IF x.at = <<>> THEN <<>> ELSE Words(<<"=">>)) \o Initial(x.init)
       IN  Words(<<"{">>) \o Separated([j \in DOMAIN i.items |-> item(i.items[j])]) \o Words(<<"}">>)

RECURSIVE Text(_)
Text(t) ==
  LET cond == Parens(Shown(t.c, 1))
  IN  CASE t.s = "expr" -> Shown(t.e, 1) \o Words(<<";">>)
        [] t.s = "if" -> Words(<<"if">>) \o cond \o Text(t.a)
                         \o (IF t.b = <<>> THEN <<>> ELSE Words(<<"else">>) \o Text(t.b[1]))
        [] t.s = "while" -> Words(<<"while">>) \o cond \o Text(t.a)
        [] t.s = "do" -> Words(<<"do">>) \o Text(t.a) \o Words(<<"while">>) \o cond \o Words(<<";">>)
        [] t.s = "for" -> Words(<<"for", "(">>) \o Text(t.i) \o Shown(t.c, 1) \o Words(<<";">>) \o Shown(t.n, 1)
                          \o Words(<<")">>) \o Text(t.a)
        [] t.s = "switch" -> Words(<<"switch">>) \o cond \o Text(t.a)
        [] t.s = "point" -> Text(t.a)
        [] t.s = "case" -> <<<<"case">>, Number(t.lo, TInt)>>
                           \o (IF t.hi = t.lo THEN <<>> ELSE <<<<"...">>, Number(t.hi, TInt)>>)
                           \o Words(<<":">>) \o Text(t.a)
        [] t.s = "default" -> Words(<<"default", ":">>) \o Text(t.a)
        [] t.s = "label" -> <<Id(t.l), <<":">>>> \o Text(t.a)
        [] t.s = "goto" -> <<<<"goto">>, Id(t.l), <<";">>>>
        [] t.s \in {"break", "continue"} -> Words(<<t.s, ";">>)
        [] t.s = "return" -> Words(<<"return">>) \o Shown(t.e, 1) \o Words(<<";">>)
        [] t.s = "block" -> Words(<<"{">>) \o Items(t.body) \o Words(<<"}">>)
        [] t.s = "var" -> (IF t.static THEN Words(<<"static">>) ELSE <<>>) \o Written(t.ty, <<Id(t.id)>>)
                          \o (IF t.init = <<>> THEN <<>> ELSE Words(<<"=">>) \o Initial(t.init[1])) \o Words(<<";">>)
Items(body) == Concat([i \in DOMAIN body |-> Text(body[i])])

FnType(f) == FuncType(f.ret, [i \in DOMAIN f.params |-> [name |-> f.params[i].id, ty |-> f.params[i].ty]], f.variadic)
Member_(m) ==
  Written(m.ty, IF m.name = "" THEN <<>> ELSE <<Id(m.name)>>)
  \o (IF m.w < 0 THEN <<>> ELSE <<<<":">>, Number(m.w, TInt)>>) \o Words(<<";">>)
Defined(r) ==
  <<<<r.k>>, Id(r.tag), <<"{">>>> \o Concat([i \in DOMAIN r.members |-> Member_(r.members[i])])
  \o Words(<<"}", ";">>)
Printed(p) ==
  LET head(j) == Written(FnType(p.fns[j]), <<Id(p.fns[j].id)>>)
      each(text(_)) == Concat([j \in DOMAIN p.fns |-> head(j) \o text(j)])
  IN  Concat([j \in DOMAIN p.records |-> Defined(p.records[j])])
      \o each(LAMBDA j : Words(<<";">>)) \o Items(p.vars)
      \o each(LAMBDA j : Words(<<"{">>) \o Items(p.fns[j].body) \o Words(<<"}">>)) \o <<<<"eof">>>>
=============================================================================
