------------------------------- MODULE Parser -------------------------------
(***************************************************************************)
(* The recursive-descent parser (parse.c): tokens become typed trees,      *)
(* types, and the list of globals.  A token is <<word>>, <<"id", name>>,   *)
(* <<"num", value, type>>, <<"str", bytes, type>> or <<"eof">>.            *)
(*                                                                         *)
(* The parser's global variables are the state s: the tokens t and the     *)
(* place i in them, the scopes (innermost first), the locals of the        *)
(* function being parsed and all globals (newest first), the function fn,  *)
(* the cases of the enclosing switch, the jump targets brk and cont, and   *)
(* vla.  A parsing operator gives the state after it, with its result in n *)
(* (and the declared name in name, the storage words in attr).  Programs   *)
(* that the parser refuses are not modelled.                               *)
(***************************************************************************)
EXTENDS CTypes, M68k, TLC

CONSTANTS
  VaArea,       \* bytes of the object that holds a variadic function's va_area: 136 in the code
  HostLittle    \* the compiler runs on a little-endian machine

Tok(s) == s.t[s.i]
Is(s, word) == Tok(s) = <<word>>
NextIs(s, word) == s.t[s.i + 1] = <<word>>
Over(s, k) == [s EXCEPT !.i = @ + k]
Skip(s, word) == IF Assert(Is(s, word), <<"expected", word, s.i, s.t>>) THEN Over(s, 1) ELSE s
Consume(s, word) == IF Is(s, word) THEN Over(s, 1) ELSE s
Give(s, n) == [s EXCEPT !.n = n]
IsIdent(s) == Tok(s)[1] = "id"

Started(tokens) ==
  [t |-> tokens, i |-> 1, n |-> <<>>, name |-> "", attr |-> [words |-> {}, al |-> 0],
   scopes |-> <<[vars |-> <<>>, tags |-> <<>>]>>, locals |-> <<>>, globals |-> <<>>, uid |-> 0,
   fn |-> [name |-> "", ret |-> TVoid], sw |-> [cases |-> <<>>, default |-> <<>>],
   brk |-> "", cont |-> "", vla |-> FALSE]
-----------------------------------------------------------------------------
(* Scopes.  A name stands for [var], [type] or [enum].                     *)
Enter(s) == [s EXCEPT !.scopes = <<[vars |-> <<>>, tags |-> <<>>]>> \o @]
Leave(s) == [s EXCEPT !.scopes = Tail(@)]
Lookup(s, kind, id) ==                             \* <<>> when nothing has the name
  LET k == SelectInSeq(s.scopes, LAMBDA sc : id \in DOMAIN sc[kind])
  IN  IF k = 0 THEN <<>> ELSE <<s.scopes[k][kind][id]>>
Bind(s, kind, id, x) == [s EXCEPT !.scopes[1][kind] = (id :> x) @@ @]
Names(s, field) ==                                 \* the token names a variable, type or enum constant
  IsIdent(s) /\ \E x \in Range(Lookup(s, "vars", Tok(s)[2])) : field \in DOMAIN x

UniqueName(s) == "L__" \o ToString(s.uid)
Fresh(s) == [s EXCEPT !.uid = @ + 1]
LocalOf(s, id, ty) == Local(id \o "." \o ToString(Len(s.locals)), ty)
NewLocal(s, id, ty) ==
  [Bind(s, "vars", id, [var |-> LocalOf(s, id, ty)]) EXCEPT !.locals = <<LocalOf(s, id, ty)>> \o @]
NewNamed(s, id, ty) ==                             \* a local that the code finds by its name
  [Bind(s, "vars", id, [var |-> Local(id, ty)]) EXCEPT !.locals = <<Local(id, ty)>> \o @]
Newest(s) == Head(s.locals)

GlobalVar(g) == [name |-> g.name, ty |-> g.ty, local |-> FALSE]
Global(id, ty) ==
  [name |-> id, ty |-> ty, def |-> TRUE, static |-> TRUE, tentative |-> FALSE, root |-> FALSE, inline |-> FALSE,
   data |-> <<>>, rel |-> <<>>, refs |-> {}, params |-> <<>>, locals |-> <<>>, body |-> <<>>, variadic |-> FALSE]
NewGlobal(s, id, ty) ==
  [Bind(s, "vars", id, [var |-> GlobalVar(Global(id, ty))]) EXCEPT !.globals = <<Global(id, ty)>> \o @]
NewAnonGlobal(s, ty) == Fresh(NewGlobal(s, UniqueName(s), ty))
NewStringLiteral(s, bytes, ty) ==
  [NewAnonGlobal(s, ty) EXCEPT !.globals[1].data = bytes]
IsFunction(g) == g.ty.k = "func"
-----------------------------------------------------------------------------
StorageWords == {"typedef", "static", "extern", "inline", "_Thread_local", "__thread"}
Ignored == {"const", "volatile", "auto", "register", "restrict", "__restrict", "__restrict__", "_Noreturn"}
BaseWords == {"void", "_Bool", "char", "short", "int", "long", "float", "double", "signed", "unsigned"}
TypeWords == StorageWords \cup Ignored \cup BaseWords \cup {"struct", "union", "enum", "typeof", "_Alignas"}
TypedefName(s) == Names(s, "type")
IsTypename(s) == Tok(s)[1] \in TypeWords \/ TypedefName(s)

BaseType(words) ==
  LET has(w) == w \in Range(words)
      longs == Cardinality({k \in DOMAIN words : words[k] = "long"})
      of(signed, unsigned) == IF has("unsigned") THEN unsigned ELSE signed
  IN  CASE has("void") -> TVoid
        [] has("_Bool") -> TBool
        [] has("char") -> of(TChar, TUChar)
        [] has("short") -> of(TShort, TUShort)
        [] has("float") -> TFloat
        [] has("double") -> TDouble
        [] longs = 2 -> of(TLLong, TULLong)
        [] longs = 1 -> of(TLong, TULong)
        [] OTHER -> of(TInt, TUInt)

(* The mutually recursive functions of the parser call each other through  *)
(* Parse; what each does is its rule below.                                *)
RECURSIVE Parse(_, _)
DeclSpec(s) == Parse("declspec", s)
Declarator(s, base) == Parse("declarator", Give(s, base))
TypeSuffix(s, ty) == Parse("suffix", Give(s, ty))
TypeName(s) == Parse("typename", s)
FunctionAhead(s) == ~ Is(s, ";") /\ Declarator(s, TVoid).n.k = "func"
Initializer2(s, init) == Parse("initializer", Give(s, init))
Designation(s, init) == Parse("designation", Give(s, init))
CommaExpr(s) == Parse("expr", s)
AssignExpr(s) == Parse("assign", s)
Conditional(s) == Parse("conditional", s)
CastExpr(s) == Parse("cast", s)
Postfix(s) == Parse("postfix", s)
Statement(s) == Parse("stmt", s)
TopLevel(s) == Parse("top", s)
Block(s) == Parse("block", s)
FunctionDecl(s, base) == Parse("function", Give(s, base))

(* func_params: arrays and functions become pointers, () takes anything.   *)
RECURSIVE Params(_, _)
Params(s, ps) ==
  LET from == IF ps = <<>> THEN s ELSE Skip(s, ",")
      base == DeclSpec(from)
      d == Declarator(base, base.n)
      ty == CASE d.n.k = "array" -> PointerTo(d.n.base) [] d.n.k = "func" -> PointerTo(d.n) [] OTHER -> d.n
  IN  IF Is(s, ")") THEN Give(s, [params |-> ps, variadic |-> ps = <<>>])
      ELSE IF Is(from, "...") THEN Give(Over(from, 1), [params |-> ps, variadic |-> TRUE])
      ELSE Params(d, Append(ps, [name |-> d.name, ty |-> ty]))
FuncParams(s, ret) ==
  IF Is(s, "void") /\ NextIs(s, ")") THEN Give(Over(s, 2), FuncType(ret, <<>>, FALSE))
  ELSE LET r == Params(s, <<>>) IN Give(Skip(r, ")"), FuncType(ret, r.n.params, r.n.variadic))

(* is_const_expr and eval2: 64-bit patterns.  A cast to a type of four     *)
(* bytes gives an unsigned value whatever the type: in "u ? (uint32_t)val  *)
(* : (int32_t)val" both arms are converted to uint32_t.  Eval gives the    *)
(* value and the label it is relative to, "" for none.                     *)
Extended(v, from, u) == (IF u THEN v % Span(from) ELSE Signed(v % Span(from), from)) % Span(8)
Truth(p) == IF p THEN 1 ELSE 0
RECURSIVE Eval(_)
RECURSIVE EvalRval(_)
Eval(n) ==
  LET l == Eval(n.l)  r == Eval(n.r).v
      plain(v) == [v |-> v % Span(8), label |-> ""]
      moved(e, by) == [e EXCEPT !.v = (@ + by) % Span(8)]
      isZero(e) == Eval(e).v = 0
  IN  CASE n.k = "num" -> plain(n.v)
        [] n.k = "bin" /\ n.op = "add" -> moved(l, r)
        [] n.k = "bin" /\ n.op = "sub" -> moved(l, -r)
        [] n.k = "bin" /\ n.op \in {"div", "mod"} -> plain(Calc(n.op, l.v, r, 8, n.ty.u))
        [] n.k = "bin" /\ n.op = "shr" -> plain(Calc("shr", l.v, r, 8, n.ty.u /\ n.ty.sz = 8))
        [] n.k = "bin" /\ n.op \in {"lt", "le"} -> plain(Calc(n.op, l.v, r, 8, n.l.ty.u))
        [] n.k = "bin" /\ n.op \in {"mul", "and", "or", "xor", "shl", "eq", "ne"} ->
             plain(Calc(n.op, l.v, r, 8, FALSE))
        [] n.k = "neg" -> plain(-l.v)
        [] n.k = "not" -> plain(Truth(isZero(n.l)))
        [] n.k = "bitnot" -> plain(-1 - l.v)
        [] n.k = "logand" -> plain(Truth(~ isZero(n.l) /\ ~ isZero(n.r)))
        [] n.k = "logor" -> plain(Truth(~ isZero(n.l) \/ ~ isZero(n.r)))
        [] n.k = "cond" -> IF isZero(n.c) THEN Eval(n.r) ELSE Eval(n.l)
        [] n.k = "comma" -> Eval(n.r)
        [] n.k = "cast" -> IF IsInteger(n.ty) /\ n.ty.sz < 8
                           THEN [l EXCEPT !.v = Extended(@, n.ty.sz, n.ty.sz = 4 \/ n.ty.u)] ELSE l
        [] n.k = "addr" -> EvalRval(n.l)
        [] n.k = "member" -> moved(EvalRval(n.l), n.m.off)
        [] n.k = "var" -> [v |-> 0, label |-> n.v.name]
EvalRval(n) ==
  CASE n.k = "var" -> [v |-> 0, label |-> n.v.name]
    [] n.k = "deref" -> Eval(n.l)
    [] n.k = "member" -> [EvalRval(n.l) EXCEPT !.v = (@ + n.m.off) % Span(8)]
IntOf(v) == Signed(v % Span(4), 4)
RECURSIVE IsConst(_)
IsConst(n) ==
  CASE n.k = "num" -> TRUE
    [] n.k = "bin" -> n.op # "mod" /\ IsConst(n.l) /\ IsConst(n.r)
    [] n.k \in {"logand", "logor"} -> IsConst(n.l) /\ IsConst(n.r)
    [] n.k = "cond" -> IsConst(n.c) /\ IsConst(IF Eval(n.c).v = 0 THEN n.r ELSE n.l)
    [] n.k = "comma" -> IsConst(n.r)
    [] n.k \in {"neg", "not", "bitnot", "cast"} -> IsConst(n.l)
    [] OTHER -> FALSE
ConstExpr(s) == LET r == Conditional(s) IN Give(r, IntOf(Eval(r.n).v))

(* array_dimensions and type_suffix.  A length of -1 is missing.           *)
ArrayDimensions(s, ty) ==
  IF Is(s, "]") THEN LET r == TypeSuffix(Over(s, 1), ty) IN Give(r, ArrayOf(r.n, -1))
  ELSE LET e == Conditional(s)
           r == TypeSuffix(Skip(e, "]"), ty)
       IN  Give(r, IF r.n.k = "vla" \/ ~ IsConst(e.n) THEN VlaOf(r.n, e.n) ELSE ArrayOf(r.n, IntOf(Eval(e.n).v)))
TypeSuffixRule(s) ==
  CASE Is(s, "(") -> FuncParams(Over(s, 1), s.n)
    [] Is(s, "[") -> LET w == SelectInSubSeq(s.t, s.i + 1, Len(s.t), LAMBDA x : x \notin {<<"static">>, <<"restrict">>})
                     IN  ArrayDimensions([s EXCEPT !.i = w], s.n)
    [] OTHER -> s

RECURSIVE Pointers(_, _)
Pointers(s, ty) ==
  IF ~ Is(s, "*") THEN Give(s, ty)
  ELSE LET w == SelectInSubSeq(s.t, s.i + 1, Len(s.t), LAMBDA x : x[1] \notin Ignored)
       IN  Pointers([s EXCEPT !.i = w], PointerTo(ty))

(* declarator and abstract_declarator: a parenthesised declarator is read  *)
(* twice, first with a dummy to find what follows it.                      *)
DeclaratorRule(s) ==
  LET p == Pointers(s, s.n)
  IN  IF Is(p, "(")
      THEN LET dummy == Declarator(Over(p, 1), TVoid)
               outer == TypeSuffix(Skip(dummy, ")"), p.n)
               inner == Declarator([outer EXCEPT !.i = p.i + 1], outer.n)
           IN  [inner EXCEPT !.i = outer.i]
      ELSE LET id == IF IsIdent(p) THEN Tok(p)[2] ELSE ""
               r == TypeSuffix(IF id = "" THEN p ELSE Over(p, 1), p.n)
           IN  [r EXCEPT !.name = id]
TypeNameRule(s) == LET base == DeclSpec(s) IN Declarator(base, base.n)
-----------------------------------------------------------------------------
IsEnd(s) == Is(s, "}") \/ (Is(s, ",") /\ NextIs(s, "}"))
PastEnd(s) == Over(s, IF Is(s, "}") THEN 1 ELSE 2)
Further(s, first) == IF first THEN s ELSE Skip(s, ",")

RECURSIVE EnumList(_, _, _)
EnumList(s, val, first) ==
  LET id == Further(s, first)
      after == Over(id, 1)
      given == ConstExpr(Over(after, 1))
      bound(r, v) == EnumList(Bind(r, "vars", Tok(id)[2], [enum |-> v]), v + 1, FALSE)
  IN  IF IsEnd(s) THEN PastEnd(s) ELSE IF Is(after, "=") THEN bound(given, given.n) ELSE bound(after, val)
EnumSpecifier(s) ==
  LET in == IF IsIdent(s) THEN Over(s, 1) ELSE s
      r == EnumList(Skip(in, "{"), 0, TRUE)
  IN  CASE ~ IsIdent(s) -> Give(r, TEnum)
        [] IsIdent(s) /\ Is(in, "{") -> Give(Bind(r, "tags", Tok(s)[2], TEnum), TEnum)
        [] OTHER -> Give(in, Lookup(s, "tags", Tok(s)[2])[1])

TypeofSpecifier(s) ==
  LET in == Skip(s, "(")
      e == CommaExpr(in)
  IN  Skip(IF IsTypename(in) THEN TypeName(in) ELSE Give(e, e.ty), ")")

(* struct_members, attribute_list and struct_union_decl.                   *)
RECURSIVE MemberList(_, _, _, _)
MemberList(s, base, ms, first) ==
  LET d == Declarator(Further(s, first), base)
      w == ConstExpr(Over(d, 1))
      member(width) == [name |-> d.name, ty |-> d.n, w |-> width,
                        al |-> IF s.attr.al # 0 THEN s.attr.al ELSE AlignOf(d.n)]
      back(r) == [r EXCEPT !.attr = s.attr]
  IN  IF Is(s, ";") THEN Give(Over(s, 1), ms)
      ELSE IF Is(d, ":") THEN MemberList(back(w), base, Append(ms, member(w.n)), FALSE)
      ELSE MemberList(back(d), base, Append(ms, member(-1)), FALSE)
RECURSIVE Members(_, _)
Members(s, ms) ==
  LET base == DeclSpec(s)
      anonymous == [name |-> "", ty |-> base.n, w |-> -1,
                    al |-> IF base.attr.al # 0 THEN base.attr.al ELSE AlignOf(base.n)]
      list == MemberList(base, base.n, ms, TRUE)
  IN  IF Is(s, "}") THEN Give(Over(s, 1), ms)
      ELSE IF IsRecord(base.n) /\ Is(base, ";") THEN Members(Over(base, 1), Append(ms, anonymous))
      ELSE Members(list, list.n)
RECURSIVE AttributeItems(_, _, _)
AttributeItems(s, a, first) ==
  LET at == Further(s, first)
      n == ConstExpr(Over(at, 2))
  IN  CASE Is(s, ")") -> Give(Over(s, 1), a)
        [] ~ Is(s, ")") /\ Is(at, "packed") -> AttributeItems(Over(at, 1), [a EXCEPT !.packed = TRUE], FALSE)
        [] ~ Is(s, ")") /\ Is(at, "aligned") -> AttributeItems(Skip(n, ")"), [a EXCEPT !.least = n.n], FALSE)
RECURSIVE Attributes(_, _)
Attributes(s, a) ==
  LET r == AttributeItems(Over(s, 3), a, TRUE)
  IN  IF Is(s, "__attribute__") THEN Attributes(Skip(r, ")"), r.n) ELSE Give(s, a)
StructDecl(s) ==
  LET before == Attributes(Over(s, 1), [packed |-> FALSE, least |-> 1])
      tagged == IsIdent(before)
      open == IF tagged THEN Over(before, 1) ELSE before
      ms == Members(Skip(open, "{"), <<>>)
      after == Attributes(ms, before.n)
      ty == IF Is(s, "struct") THEN StructOf(ms.n, Byte, after.n.packed, after.n.least)
            ELSE UnionOf(ms.n, after.n.least)
  IN  CASE tagged /\ ~ Is(open, "{") -> Give(open, Lookup(s, "tags", Tok(before)[2])[1])
        [] tagged /\ Is(open, "{") -> Give(Bind(after, "tags", Tok(before)[2], ty), ty)
        [] OTHER -> Give(after, ty)

(* declspec: the words so far, "other" once a struct, enum, typedef name   *)
(* or typeof has been read.  The type is in n.                             *)
RECURSIVE SpecWords(_, _)
SpecWords(s, words) ==
  LET w == Tok(s)[1]
      also(r) == SpecWords([r EXCEPT !.attr = s.attr], <<"other">>)
      base == Append(words, w)
  IN  CASE w \in StorageWords -> SpecWords([Over(s, 1) EXCEPT !.attr.words = @ \cup {w}], words)
        [] w \in Ignored -> SpecWords(Over(s, 1), words)
        [] w = "_Alignas" ->
             LET in == Over(s, 2)
                 r == IF IsTypename(in) THEN TypeName(in) ELSE ConstExpr(in)
                 al == IF IsTypename(in) THEN AlignOf(r.n) ELSE r.n
             IN  SpecWords([Skip(r, ")") EXCEPT !.attr = [s.attr EXCEPT !.al = al], !.n = s.n], words)
        [] w \in BaseWords -> SpecWords([Over(s, 1) EXCEPT !.n = BaseType(base)], base)
        [] words = <<>> /\ w \in {"struct", "union"} -> also(StructDecl(s))
        [] words = <<>> /\ w = "enum" -> also(EnumSpecifier(Over(s, 1)))
        [] words = <<>> /\ w = "typeof" -> also(TypeofSpecifier(Over(s, 1)))
        [] words = <<>> /\ TypedefName(s) ->
             also(Give(Over(s, 1), Lookup(s, "vars", Tok(s)[2])[1].type))
        [] OTHER -> s
DeclSpecRule(s) == SpecWords([s EXCEPT !.attr = [words |-> {}, al |-> 0], !.n = TInt], <<>>)
HasWord(s, w) == w \in s.attr.words
-----------------------------------------------------------------------------
(* Initializers: a tree of the object's shape.  flex: its array has no     *)
(* length yet; e: the expression for it, if any; mem: the union's member,  *)
(* 0 for none.                                                             *)
RECURSIVE NewInit(_, _)
NewInit(ty, flexible) ==
  LET init(flex, kids) == [ty |-> ty, flex |-> flex, e |-> <<>>, kids |-> kids, mem |-> 0]
  IN  CASE ty.k = "array" -> IF flexible /\ ty.len < 0 THEN init(TRUE, <<>>)
                             ELSE init(FALSE, Evaluated([i \in 1 .. ty.len |-> NewInit(ty.base, FALSE)]))
        [] IsRecord(ty) -> init(FALSE, Evaluated([i \in DOMAIN ty.members |-> NewInit(ty.members[i].ty, FALSE)]))
        [] OTHER -> init(FALSE, <<>>)
Sized(init, len) == NewInit(ArrayOf(init.ty.base, len), FALSE)
Kid(r, init, i) == Give(r, [init EXCEPT !.kids[i] = r.n])

RECURSIVE SkipExcess(_)
SkipExcess(s) == IF Is(s, "{") THEN Skip(SkipExcess(Over(s, 1)), "}") ELSE AssignExpr(s)

(* A wide string's bytes are already in the target's order, and are read   *)
(* here as integers of the host.                                           *)
Element(bytes, i, sz) ==
  LET unit == SubSeq(bytes, i * sz - sz + 1, i * sz)
      v == FoldLeft(LAMBDA n, b : n * Span(1) + b, 0, IF HostLittle THEN Reverse(unit) ELSE unit)
  IN  IF sz = 1 THEN Signed(v, 1) ELSE v
StringInit(s, init) ==
  LET sty == Tok(s)[3]
      j == IF init.flex THEN Sized(init, sty.len) ELSE init
      used == IF j.ty.len < sty.len THEN j.ty.len ELSE sty.len
      num(i) == Num(Element(Tok(s)[2], i, j.ty.base.sz), TInt)
  IN  Give(Over(s, 1), [j EXCEPT !.kids = Evaluated([i \in DOMAIN @ |->
                          IF i <= used THEN [@[i] EXCEPT !.e = <<num(i)>>] ELSE @[i]])])

ArrayDesignator(s) ==
  LET lo == ConstExpr(Over(s, 1))
      hi == IF Is(lo, "...") THEN ConstExpr(Over(lo, 1)) ELSE lo
  IN  Give(Skip(hi, "]"), [lo |-> lo.n + 1, hi |-> hi.n + 1])
StructDesignator(s, ty) ==                         \* the number of the member
  LET inner(m) == m.name = "" /\ m.ty.k = "struct"
      has(m) == IF inner(m) THEN MemberPath(m.ty, s.t[s.i + 1][2]) # <<>> ELSE m.name = s.t[s.i + 1][2]
      i == SelectInSeq(ty.members, has)
  IN  Give(IF inner(ty.members[i]) THEN s ELSE Over(s, 2), i)

RECURSIVE ArrayInit2(_, _, _)
RECURSIVE StructInit2(_, _, _, _)
RECURSIVE RangeDesignation(_, _, _, _)
RangeDesignation(s, init, lo, hi) ==               \* the initializer is read again for each element
  LET r == Designation(s, init.kids[lo])
      one == Kid(r, init, lo)
  IN  IF lo = hi THEN one ELSE RangeDesignation([one EXCEPT !.i = s.i], one.n, lo + 1, hi)
DesignationRule(s) ==
  LET init == s.n
      d == IF Is(s, "[") THEN ArrayDesignator(s) ELSE StructDesignator(s, init.ty)
      each == RangeDesignation(d, init, d.n.lo, d.n.hi)
      kid == Kid(Designation(d, init.kids[d.n]), init, d.n)
  IN  CASE Is(s, "[") -> ArrayInit2(each, each.n, d.n.lo)
        [] Is(s, ".") /\ init.ty.k = "struct" -> StructInit2(kid, [kid.n EXCEPT !.e = <<>>], d.n + 1, FALSE)
        [] Is(s, ".") /\ init.ty.k = "union" -> Give(kid, [kid.n EXCEPT !.mem = d.n])
        [] OTHER -> Initializer2(Consume(s, "="), init)

(* count_array_init_elements parses the whole list for its length.         *)
RECURSIVE CountElements(_, _, _, _, _)
CountElements(s, dummy, i, most, first) ==
  LET at == Further(s, first)
      d == ArrayDesignator(at)
      designated == Is(at, "[")
      r == IF designated THEN Designation(d, dummy) ELSE Initializer2(at, dummy)
      next == 1 + (IF designated THEN d.n.hi - 1 ELSE i)
  IN  IF IsEnd(s) THEN Give(s, most)
      ELSE CountElements(r, r.n, next, IF next > most THEN next ELSE most, FALSE)
Counted(s, init) ==                                \* init with its length, at the same token
  LET c == CountElements(s, NewInit(init.ty.base, TRUE), 0, 0, TRUE)
  IN  IF init.flex THEN [c EXCEPT !.i = s.i, !.n = Sized(init, c.n)] ELSE Give(s, init)

(* Lists in braces, and lists without, which stop at a designator.         *)
RECURSIVE ArrayInit1(_, _, _, _)
ArrayInit1(s, init, i, first) ==
  LET at == Further(s, first)
      d == ArrayDesignator(at)
      each == RangeDesignation(d, init, d.n.lo, d.n.hi)
      kid == Kid(Initializer2(at, init.kids[i]), init, i)
  IN  CASE IsEnd(s) -> Give(PastEnd(s), init)
        [] ~ IsEnd(s) /\ Is(at, "[") -> ArrayInit1(each, each.n, d.n.hi + 1, FALSE)
        [] ~ IsEnd(s) /\ ~ Is(at, "[") /\ i <= init.ty.len -> ArrayInit1(kid, kid.n, i + 1, FALSE)
        [] OTHER -> ArrayInit1(SkipExcess(at), init, i + 1, FALSE)
Bracket(s) == Is(s, "[") \/ Is(s, ".")
ArrayInit2(s, init, i) ==                          \* i elements are done
  LET at == Further(s, i = 0)
      kid == Kid(Initializer2(at, init.kids[i + 1]), init, i + 1)
  IN  IF i >= init.ty.len \/ IsEnd(s) \/ Bracket(at) THEN Give(s, init) ELSE ArrayInit2(kid, kid.n, i + 1)
RECURSIVE StructInit1(_, _, _, _)
StructInit1(s, init, i, first) ==
  LET at == Further(s, first)
      d == StructDesignator(at, init.ty)
      named == Kid(Designation(d, init.kids[d.n]), init, d.n)
      kid == Kid(Initializer2(at, init.kids[i]), init, i)
  IN  CASE IsEnd(s) -> Give(PastEnd(s), init)
        [] ~ IsEnd(s) /\ Is(at, ".") -> StructInit1(named, named.n, d.n + 1, FALSE)
        [] ~ IsEnd(s) /\ ~ Is(at, ".") /\ i <= Len(init.kids) -> StructInit1(kid, kid.n, i + 1, FALSE)
        [] OTHER -> StructInit1(SkipExcess(at), init, i, FALSE)
StructInit2(s, init, i, first) ==
  LET at == Further(s, first)
      kid == Kid(Initializer2(at, init.kids[i]), init, i)
  IN  IF i > Len(init.kids) \/ IsEnd(s) \/ Bracket(at) THEN Give(s, init)
      ELSE StructInit2(kid, kid.n, i + 1, FALSE)
UnionInit(s, init) ==
  LET d == StructDesignator(Over(s, 1), init.ty)
      named == Kid(Designation(d, init.kids[d.n]), init, d.n)
      first(at) == LET r == Kid(Initializer2(at, init.kids[1]), init, 1) IN Give(r, [r.n EXCEPT !.mem = 1])
  IN  CASE Is(s, "{") /\ NextIs(s, ".") -> Give(Skip(named, "}"), [named.n EXCEPT !.mem = d.n])
        [] Is(s, "{") /\ ~ NextIs(s, ".") -> Skip(Consume(first(Over(s, 1)), ","), "}")
        [] OTHER -> first(s)

InitializerRule(s) ==
  LET init == s.n
      e == AssignExpr(s)
      whole == Give(e, [init EXCEPT !.e = <<e.n>>])
      counted == Counted(IF Is(s, "{") THEN Over(s, 1) ELSE s, init)
  IN  CASE init.ty.k = "array" ->
             IF Tok(s)[1] = "str" THEN StringInit(s, init)
             ELSE IF Is(s, "{") THEN ArrayInit1(counted, counted.n, 1, TRUE) ELSE ArrayInit2(counted, counted.n, 0)
        [] init.ty.k = "struct" ->
             IF Is(s, "{") THEN StructInit1(Over(s, 1), init, 1, TRUE)
             ELSE IF e.n.ty.k = "struct" THEN whole ELSE StructInit2([e EXCEPT !.i = s.i], init, 1, TRUE)
        [] init.ty.k = "union" -> UnionInit(s, init)
        [] OTHER -> IF Is(s, "{") THEN Skip(Initializer2(Over(s, 1), init), "}") ELSE whole
Initializer(s, ty) == Initializer2(s, NewInit(ty, TRUE))

(* create_lvar_init: assignments to the parts of a local, at.              *)
RECURSIVE Assignments(_, _)
Assignments(init, at) ==
  LET all(part(_)) == FoldLeft(LAMBDA n, i : Comma(n, Assignments(init.kids[i], part(i))), NullExpr,
                               [i \in DOMAIN init.kids |-> i])
      mem == IF init.mem = 0 THEN 1 ELSE init.mem
  IN  CASE init.ty.k = "array" -> all(LAMBDA i : Deref(Binary(NewAdd(at, Num(i - 1, TInt)))))
        [] init.ty.k = "struct" /\ init.e = <<>> -> all(LAMBDA i : Member(at, init.ty.members[i]))
        [] init.ty.k = "union" -> Assignments(init.kids[mem], Member(at, init.ty.members[mem]))
        [] OTHER -> IF init.e = <<>> THEN NullExpr ELSE Assign(at, init.e[1])

(* lvar_initializer: a local v, declared as id, whose length may be new.   *)
LocalInit(s, id, v) ==
  LET r == Initializer(s, v.ty)
      now == [v EXCEPT !.ty = r.n.ty]
      known == [Bind(r, "vars", id, [var |-> now]) EXCEPT
                  !.locals[SelectInSeq(r.locals, LAMBDA x : x.name = v.name)] = now]
      zero == [k |-> "memzero", v |-> now, ty |-> TVoid]
  IN  Give(known, Comma(zero, Assignments(r.n, Var(now))))

(* write_gvar_data: the bytes of a global and the addresses in them.       *)
RECURSIVE WriteData(_, _, _)
WriteData(acc, init, at) ==
  LET each(to, part(_)) == FoldLeft(LAMBDA a, i : WriteData(a, init.kids[i], at + part(i)), acc, [i \in 1 .. to |-> i])
      ms == init.ty.members
      member(a, i) ==
        LET unit == ReadAt(a.buf, at + ms[i].off, ms[i].ty.sz)
            v == Eval(init.kids[i].e[1]).v % 2 ^ ms[i].w
        IN  IF ms[i].w = -1 THEN WriteData(a, init.kids[i], at + ms[i].off)
            ELSE [a EXCEPT !.buf = WriteAt(@, at + ms[i].off, ms[i].ty.sz, unit | (v * 2 ^ ms[i].lo))]
      stop == SelectInSeq([i \in DOMAIN ms |-> i], LAMBDA i : ms[i].w >= 0 /\ init.kids[i].e = <<>>)
      e == Eval(init.e[1])
  IN  CASE init.ty.k = "array" -> each(init.ty.len, LAMBDA i : (i - 1) * init.ty.base.sz)
        [] init.ty.k = "struct" ->
             FoldLeft(member, acc, [i \in 1 .. (IF stop = 0 THEN Len(ms) ELSE stop - 1) |-> i])
        [] init.ty.k = "union" ->
             IF init.mem = 0 THEN acc ELSE WriteData(acc, init.kids[init.mem], at)
        [] OTHER ->
             IF init.e = <<>> THEN acc
             ELSE IF e.label # "" THEN [acc EXCEPT !.rel = Append(@, [at |-> at, label |-> e.label, addend |-> e.v])]
             ELSE [acc EXCEPT !.buf = WriteAt(@, at, init.ty.sz, e.v % Span(init.ty.sz))]
GlobalInit(s, id) ==
  LET k == SelectInSeq(s.globals, LAMBDA g : g.name = id)
      r == Initializer(s, s.globals[k].ty)
      w == WriteData([buf |-> [b \in 0 .. r.n.ty.sz - 1 |-> 0], rel |-> <<>>], r.n, 0)
      g == SelectInSeq(r.globals, LAMBDA x : x.name = id)
  IN  [r EXCEPT !.globals[g] = [@ EXCEPT !.ty = r.n.ty, !.rel = w.rel,
                                         !.data = Evaluated([b \in 1 .. r.n.ty.sz |-> w.buf[b - 1]])]]
-----------------------------------------------------------------------------
(* The binary operators, from the loosest to the tightest.                 *)
Operators == <<
  [ops |-> ("||" :> "logor")], [ops |-> ("&&" :> "logand")], [ops |-> ("|" :> "or")], [ops |-> ("^" :> "xor")],
  [ops |-> ("&" :> "and")], [ops |-> ("==" :> "eq") @@ ("!=" :> "ne")],
  [ops |-> ("<" :> "lt") @@ ("<=" :> "le") @@ (">" :> "gt") @@ (">=" :> "ge")],
  [ops |-> ("<<" :> "shl") @@ (">>" :> "shr")], [ops |-> ("+" :> "add") @@ ("-" :> "sub")],
  [ops |-> ("*" :> "mul") @@ ("/" :> "div") @@ ("%" :> "mod")] >>
Joined(op, l, r) ==
  CASE op \in {"logor", "logand"} -> Logical(op, l, r)
    [] op = "gt" -> Binary(Parts("lt", r, l))
    [] op = "ge" -> Binary(Parts("le", r, l))
    [] op = "add" -> Binary(NewAdd(l, r))
    [] op = "sub" -> Subtraction(l, r)
    [] OTHER -> Binary(Parts(op, l, r))
RECURSIVE Level(_, _)
RECURSIVE Chain(_, _)
Operand1(s, k) == IF k = Len(Operators) THEN CastExpr(s) ELSE Level(s, k + 1)
Chain(s, k) ==                                     \* the operands so far are in n
  LET ops == Operators[k].ops
      r == Operand1(Over(s, 1), k)
  IN  IF Tok(s)[1] \in DOMAIN ops THEN Chain(Give(r, Joined(ops[Tok(s)[1]], s.n, r.n)), k) ELSE s
Level(s, k) == Chain(Operand1(s, k), k)

ConditionalRule(s) ==
  LET c == Level(s, 1)
      v == NewLocal(c, "", c.n.ty)
      elvis == Conditional(Over(v, 2))
      a == CommaExpr(Over(c, 1))
      b == Conditional(Skip(a, ":"))
  IN  IF ~ Is(c, "?") THEN c
      ELSE IF NextIs(c, ":") THEN Give(elvis, Elvis(c.n, elvis.n, Newest(v)))
      ELSE Give(b, Cond(c.n, a.n, b.n))

(* A op= B, given the operator's parts: a temporary holds A's address.     *)
Assigned(s, parts) ==
  LET v == NewLocal(s, "", PointerTo(Object(parts.l).ty)) IN Give(v, ToAssign(parts, Newest(v)))
AssignOps ==
  ("*=" :> "mul") @@ ("/=" :> "div") @@ ("%=" :> "mod") @@ ("&=" :> "and") @@ ("|=" :> "or") @@ ("^=" :> "xor")
  @@ ("<<=" :> "shl") @@ (">>=" :> "shr")
AssignRule(s) ==
  LET l == Conditional(s)
      op == Tok(l)[1]
      r == AssignExpr(Over(l, 1))
  IN  CASE op = "=" -> Give(r, Assign(l.n, r.n))
        [] op = "+=" -> Assigned(r, NewAdd(l.n, r.n))
        [] op = "-=" -> Assigned(r, NewSub(l.n, r.n))
        [] op \in DOMAIN AssignOps -> Assigned(r, Parts(AssignOps[op], l.n, r.n))
        [] OTHER -> l
ExprRule(s) ==
  LET l == AssignExpr(s)
      r == CommaExpr(Over(l, 1))
  IN  IF Is(l, ",") THEN Give(r, Comma(l.n, r.n)) ELSE l

(* compute_vla_size: the type with a variable for each variable size in    *)
(* it, and the expression that sets them.                                  *)
ExprStmt(e) == [k |-> "expr", l |-> e]
BlockOf(mark, body) == [k |-> "block", mark |-> mark, body |-> body]
RECURSIVE VlaSize(_, _)
VlaSize(s, ty) ==
  LET b == VlaSize(s, ty.base)
      with == [ty EXCEPT !.base = b.n.ty]
      inner == Comma(NullExpr, b.n.e)
      v == NewLocal(b, "", TULong)
      unit == IF with.base.k = "vla" THEN Var(with.base.size[1]) ELSE Num(with.base.sz, TInt)
  IN  CASE ~ HasBase(ty) -> Give(s, [ty |-> ty, e |-> NullExpr])
        [] ty.k \in {"ptr", "array"} -> Give(b, [ty |-> with, e |-> inner])
        [] ty.k = "vla" ->
             Give(v, [ty |-> [with EXCEPT !.size = <<Newest(v)>>],
                      e |-> Comma(inner, Assign(Var(Newest(v)), Binary(Parts("mul", ty.len, unit))))])
NewAlloca(e) ==
  [k |-> "call", l |-> Var([name |-> "alloca", ty |-> FuncType(PointerTo(TVoid), <<[name |-> "", ty |-> TInt]>>, FALSE),
                            local |-> FALSE]),
   args |-> <<e>>, ty |-> PointerTo(TVoid)]

CompoundLiteral(s) ==                              \* at its initializer, with the type in n
  LET g == NewAnonGlobal(s, s.n)
      gi == GlobalInit(g, UniqueName(s))
      gv == gi.globals[SelectInSeq(gi.globals, LAMBDA x : x.name = UniqueName(s))]
      l == NewLocal(s, "", s.n)
      li == LocalInit(l, "", Newest(l))
      now == li.locals[SelectInSeq(li.locals, LAMBDA x : x.name = Newest(l).name)]
  IN  IF Len(s.scopes) = 1 THEN Give(gi, Var(GlobalVar(gv))) ELSE Give(li, Comma(li.n, Var(now)))
CastRule(s) ==
  LET ty == TypeName(Over(s, 1))
      after == Skip(ty, ")")
      e == CastExpr(after)
      sub == CastExpr(Over(s, 1))
      un == CastExpr(Over(s, 1))
      step(add(_, _)) == Assigned(un, add(un.n, Num(1, TInt)))
      w == Tok(s)[1]
  IN  CASE w = "(" /\ IsTypename(Over(s, 1)) ->
             IF Is(after, "{") THEN Postfix(s) ELSE Give(e, Cast(e.n, ty.n))
        [] w = "+" -> sub
        [] w = "-" -> Give(sub, Unary("neg", sub.n))
        [] w = "!" -> Give(sub, Unary("not", sub.n))
        [] w = "~" -> Give(sub, Unary("bitnot", sub.n))
        [] w = "&" -> Give(sub, Addr(sub.n))
        [] w = "*" -> Give(sub, Deref(sub.n))
        [] w = "++" -> step(NewAdd)
        [] w = "--" -> step(NewSub)
        [] OTHER -> Postfix(s)

RECURSIVE Arguments(_, _)
Arguments(s, args) ==
  LET r == AssignExpr(Further(s, args = <<>>))
  IN  IF Is(s, ")") THEN Give(Over(s, 1), args) ELSE Arguments(r, Append(args, r.n))
FunCall(s, f) ==
  LET r == Arguments(s, <<>>)
      call == Call(f, r.n)
      buf == NewLocal(r, "", call.ty)
  IN  IF IsRecord(call.ty) THEN Give(buf, call @@ [buf |-> Newest(buf)]) ELSE Give(r, call)
StructRef(e, id) == FoldLeft(Member, e, MemberPath(e.ty, id))

RECURSIVE Primary(_)
RECURSIVE PostfixTail(_)
PostfixTail(s) ==
  LET index == CommaExpr(Over(s, 1))
      member(e) == PostfixTail(Give(Over(s, 2), StructRef(e, s.t[s.i + 1][2])))
      step(by) == LET v == NewLocal(Over(s, 1), "", PointerTo(Object(s.n).ty))
                  IN  PostfixTail(Give(v, IncDec(s.n, by, Newest(v))))
  IN  CASE Is(s, "(") -> PostfixTail(FunCall(Over(s, 1), s.n))
        [] Is(s, "[") -> PostfixTail(Give(Skip(index, "]"), Deref(Binary(NewAdd(s.n, index.n)))))
        [] Is(s, ".") -> member(s.n)
        [] Is(s, "->") -> member(Deref(s.n))
        [] Is(s, "++") -> step(1)
        [] Is(s, "--") -> step(-1)
        [] OTHER -> s
PostfixRule(s) ==
  IF Is(s, "(") /\ IsTypename(Over(s, 1))
  THEN CompoundLiteral(Skip(TypeName(Over(s, 1)), ")"))
  ELSE PostfixTail(Primary(s))

(* generic_selection: the last association that fits; the default only     *)
(* when none has before it.                                                *)
RECURSIVE Associations(_, _, _)
Associations(s, t1, found) ==
  LET at == Skip(s, ",")
      def == AssignExpr(Over(at, 2))
      ty == TypeName(at)
      e == AssignExpr(Skip(ty, ":"))
  IN  IF Is(s, ")") THEN Give(Over(s, 1), found[1])
      ELSE IF Is(at, "default") THEN Associations(def, t1, IF found = <<>> THEN <<def.n>> ELSE found)
      ELSE Associations(e, t1, IF IsCompatible(t1, ty.n) THEN <<e.n>> ELSE found)
GenericSelection(s) ==
  LET c == AssignExpr(Skip(s, "("))
      t == c.n.ty
  IN  Associations(c, CASE t.k = "func" -> PointerTo(t) [] t.k = "array" -> PointerTo(t.base) [] OTHER -> t, <<>>)

SizeOf(s) ==                                       \* of the type or the expression
  LET ty == TypeName(Over(s, 2))
      v == VlaSize(Skip(ty, ")"), ty.n)
      e == CastExpr(Over(s, 1))
  IN  IF NextIs(s, "(") /\ IsTypename(Over(s, 2))
      THEN CASE ty.n.k # "vla" -> Give(Skip(ty, ")"), Num(ty.n.sz, TULong))
             [] ty.n.k = "vla" /\ ty.n.size # <<>> -> Give(Skip(ty, ")"), Var(ty.n.size[1]))
             [] OTHER -> Give(v, Comma(v.n.e, Var(v.n.ty.size[1])))
      ELSE Give(e, IF e.n.ty.k = "vla" THEN Var(e.n.ty.size[1]) ELSE Num(e.n.ty.sz, TULong))
AlignOfExpr(s) ==
  LET ty == TypeName(Over(s, 2))
      e == CastExpr(Over(s, 1))
  IN  IF NextIs(s, "(") /\ IsTypename(Over(s, 2)) THEN Give(Skip(ty, ")"), Num(AlignOf(ty.n), TULong))
      ELSE Give(e, Num(AlignOf(e.n.ty), TULong))
TypesCompatible(s) ==
  LET a == TypeName(Over(s, 2))
      b == TypeName(Skip(a, ","))
  IN  Give(Skip(b, ")"), Num(Truth(IsCompatible(a.n, b.n)), TInt))
RegClass(s) ==
  LET ty == TypeName(Over(s, 2))
  IN  Give(Skip(ty, ")"), Num(IF IsInteger(ty.n) \/ ty.n.k = "ptr" THEN 0 ELSE IF IsFlonum(ty.n) THEN 1 ELSE 2, TInt))

(* A name: a function's is noted in the function being parsed, or makes it *)
(* a root outside of every function.                                       *)
Named(s) ==
  LET x == Lookup(s, "vars", Tok(s)[2])[1]
      g == SelectInSeq(s.globals, LAMBDA k : k.name = (IF s.fn.name = "" THEN x.var.name ELSE s.fn.name))
      noted == IF s.fn.name = "" THEN [s EXCEPT !.globals[g].root = TRUE]
               ELSE [s EXCEPT !.globals[g].refs = @ \cup {x.var.name}]
  IN  IF "enum" \in DOMAIN x THEN Give(Over(s, 1), Num(x.enum, TInt))
      ELSE Give(Over(IF x.var.ty.k = "func" /\ ~ x.var.local THEN noted ELSE s, 1), Var(x.var))
Primary(s) ==
  LET w == Tok(s)[1]
      b == Block(Over(s, 2))
      last == b.n.body[Len(b.n.body)]
      e == CommaExpr(Over(s, 1))
      lit == NewStringLiteral(s, Tok(s)[2], Tok(s)[3])
  IN  CASE w = "(" /\ NextIs(s, "{") ->
             Give(Skip(b, ")"), [k |-> "stmtexpr", body |-> b.n.body, ty |-> last.l.ty])
        [] w = "(" /\ ~ NextIs(s, "{") -> Skip(e, ")")
        [] w = "sizeof" -> SizeOf(s)
        [] w = "_Alignof" -> AlignOfExpr(s)
        [] w = "_Generic" -> GenericSelection(Over(s, 1))
        [] w = "__builtin_types_compatible_p" -> TypesCompatible(s)
        [] w = "__builtin_reg_class" -> RegClass(s)
        [] w = "id" -> Named(s)
        [] w = "str" -> Give(Over(lit, 1), Var(GlobalVar(Head(lit.globals))))
        [] w = "num" -> Give(Over(s, 1), Num(Tok(s)[2], Tok(s)[3]))
-----------------------------------------------------------------------------
(* declaration: the statements of a block's declaration.                   *)
RECURSIVE Declared(_, _, _, _, _)
Declared(s, base, attr, body, first) ==
  LET d == Declarator(Further(s, first), base)
      anon == Bind(NewAnonGlobal(d, d.n), "vars", d.name, [var |-> GlobalVar(Global(UniqueName(d), d.n))])
      static == IF Is(d, "=") THEN GlobalInit(Over(anon, 1), UniqueName(d)) ELSE anon
      \* the new length of a static is known by its own name too
      ty == static.globals[SelectInSeq(static.globals, LAMBDA g : g.name = UniqueName(d))]
      v == VlaSize(d, d.n)
      sizes == Append(body, ExprStmt(v.n.e))
      l == NewLocal(v, d.name, v.n.ty)
      var == Newest(l)
      place == Assign([k |-> "vlaptr", v |-> var, ty |-> var.ty], NewAlloca(Var(v.n.ty.size[1])))
      init == LocalInit(Over(l, 1), d.name, var)
  IN  CASE Is(s, ";") -> Give(Over(s, 1), BlockOf(<<>>, body))
        [] ~ Is(s, ";") /\ "static" \in attr.words ->
             Declared(Bind(static, "vars", d.name, [var |-> GlobalVar(ty)]), base, attr, body, FALSE)
        [] ~ Is(s, ";") /\ "static" \notin attr.words /\ d.n.k = "vla" ->
             Declared([l EXCEPT !.vla = TRUE], base, attr, Append(sizes, ExprStmt(place)), FALSE)
        [] OTHER -> IF Is(l, "=") THEN Declared(init, base, attr, Append(sizes, ExprStmt(init.n)), FALSE)
                    ELSE Declared(l, base, attr, sizes, FALSE)
Declaration(s, base) == Declared(s, base, s.attr, <<>>, TRUE)

RECURSIVE Typedefs(_, _, _)
Typedefs(s, base, first) ==
  LET d == Declarator(Further(s, first), base)
  IN  IF Is(s, ";") THEN Over(s, 1) ELSE Typedefs(Bind(d, "vars", d.name, [type |-> d.n]), base, FALSE)
RECURSIVE GlobalVariables(_, _, _, _)
GlobalVariables(s, base, attr, first) ==
  LET d == Declarator(Further(s, first), base)
      extern == "extern" \in attr.words
      g == [Global(d.name, d.n) EXCEPT !.def = ~ extern, !.static = "static" \in attr.words,
                                       !.tentative = ~ Is(d, "=") /\ ~ extern]
      made == [NewGlobal(d, d.name, d.n) EXCEPT !.globals[1] = g]
      init == GlobalInit(Over(made, 1), d.name)
      known == init.globals[SelectInSeq(init.globals, LAMBDA x : x.name = d.name)]
  IN  IF Is(s, ";") THEN Over(s, 1)
      ELSE IF Is(d, "=")
      THEN GlobalVariables(Bind(init, "vars", d.name, [var |-> GlobalVar(known)]), base, attr, FALSE)
      ELSE GlobalVariables(made, base, attr, FALSE)

(* compound_stmt, past its opening brace.                                  *)
RECURSIVE BlockItems(_, _)
BlockItems(s, body) ==
  LET base == DeclSpec(s)
      d == Declaration(base, base.n)
      st == Statement(s)
  IN  CASE Is(s, "}") -> Give(Over(s, 1), body)
        [] ~ Is(s, "}") /\ IsTypename(s) /\ ~ NextIs(s, ":") ->
             (CASE HasWord(base, "typedef") -> BlockItems(Typedefs(base, base.n, TRUE), body)
                [] ~ HasWord(base, "typedef") /\ FunctionAhead(base) -> BlockItems(FunctionDecl(base, base.n), body)
                [] ~ HasWord(base, "typedef") /\ ~ FunctionAhead(base) /\ HasWord(base, "extern") ->
                     BlockItems(GlobalVariables(base, base.n, base.attr, TRUE), body)
                [] OTHER -> BlockItems(d, Append(body, d.n)))
        [] OTHER -> BlockItems(st, Append(body, st.n))
BlockRule(s) ==
  LET r == BlockItems(Enter([s EXCEPT !.vla = FALSE]), <<>>)
      out == [Leave(r) EXCEPT !.vla = s.vla]
      marked == NewLocal(out, "", PointerTo(TChar))
  IN  IF r.vla THEN Give(marked, BlockOf(<<Newest(marked)>>, r.n)) ELSE Give(out, BlockOf(<<>>, r.n))

(* Statements.  A loop's or a switch's targets are the globals brk and     *)
(* cont, put back after its body.  Labels are unique within a function, so *)
(* a goto names its label at once (resolve_goto_labels does it at the end).*)
LabelOf(s, id) == "L_" \o s.fn.name \o "." \o id
Target(s) == UniqueName(s)
Loop(s) == Fresh(Fresh([s EXCEPT !.brk = UniqueName(s), !.cont = UniqueName(Fresh(s))]))
Looped(r, s) == [r EXCEPT !.brk = s.brk, !.cont = s.cont]
NoStmt == [k |-> "null"]

ReturnStmt(s) ==
  LET e == CommaExpr(Over(s, 1))
  IN  IF NextIs(s, ";") THEN Give(Over(s, 2), [k |-> "return", l |-> NullExpr])
      ELSE Give(Skip(e, ";"), [k |-> "return", l |-> IF IsRecord(s.fn.ret) THEN e.n ELSE Cast(e.n, s.fn.ret)])
IfStmt(s) ==
  LET c == CommaExpr(Over(s, 2))
      t == Statement(Skip(c, ")"))
      e == Statement(Over(t, 1))
  IN  IF Is(t, "else") THEN Give(e, [k |-> "if", c |-> c.n, then |-> t.n, els |-> e.n])
      ELSE Give(t, [k |-> "if", c |-> c.n, then |-> t.n, els |-> NoStmt])
SwitchStmt(s) ==
  LET c == CommaExpr(Over(s, 2))
      b == Statement(Fresh([Skip(c, ")") EXCEPT !.sw = [cases |-> <<>>, default |-> <<>>], !.brk = UniqueName(c)]))
  IN  Give([b EXCEPT !.sw = s.sw, !.brk = s.brk],
           [k |-> "switch", c |-> c.n, cases |-> b.sw.cases, default |-> b.sw.default, then |-> b.n,
            brk |-> UniqueName(c)])
CaseStmt(s) ==
  LET lo == ConstExpr(Over(s, 1))
      hi == IF Is(lo, "...") THEN ConstExpr(Over(lo, 1)) ELSE lo
      b == Statement(Fresh(Skip(hi, ":")))
  IN  Give([b EXCEPT !.sw.cases = <<[lo |-> lo.n, hi |-> hi.n, label |-> UniqueName(hi)]>> \o @],
           [k |-> "case", label |-> UniqueName(hi), l |-> b.n])
DefaultStmt(s) ==
  LET b == Statement(Fresh(Over(s, 2)))
  IN  Give([b EXCEPT !.sw.default = <<UniqueName(s)>>], [k |-> "case", label |-> UniqueName(s), l |-> b.n])
ForStmt(s) ==
  LET in == Loop(Enter(Over(s, 2)))
      base == DeclSpec(in)
      plain == [base.attr EXCEPT !.words = {}]
      i == IF IsTypename(in) THEN Declared(base, base.n, plain, <<>>, TRUE) ELSE Statement(in)
      c == IF Is(i, ";") THEN Give(i, NullExpr) ELSE CommaExpr(i)
      at == Skip(c, ";")
      n == IF Is(at, ")") THEN Give(at, NullExpr) ELSE CommaExpr(at)
      b == Statement(Skip(n, ")"))
  IN  Give(Looped(Leave(b), s), [k |-> "for", init |-> i.n, c |-> c.n, inc |-> n.n, then |-> b.n,
                                brk |-> in.brk, cont |-> in.cont])
WhileStmt(s) ==
  LET c == CommaExpr(Over(s, 2))
      in == Loop(Skip(c, ")"))
      b == Statement(in)
  IN  Give(Looped(b, s), [k |-> "for", init |-> NoStmt, c |-> c.n, inc |-> NullExpr, then |-> b.n,
                          brk |-> in.brk, cont |-> in.cont])
DoStmt(s) ==
  LET in == Loop(Over(s, 1))
      b == Statement(in)
      c == CommaExpr(Over(Skip(Looped(b, s), "while"), 1))
  IN  Give(Skip(Skip(c, ")"), ";"), [k |-> "do", c |-> c.n, then |-> b.n, brk |-> in.brk, cont |-> in.cont])
Goto(s, label, k) == Give(Over(s, k), [k |-> "goto", label |-> label])
StatementRule(s) ==
  LET w == Tok(s)[1]
      e == CommaExpr(s)
      l == Statement(Over(s, 2))
  IN  CASE w = "return" -> ReturnStmt(s)
        [] w = "if" -> IfStmt(s)
        [] w = "switch" -> SwitchStmt(s)
        [] w = "case" -> CaseStmt(s)
        [] w = "default" -> DefaultStmt(s)
        [] w = "for" -> ForStmt(s)
        [] w = "while" -> WhileStmt(s)
        [] w = "do" -> DoStmt(s)
        [] w = "goto" -> Goto(s, LabelOf(s, s.t[s.i + 1][2]), 3)
        [] w = "break" -> Goto(s, s.brk, 2)
        [] w = "continue" -> Goto(s, s.cont, 2)
        [] w = "id" /\ NextIs(s, ":") -> Give(l, [k |-> "label", label |-> LabelOf(s, Tok(s)[2]), l |-> l.n])
        [] w = "{" -> Block(Over(s, 1))
        [] w = ";" -> Give(Over(s, 1), BlockOf(<<>>, <<>>))
        [] OTHER -> Give(Skip(e, ";"), ExprStmt(e.n))
-----------------------------------------------------------------------------
(* function: a declaration or a definition.  A name declared before keeps  *)
(* the type of its first declaration.                                      *)
OuterVar(s, id) ==
  LET vars == s.scopes[Len(s.scopes)].vars
  IN  IF id \in DOMAIN vars /\ "var" \in DOMAIN vars[id] /\ vars[id].var.ty.k = "func" THEN {id} ELSE {}
RECURSIVE ParamLocals(_, _)
ParamLocals(s, ps) ==                              \* the last parameter first
  IF ps = <<>> THEN s ELSE LET p == ps[Len(ps)] IN ParamLocals(NewLocal(s, p.name, p.ty), SubSeq(ps, 1, Len(ps) - 1))
FunctionRule(s) ==
  LET d == Declarator(s, s.n)
      body == Is(d, "{")
      index(r) == SelectInSeq(r.globals, LAMBDA g : g.name = d.name /\ g.ty.k = "func")
      words == s.attr.words
      new == [NewGlobal(d, d.name, d.n) EXCEPT
                !.globals[1] = [@ EXCEPT !.def = body, !.inline = "inline" \in words,
                                         !.static = "static" \in words \/ ("inline" \in words /\ "extern" \notin words)]]
      known == IF OuterVar(s, d.name) = {} THEN new ELSE [d EXCEPT !.globals[index(d)].def = @ \/ body]
      fn == [known EXCEPT !.globals[index(known)].root = ~ (known.globals[index(known)].static
                                                            /\ known.globals[index(known)].inline)]
      in == ParamLocals(Enter([fn EXCEPT !.locals = <<>>, !.fn = [name |-> d.name, ret |-> fn.globals[index(fn)].ty.ret]]),
                        d.n.params)
      area == IF d.n.variadic THEN NewNamed(in, "__va_area__", ArrayOf(TChar, VaArea)) ELSE in
      b == Block(Over(NewNamed(area, "__alloca_size__", PointerTo(TChar)), 1))
  IN  IF ~ body THEN Skip(fn, ";")
      ELSE [Leave(b) EXCEPT !.globals[index(b)] =
              [@ EXCEPT !.params = in.locals, !.variadic = d.n.variadic, !.body = b.n,
                        !.locals = SubSeq(b.locals, 1, Len(b.locals) - Len(in.locals))]]

(* parse: the declarations of a file.                                    *)
TopLevelRule(s) ==
  LET base == DeclSpec(s)
  IN  CASE Is(s, "eof") -> s
        [] ~ Is(s, "eof") /\ HasWord(base, "typedef") -> TopLevel(Typedefs(base, base.n, TRUE))
        [] ~ Is(s, "eof") /\ ~ HasWord(base, "typedef") /\ FunctionAhead(base) ->
             TopLevel(FunctionDecl(base, base.n))
        [] OTHER -> TopLevel(GlobalVariables(base, base.n, base.attr, TRUE))

Parse(rule, s) ==
  CASE rule = "cast" -> CastRule(s)
    [] rule = "postfix" -> PostfixRule(s)
    [] rule = "conditional" -> ConditionalRule(s)
    [] rule = "assign" -> AssignRule(s)
    [] rule = "expr" -> ExprRule(s)
    [] rule = "stmt" -> StatementRule(s)
    [] rule = "block" -> BlockRule(s)
    [] rule = "declspec" -> DeclSpecRule(s)
    [] rule = "declarator" -> DeclaratorRule(s)
    [] rule = "suffix" -> TypeSuffixRule(s)
    [] rule = "typename" -> TypeNameRule(s)
    [] rule = "initializer" -> InitializerRule(s)
    [] rule = "designation" -> DesignationRule(s)
    [] rule = "function" -> FunctionRule(s)
    [] rule = "top" -> TopLevelRule(s)

(* mark_live and scan_globals, once everything has been parsed.            *)
RECURSIVE LiveFrom(_, _)
LiveFrom(globals, live) ==                         \* names of functions
  LET more == {globals[i].name : i \in {k \in DOMAIN globals :
                 LET g == globals[k]
                 IN  IsFunction(g) /\ (g.root \/ \E f \in Range(globals) : f.name \in live /\ g.name \in f.refs)}}
  IN  IF more \subseteq live THEN live ELSE LiveFrom(globals, live \cup more)
Kept(globals) ==                                   \* drops a tentative definition when there is another
  LET redundant(i) == globals[i].tentative /\ \E j \in DOMAIN globals \ {i} :
                        globals[j].def /\ globals[j].name = globals[i].name
  IN  FoldLeft(LAMBDA q, i : IF redundant(i) THEN q ELSE Append(q, globals[i]), <<>>, [i \in DOMAIN globals |-> i])

Builtins(s) ==
  Bind(s, "vars", "alloca", [var |-> NewAlloca(NullExpr).l.v])
Parsed(tokens) ==                                  \* the globals, newest first, and the names of the live functions
  LET globals == TopLevel(Builtins(Started(tokens))).globals
  IN  [globals |-> Kept(globals), live |-> LiveFrom(globals, {})]
=============================================================================
