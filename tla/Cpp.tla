-------------------------------- MODULE Cpp --------------------------------
(***************************************************************************)
(* What preprocessing means, stated without the devices of the code:       *)
(* lines with a stack of nested conditionals, files read anew each time,   *)
(* and macro expansion in the words of the C standard, where a name is not *)
(* replaced while its own replacement is being rescanned.                  *)
(***************************************************************************)
EXTENDS Macros

CONSTANT Dirs  \* the include path, in order

(* Items to rescan: tokens, some of them marked as never to be replaced,   *)
(* and marks where the replacement of a macro ends.                        *)
Item(tok) == [t |-> tok.t, k |-> tok.k, sp |-> tok.sp, ln |-> tok.ln, no |-> FALSE]
EndOf(name) == [t |-> name, k |-> "end", sp |-> FALSE, ln |-> 0, no |-> FALSE]
IsEnd(item) == item.k = "end"
Items(toks) == [i \in DOMAIN toks |-> Item(toks[i])]
Active(items) == {items[i].t : i \in {j \in DOMAIN items : IsEnd(items[j])}}
Marked(items, i) == [items[i] EXCEPT !.no = @ \/ items[i].t \in Active(Drop(items, i))]
Tokens(items) == SelectSeq(items, LAMBDA item : ~ IsEnd(item))

(* Where the invocation that starts in front of items ends, and where its  *)
(* arguments are cut: the positions at parenthesis level 1 of ( , and ).   *)
Level(items, i) ==
  LET count(text) == Cardinality({j \in 1 .. i : ~ IsEnd(items[j]) /\ Is(items, j, text)})
  IN  count("(") - count(")")
Opens(items) == \E i \in DOMAIN items : Is(items, i, "(") /\ \A j \in 1 .. i - 1 : IsEnd(items[j])
Closing(items) ==
  LET ends == {i \in DOMAIN items : Is(items, i, ")") /\ Level(items, i) = 0}
  IN  IF ends = {} THEN 0 ELSE CHOOSE i \in ends : \A j \in ends : i <= j
Cuts(items, n) ==
  {i \in 1 .. n : \/ i = n
                  \/ Is(items, i, "(") /\ Level(items, i) = 1 /\ Level(items, i - 1) = 0
                  \/ Is(items, i, ",") /\ Level(items, i) = 1}
Nth(S, n) == CHOOSE i \in S : Cardinality({j \in S : j < i}) = n - 1
Piece(items, from, to) ==
  Tokens([i \in 1 .. to - from - 1 |-> Marked(items, from + i)])

(* The arguments, or NoArgs if their number does not fit.                  *)
Arguments(items, params, va) ==
  LET n == Closing(items)
      cuts == Cuts(items, n)
      given == Cardinality(cuts) - 1
      wanted == Len(params)
      piece(i) == Piece(items, Nth(cuts, i), Nth(cuts, i + 1))
      fixed == [p \in ToSet(params) |-> piece(CHOOSE i \in DOMAIN params : params[i] = p)]
      empty == wanted = 0 /\ given = 1 /\ piece(1) = << >>
  IN  IF n = 0 THEN NoArgs
      ELSE IF va = "" THEN IF given = wanted \/ empty THEN [ok |-> TRUE, args |-> fixed] ELSE NoArgs
      ELSE IF given < wanted THEN NoArgs
      ELSE [ok |-> TRUE,
            args |-> (va :> IF given = wanted \/ empty THEN << >>
                            ELSE Piece(items, Nth(cuts, wanted + 1), n)) @@ fixed]
-----------------------------------------------------------------------------
RECURSIVE Rescanned(_, _)

(* Replacement: operands of ## are spelled out, a placemarker standing for *)
(* an empty one; other parameters are replaced by their expanded argument; *)
(* then # and ## are applied and the placemarkers go.                      *)
Placemarker == [EndOf("placemarker") EXCEPT !.k = "none"]
JoinMark == [EndOf("##") EXCEPT !.k = "join"]
Joined(a, b) == IF a.k = "none" THEN b ELSE IF b.k = "none" THEN a ELSE Item(Paste(a, b))
RECURSIVE WithOptions(_, _)
WithOptions(body, has) ==
  LET n == Closing(Tail(body)) + 1
  IN  IF body = << >> THEN body
      ELSE IF Is(body, 1, "__VA_OPT__") /\ Is(body, 2, "(")
      THEN (IF has THEN SubSeq(body, 3, n - 1) ELSE << >>) \o WithOptions(Drop(body, n), has)
      ELSE <<Head(body)>> \o WithOptions(Tail(body), has)
Substituted(body, args, va, macros) ==
  LET operand(i) == (i > 1 /\ Is(body, i - 1, "##")) \/ Is(body, i + 1, "##")
      gnu(i) == i > 2 /\ Is(body, i - 1, "##") /\ Is(body, i - 2, ",") /\ body[i].t = va
      param(i) == i <= Len(body) /\ body[i].t \in DOMAIN args
      none(toks) == IF toks = << >> THEN <<Placemarker>> ELSE toks
      spelled(i) ==
        CASE Is(body, i, "#") -> <<Item(Stringized(args[body[i + 1].t]))>>
          [] i > 1 /\ Is(body, i - 1, "#") -> << >>
          [] Is(body, i, "##") -> IF gnu(i + 1) THEN << >> ELSE <<JoinMark>>
          [] Is(body, i, ",") /\ Is(body, i + 1, "##") /\ param(i + 2) /\ gnu(i + 2) ->
               IF args[va] = << >> THEN << >> ELSE <<Item(body[i])>>
          [] param(i) /\ operand(i) /\ ~ gnu(i) -> none(args[body[i].t])
          [] param(i) -> Rescanned(args[body[i].t], macros)
          [] OTHER -> <<Item(body[i])>>
      join(done, item) ==
        IF done # << >> /\ Last(done).k = "join"
        THEN Append(SubSeq(done, 1, Len(done) - 2), Joined(done[Len(done) - 1], item))
        ELSE Append(done, item)
  IN  FoldLeft(join, << >>, FlattenSeq([i \in DOMAIN body |-> spelled(i)]))
OnLine(items, ln) == [i \in DOMAIN items |-> [items[i] EXCEPT !.ln = ln]]
Replacement(m, args, macros, ln) ==
  LET body == WithOptions(m.body, m.va # "" /\ args[m.va] # << >>)
  IN  OnLine(SelectSeq(Substituted(body, args, m.va, macros), LAMBDA x : x.k # "none"), ln)

Applied(h, m, read, more, macros) ==
  IF ~ read.ok THEN <<Item(Bad)>>
  ELSE Rescanned(Replacement(m, read.args, macros, h.ln) \o <<EndOf(h.t)>>
                   \o Drop(more, Closing(more)), macros)
Rescanned(items, macros) ==
  LET h == Marked(items, 1)
      more == Tail(items)
      m == macros[h.t]
  IN  CASE items = << >> -> << >>
        [] items # << >> /\ IsEnd(h) -> Rescanned(more, macros)
        [] items # << >> /\ ~ IsEnd(h) ->
             IF h.no \/ h.k # "id" \/ h.t \notin DOMAIN macros
             THEN <<h>> \o Rescanned(more, macros)
             ELSE IF m.kind = "line"
             THEN <<Item(Tok(ToString(h.ln), "num"))>> \o Rescanned(more, macros)
             ELSE IF m.kind = "obj"
             THEN Rescanned(OnLine(Items(m.body), h.ln) \o <<EndOf(h.t)>> \o more, macros)
             ELSE IF ~ Opens(more) THEN <<h>> \o Rescanned(more, macros)
             ELSE Applied(h, m, Arguments(more, m.params, m.va), more, macros)

Texts(items) == [i \in DOMAIN items |-> items[i].t]
-----------------------------------------------------------------------------
(* The value of a controlling expression: defined first, then macros, then *)
(* the names that are left count as 0.                                     *)
RECURSIVE DefinedFirst(_, _)
DefinedFirst(toks, macros) ==
  LET p == IF Is(toks, 2, "(") THEN 1 ELSE 0
      bit == Tok(IF toks[2 + p].t \in DOMAIN macros THEN "1" ELSE "0", "num")
  IN  IF toks = << >> THEN << >>
      ELSE IF Is(toks, 1, "defined") THEN <<bit>> \o DefinedFirst(Drop(toks, 2 + 2 * p), macros)
      ELSE <<Head(toks)>> \o DefinedFirst(Tail(toks), macros)
IsTrue(e) ==
  IF Head(e).t = "!" THEN e[2].t = "0" \/ e[2].k = "id" ELSE e[1].t # "0" /\ e[1].k # "id"
Holds(toks, macros) == IsTrue(Rescanned(Items(DefinedFirst(toks, macros)), macros))

(* Files are functions from paths, a directory and a name, to their lines. *)
LinesOf(files, path) ==
  [n \in DOMAIN files[path] |-> [toks |-> files[path][n], n |-> n, f |-> path]]
FirstOf(files, dirs, name) ==
  LET has == {i \in DOMAIN dirs : <<dirs[i], name>> \in DOMAIN files}
  IN  IF has = {} THEN << >> ELSE <<dirs[CHOOSE i \in has : \A j \in has : i <= j], name>>

(* Meaning takes the first line; text is the text since the last directive,*)
(* which is rescanned when the next one comes.                             *)
Failure == <<"error">>
Define(toks) ==
  LET name == toks[3].t
      like == Is(toks, 4, "(") /\ ~ toks[4].sp
      close == CHOOSE i \in DOMAIN toks : Is(toks, i, ")") /\ \A j \in 1 .. i - 1 : ~ Is(toks, j, ")")
      named == SelectSeq(SubSeq(toks, 5, close - 1), LAMBDA tok : tok.k = "id")
      va == IF Is(toks, close - 1, "...") /\ toks[close - 2].k = "id" THEN Len(named) ELSE 0
  IN  name :> IF ~ like THEN [kind |-> "obj", body |-> Drop(toks, 3), params |-> << >>, va |-> ""]
              ELSE [kind |-> "fun", body |-> Drop(toks, close),
                    params |-> Texts(IF va \in DOMAIN named THEN Front(named) ELSE named),
                    va |-> IF ~ Is(toks, close - 1, "...") THEN ""
                           ELSE IF va \in DOMAIN named THEN named[va].t ELSE "__VA_ARGS__"]
Undefine(macros, name) == [m \in DOMAIN macros \ {name} |-> macros[m]]

(* What an include directive names, after macros, and where that is.       *)
Operand(toks, macros) ==
  IF toks[1].k = "id" THEN Rescanned(Items(toks), macros) ELSE toks
Path(files, line, d, what) ==
  LET named == what[1].k = "str"
      name == IF named \/ Len(what) = 1 THEN what[1].t ELSE what[2].t
      here == CHOOSE i \in 1 .. Len(Dirs) + 1 : i > Len(Dirs) \/ Dirs[i] = line.f[1]
  IN  CASE what[1].k = "id" -> << >>
        [] d = "include_next" -> FirstOf(files, Drop(Dirs, here), name)
        [] named /\ <<line.f[1], name>> \in DOMAIN files -> <<line.f[1], name>>
        [] OTHER -> FirstOf(files, Dirs, name)

(* The group a conditional directive leaves on the stack.                  *)
Group(holds, taken, last) == [on |-> holds, taken |-> taken \/ holds, last |-> last]
Conditional(d, toks, macros, stack, live) ==
  LET holds == CASE d \in {"if", "elif"} -> Holds(Drop(toks, 2), macros)
                 [] d = "ifdef" -> toks[3].t \in DOMAIN macros
                 [] d = "ifndef" -> toks[3].t \notin DOMAIN macros
                 [] d = "else" -> TRUE
      opens == d \in {"if", "ifdef", "ifndef"}
      done == IF opens THEN ~ live ELSE stack[1].taken
  IN  <<Group(~ done /\ holds, done, d = "else")>> \o IF opens THEN stack ELSE Tail(stack)

RECURSIVE Meaning(_, _, _, _, _, _, _)
Directive(files, line, rest, macros, stack, once, flushed) ==
  LET toks == line.toks
      d == IF Len(toks) > 1 THEN toks[2].t ELSE ""
      live == \A i \in DOMAIN stack : stack[i].on
      on(ms, st) == Meaning(files, rest, ms, st, once, << >>, flushed)
      included(path) ==
        IF path = << >> THEN Failure
        ELSE Meaning(files, (IF path \in once THEN << >> ELSE LinesOf(files, path)) \o rest,
                     macros, stack, once, << >>, flushed)
  IN  CASE d \in {"elif", "else", "endif"} /\ stack = << >> -> Failure
        [] d \in {"elif", "else"} /\ stack # << >> /\ stack[1].last -> Failure
        [] d = "endif" /\ stack # << >> -> on(macros, Tail(stack))
        [] OTHER ->
             IF d \in {"if", "ifdef", "ifndef", "elif", "else"}
             THEN on(macros, Conditional(d, toks, macros, stack, live))
             ELSE IF ~ live \/ d = "" THEN on(macros, stack)
             ELSE IF d = "define" THEN on(Define(toks) @@ macros, stack)
             ELSE IF d = "undef" THEN on(Undefine(macros, toks[3].t), stack)
             ELSE IF d = "pragma"
             THEN Meaning(files, rest, macros, stack,
                          IF Is(toks, 3, "once") THEN once \cup {line.f} ELSE once, << >>, flushed)
             ELSE IF d \in {"include", "include_next"}
             THEN included(Path(files, line, d, Operand(Drop(toks, 2), macros)))
             ELSE Failure

Meaning(files, lines, macros, stack, once, text, out) ==
  LET line == Head(lines)
      flushed == out \o Texts(Rescanned(text, macros))
      live == \A i \in DOMAIN stack : stack[i].on
  IN  IF lines = << >> THEN IF stack # << >> \/ "error" \in ToSet(flushed) THEN Failure ELSE flushed
      ELSE IF Is(line.toks, 1, "#")
      THEN Directive(files, line, Tail(lines), macros, stack, once, flushed)
      ELSE Meaning(files, Tail(lines), macros, stack, once,
                   IF live THEN text \o OnLine(Items(line.toks), line.n) ELSE text, out)
=============================================================================
