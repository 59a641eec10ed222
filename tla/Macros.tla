------------------------------- MODULE Macros -------------------------------
(***************************************************************************)
(* Macro expansion in src/preprocess.c: hidesets, arguments, # and ##.  A  *)
(* token carries the set of macro names it came from; it is a record with  *)
(* its text t, kind k, the flags bol (first of its line) and sp (a space   *)
(* before it), the hideset hs, and the file f and line ln its outermost    *)
(* macro name is on (what the chain of origins leads to).                  *)
(***************************************************************************)
EXTENDS Integers, SequencesExt

Tok(text, kind) == [t |-> text, k |-> kind, bol |-> FALSE, sp |-> TRUE, hs |-> {}, ln |-> 0,
                   f |-> << >>]
Bad == Tok("error", "err")
HasError(toks) == \E i \in DOMAIN toks : toks[i].k = "err"
Is(toks, i, text) == i <= Len(toks) /\ toks[i].t = text /\ toks[i].k # "str"
Drop(toks, n) == SubSeq(toks, n + 1, Len(toks))

(* add_hideset, and the origin of the tokens of a body.                    *)
Painted(toks, hs, tok) ==
  [i \in DOMAIN toks |-> [toks[i] EXCEPT !.hs = @ \cup hs, !.ln = tok.ln, !.f = tok.f]]

(* The flags of the macro's token go to the first token of the expansion,  *)
(* which is the token after it when there is none.                         *)
Placed(toks, tok) ==
  IF toks = << >> THEN toks
  ELSE [toks EXCEPT ![1].bol = tok.bol, ![1].sp = tok.sp]
-----------------------------------------------------------------------------
(* read_macro_arg_one: the length of the argument at the head of toks, up  *)
(* to a comma or the closing parenthesis at level 0; -1 without an end.    *)
RECURSIVE ArgLength(_, _, _, _)
ArgLength(toks, from, level, readRest) ==
  IF from > Len(toks) THEN -1
  ELSE IF level = 0 /\ (Is(toks, from, ")") \/ (~ readRest /\ Is(toks, from, ",")))
       THEN from - 1
  ELSE ArgLength(toks, from + 1,
                 CASE Is(toks, from, "(") -> level + 1
                   [] Is(toks, from, ")") -> level - 1
                   [] OTHER -> level,
                 readRest)

(* read_macro_args behind the opening parenthesis: a function from the     *)
(* parameters to their tokens and what follows, the closing parenthesis    *)
(* first.  Too few or too many arguments, or no end, are errors.           *)
NoArgs == [ok |-> FALSE]
RECURSIVE ReadArgs(_, _, _, _)
ReadArgs(toks, params, va, args) ==
  LET first == DOMAIN args = {}
      comma == IF first THEN 0 ELSE 1
      one(name, readRest, more) ==
        LET n == ArgLength(Drop(toks, comma), 1, 0, readRest)
        IN  IF (~ first /\ ~ Is(toks, 1, ",")) \/ n = -1 THEN NoArgs
            ELSE ReadArgs(Drop(toks, n + comma), more, IF readRest THEN "" ELSE va,
                          (name :> SubSeq(toks, comma + 1, comma + n)) @@ args)
  IN  IF params # << >> THEN one(Head(params), FALSE, Tail(params))
      ELSE IF va # "" /\ Is(toks, 1, ")")
      THEN [ok |-> TRUE, args |-> (va :> << >>) @@ args, rest |-> toks]
      ELSE IF va # "" THEN one(va, TRUE, params)
      ELSE IF Is(toks, 1, ")") THEN [ok |-> TRUE, args |-> args, rest |-> toks]
      ELSE NoArgs

(* # joins the spelling of an argument's tokens, ## that of two tokens.    *)
Spelling(toks) ==
  FoldLeft(LAMBDA s, i : s \o (IF i > 1 /\ toks[i].sp THEN " " ELSE "") \o toks[i].t,
           "", [i \in DOMAIN toks |-> i])
Stringized(toks) == [Tok("'" \o Spelling(toks) \o "'", "str") EXCEPT !.bol = TRUE, !.sp = FALSE]
Paste(lhs, rhs) ==
  IF {lhs.k, rhs.k} \subseteq {"id", "num"}
  THEN [Tok(lhs.t \o rhs.t, lhs.k) EXCEPT !.bol = TRUE, !.sp = FALSE]
  ELSE Bad
-----------------------------------------------------------------------------
RECURSIVE Subst(_, _, _, _, _), Preprocessed(_, _)

(* expand_macro: whether the first token is a macro that is applied, and   *)
(* the tokens then.                                                        *)
NotExpanded(toks) == [did |-> FALSE, rest |-> toks]
ExpandedTo(body, hs, tok, after) ==
  [did |-> TRUE, rest |-> Placed(Painted(body, hs, tok) \o after, tok)]

HidesetAlways(tok, rparen) == tok.hs
Hideset(tok, rparen) == tok.hs \cap rparen.hs

Expand(toks, macros) ==
  LET tok == Head(toks)
      m == macros[tok.t]
      read == ReadArgs(Drop(toks, 2), m.params, m.va, << >>)
  IN  IF tok.t \in tok.hs \/ tok.k # "id" \/ tok.t \notin DOMAIN macros
      THEN NotExpanded(toks)
      ELSE IF m.kind = "line"
      THEN [did |-> TRUE,
            rest |-> <<[Tok(ToString(tok.ln), "num") EXCEPT !.bol = TRUE, !.sp = FALSE]>>
                     \o Tail(toks)]
      ELSE IF m.kind = "obj"
      THEN ExpandedTo(m.body, tok.hs \cup {tok.t}, tok, Tail(toks))
      ELSE IF ~ Is(toks, 2, "(") THEN NotExpanded(toks)
      ELSE IF ~ read.ok THEN [did |-> TRUE, rest |-> <<Bad>>]
      ELSE ExpandedTo(Subst(m.body, << >>, read.args, m.va, macros),
                      Hideset(tok, Head(read.rest)) \cup {tok.t}, tok, Tail(read.rest))

(* preprocess2 on the tokens of an argument.                               *)
Preprocessed(toks, macros) ==
  IF toks = << >> THEN << >>
  ELSE LET e == Expand(toks, macros)
       IN  IF e.did THEN Preprocessed(e.rest, macros)
           ELSE <<Head(toks)>> \o Preprocessed(Tail(toks), macros)

(* subst: the body of a function-like macro with its arguments put in; out *)
(* is what has been made of the tokens before b.                           *)
Subst(b, out, args, va, macros) ==
  LET arg(i) == i <= Len(b) /\ b[i].t \in DOMAIN args
      on(n, toks) == Subst(Drop(b, n), out \o toks, args, va, macros)
      pasted(more) == Front(out) \o <<Paste(Last(out), Head(more))>> \o Tail(more)
  IN  CASE b = << >> -> out
        [] Is(b, 1, "#") ->
             IF arg(2) THEN on(2, <<Stringized(args[b[2].t])>>) ELSE <<Bad>>
        [] Is(b, 1, ",") /\ Is(b, 2, "##") /\ arg(3) /\ b[3].t = va ->
             IF args[va] = << >> THEN on(3, << >>) ELSE on(2, <<b[1]>>)
        [] Is(b, 1, "##") ->
             IF out = << >> \/ Len(b) = 1 THEN <<Bad>>
             ELSE IF arg(2) /\ args[b[2].t] = << >> THEN on(2, << >>)
             ELSE Subst(Drop(b, 2), pasted(IF arg(2) THEN args[b[2].t] ELSE <<b[2]>>),
                        args, va, macros)
        [] arg(1) /\ Is(b, 2, "##") ->
             IF args[b[1].t] # << >> THEN on(1, args[b[1].t])
             ELSE IF Len(b) = 2 THEN <<Bad>>
             ELSE on(3, IF arg(3) THEN args[b[3].t] ELSE <<b[3]>>)
        [] Is(b, 1, "__VA_OPT__") /\ Is(b, 2, "(") ->
             LET n == ArgLength(Drop(b, 2), 1, 0, TRUE)
             IN  IF n = -1 THEN <<Bad>>
                 ELSE on(n + 3, IF va = "__VA_ARGS__" /\ args[va] # << >>
                                THEN SubSeq(b, 3, n + 2) ELSE << >>)
        [] arg(1) -> on(1, Placed(Preprocessed(args[b[1].t], macros), b[1]))
        [] OTHER -> on(1, <<b[1]>>)
=============================================================================
