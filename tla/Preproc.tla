------------------------------ MODULE Preproc ------------------------------
(***************************************************************************)
(* preprocess2 of src/preprocess.c: a list of tokens that directives and   *)
(* macros rewrite at its head, with the devices the code keeps between     *)
(* them: the stack of conditionals, the cache of the include search, the   *)
(* index #include_next goes on from, #pragma once and detected guards.     *)
(***************************************************************************)
EXTENDS Cpp

CONSTANTS
  Programs,  \* each a function from paths <<directory, name>> to lines
  Main       \* the path of the file to preprocess

VARIABLES
  files,     \* the program
  rest,      \* tok: the tokens still to be visited
  out,       \* the tokens passed through
  macros,    \* from names to definitions
  conds,     \* cond_incl: the innermost conditional first
  once,      \* pragma_once: the paths that are not read again
  guards,    \* include_guards: from paths to the macro that guards them
  cache,     \* what search_include_paths found, by name
  nextIdx,   \* include_next_idx
  status,    \* "run", "done" or "error" (error_tok ends the program)
  tick       \* the parity of the loop's rounds: one that changes nothing is a step too

vars == <<files, rest, out, macros, conds, once, guards, cache, nextIdx, status, tick>>

Builtins == "__LINE__" :> [kind |-> "line", body |-> << >>, params |-> << >>, va |-> ""]
-----------------------------------------------------------------------------
(* tokenize_file, and what the code asks of the tokens at its head.        *)
Tokenized(fs, path) ==
  FlattenSeq([n \in DOMAIN fs[path] |->
    [i \in DOMAIN fs[path][n] |->
      [fs[path][n][i] EXCEPT !.bol = (i = 1), !.ln = n, !.f = path]]])

IsHash(toks) == Is(toks, 1, "#") /\ toks[1].bol
DirectiveOf(toks) == IF IsHash(toks) /\ Len(toks) > 1 THEN toks[2].t ELSE ""
Opening == {"if", "ifdef", "ifndef"}

(* copy_line: the tokens before the next one at the beginning of a line.   *)
Copied(toks) ==
  LET starts == {i \in DOMAIN toks : toks[i].bol}
  IN  IF starts = {} THEN toks
      ELSE SubSeq(toks, 1, (CHOOSE i \in starts : \A j \in starts : i <= j) - 1)
AfterLine(toks) == Drop(toks, Len(Copied(toks)))

(* skip_line: its loop runs while the token IS at the beginning of a line, *)
(* which the early return has ruled out: it warns and skips nothing.       *)
SkipLine(toks) == toks

(* skip_cond_incl2 and skip_cond_incl.                                     *)
RECURSIVE SkipNested(_), Skipped(_), SkippedFlat(_)
SkipNested(toks) ==
  CASE toks = << >> -> toks
    [] DirectiveOf(toks) \in Opening -> SkipNested(SkipNested(Drop(toks, 2)))
    [] DirectiveOf(toks) = "endif" -> Drop(toks, 2)
    [] OTHER -> SkipNested(Tail(toks))
SkippedFlat(toks) ==
  IF toks = << >> \/ DirectiveOf(toks) \in {"elif", "else", "endif"} THEN toks
  ELSE SkippedFlat(Tail(toks))
Skipped(toks) ==
  CASE toks = << >> -> toks
    [] DirectiveOf(toks) \in Opening -> Skipped(SkipNested(Drop(toks, 2)))
    [] DirectiveOf(toks) \in {"elif", "else", "endif"} -> toks
    [] OTHER -> Skipped(Tail(toks))

(* detect_include_guard: the macro that guards the file, or "".  The loop  *)
(* means to skip nested conditionals but compares the # itself with "if",  *)
(* so that it looks only for an #endif that is last in the file.           *)
Guard(toks) ==
  LET inner == Drop(toks, 3)
      n == Len(toks)
  IN  IF /\ DirectiveOf(toks) = "ifndef"
         /\ DirectiveOf(inner) = "define" /\ inner[3].t = toks[3].t
         /\ DirectiveOf(Drop(toks, n - 2)) = "endif"
      THEN toks[3].t ELSE ""

(* read_include_filename behind the directive's name: the name, whether it *)
(* was in double quotes, and the tokens to go on with.                     *)
NoName == [ok |-> FALSE]
RECURSIVE IncludeName(_, _)
IncludeName(toks, ms) ==
  LET close == {i \in DOMAIN toks : Is(toks, i, ">") /\ \A j \in 1 .. i : ~ toks[j].bol}
      at == CHOOSE i \in close : \A j \in close : i <= j
  IN  CASE toks # << >> /\ toks[1].k = "str" ->
             [ok |-> TRUE, dquote |-> TRUE, name |-> toks[1].t, rest |-> SkipLine(Tail(toks))]
        [] Is(toks, 1, "<") /\ close # {} ->
             [ok |-> TRUE, dquote |-> FALSE, name |-> Spelling(SubSeq(toks, 2, at - 1)),
              rest |-> SkipLine(Drop(toks, at))]
        [] toks # << >> /\ toks[1].k = "id" ->
             LET line == Preprocessed(Copied(toks), ms)
                 n == IncludeName(line, ms)
             IN  IF line # << >> /\ line[1].k = "id" THEN NoName  \* recurses until the stack is full
                 ELSE IF n.ok THEN [n EXCEPT !.rest = AfterLine(toks)] ELSE NoName
        [] OTHER -> NoName

(* eval_const_expr: "error" without an expression.                         *)
Valued(e) == IF e = << >> \/ HasError(e) THEN "error" ELSE IF IsTrue(e) THEN "true" ELSE "false"
Evaluated(toks, ms) == Valued(Preprocessed(DefinedFirst(Copied(toks), ms), ms))

ElifAnew(cond, value) == value = "true"
ElifContinues(cond, value) == ~ cond.included /\ value = "true"
-----------------------------------------------------------------------------
Init ==
  /\ files \in Programs
  /\ rest = Tokenized(files, Main)
  /\ out = << >> /\ macros = Builtins /\ conds = << >>
  /\ once = {} /\ guards = << >> /\ cache = << >> /\ nextIdx = 1
  /\ status = "run" /\ tick = 0

Running == status = "run" /\ rest # << >>
At(name) == Running /\ DirectiveOf(rest) = name
Args == Drop(rest, 2)   \* what follows the name of the directive
Keep(v) == UNCHANGED <<files, out>> /\ UNCHANGED v
Fail == status' = "error" /\ UNCHANGED <<files, rest, out, macros, conds, once, guards, cache, nextIdx>>

(* A macro at the head is replaced there, and rescanned.                   *)
ExpandMacro ==
  /\ Running
  /\ LET e == Expand(rest, macros)
     IN  /\ e.did
         /\ IF HasError(e.rest) THEN Fail
            ELSE rest' = e.rest /\ Keep(<<macros, conds, once, guards, cache, nextIdx, status>>)

PassThrough ==
  /\ Running /\ ~ IsHash(rest) /\ ~ Expand(rest, macros).did
  /\ out' = Append(out, Head(rest))
  /\ rest' = Tail(rest)
  /\ UNCHANGED <<files, macros, conds, once, guards, cache, nextIdx, status>>

(* include_file: the file's tokens go in front of the list, unless it said *)
(* #pragma once or the macro of its guard is defined.                      *)
IncludeFile(path, toks) ==
  IF path \in once \/ (path \in DOMAIN guards /\ guards[path] \in DOMAIN macros)
  THEN rest' = toks /\ UNCHANGED <<guards, status>>
  ELSE IF path \notin DOMAIN files
  THEN status' = "error" /\ UNCHANGED <<rest, guards>>
  ELSE LET new == Tokenized(files, path)
       IN  /\ rest' = new \o toks
           /\ guards' = IF Guard(new) = "" THEN guards ELSE (path :> Guard(new)) @@ guards
           /\ UNCHANGED status

(* search_include_paths: the first directory that has the file; a name it  *)
(* has found is remembered, and the index of #include_next is then left.   *)
Search(name) ==
  LET found == FirstOf(files, Dirs, name)
  IN  IF name \in DOMAIN cache \/ found = << >> THEN UNCHANGED <<cache, nextIdx>>
      ELSE /\ cache' = (name :> found) @@ cache
           /\ nextIdx' = (CHOOSE i \in DOMAIN Dirs : Dirs[i] = found[1]) + 1
Found(name) ==
  IF name \in DOMAIN cache THEN cache[name]
  ELSE LET found == FirstOf(files, Dirs, name) IN IF found = << >> THEN <<"", name>> ELSE found

FromInclude(n) ==
  LET here == <<rest[1].f[1], n.name>>
  IN  IF ~ n.ok THEN Fail
      ELSE /\ IF n.dquote /\ here \in DOMAIN files
              THEN IncludeFile(here, n.rest) /\ UNCHANGED <<cache, nextIdx>>
              ELSE IncludeFile(Found(n.name), n.rest) /\ Search(n.name)
           /\ Keep(<<macros, conds, once>>)
Include == At("include") /\ FromInclude(IncludeName(Args, macros))

(* search_include_next: the directories from the index on, which stays at  *)
(* the one where the file was found.                                       *)
FromNext(n) ==
  LET has == {i \in nextIdx .. Len(Dirs) : <<Dirs[i], n.name>> \in DOMAIN files}
      at == IF has = {} THEN Len(Dirs) + 1 ELSE CHOOSE i \in has : \A j \in has : i <= j
  IN  IF ~ n.ok THEN Fail
      ELSE /\ IncludeFile(<<IF has = {} THEN "" ELSE Dirs[at], n.name>>, n.rest)
           /\ nextIdx' = at
           /\ Keep(<<macros, conds, once, cache>>)
IncludeNext == At("include_next") /\ FromNext(IncludeName(Args, macros))

(* read_macro_definition and read_macro_params: a parenthesis without a    *)
(* space before it starts the parameters.                                  *)
MacroOf(toks) ==
  LET like == Is(toks, 2, "(") /\ ~ toks[2].sp
      n == ArgLength(Drop(toks, 2), 1, 0, TRUE)
      names == SelectSeq(SubSeq(toks, 3, n + 2), LAMBDA t : t.k = "id")
      dots == Is(toks, n + 2, "...")
      named == dots /\ n > 1 /\ toks[n + 1].k = "id"
      body == Copied(Drop(toks, IF like THEN n + 3 ELSE 1))
  IN  [kind |-> IF like THEN "fun" ELSE "obj", body |-> body,
       params |-> IF ~ like THEN << >> ELSE Texts(IF named THEN Front(names) ELSE names),
       va |-> CASE ~ like \/ ~ dots -> "" [] named -> Last(names).t [] OTHER -> "__VA_ARGS__"]

DefineMacro ==
  /\ At("define")
  /\ IF Args = << >> \/ Args[1].k # "id" THEN Fail
     ELSE /\ macros' = (Args[1].t :> MacroOf(Args)) @@ macros
          /\ rest' = AfterLine(Args)
          /\ Keep(<<conds, once, guards, cache, nextIdx, status>>)

Undef ==
  /\ At("undef")
  /\ IF Args = << >> \/ Args[1].k # "id" THEN Fail
     ELSE /\ macros' = Undefine(macros, Args[1].t)
          /\ rest' = SkipLine(Tail(Args))
          /\ Keep(<<conds, once, guards, cache, nextIdx, status>>)
-----------------------------------------------------------------------------
(* push_cond_incl, and the group that is skipped when it is not included.  *)
Enter(included, toks) ==
  /\ conds' = <<[ctx |-> "then", included |-> included]>> \o conds
  /\ rest' = IF included THEN toks ELSE Skipped(toks)
  /\ Keep(<<macros, once, guards, cache, nextIdx, status>>)

OnIf(value) == IF value = "error" THEN Fail ELSE Enter(value = "true", AfterLine(Args))
If == At("if") /\ OnIf(Evaluated(Args, macros))

Defines(toks) == toks # << >> /\ toks[1].k = "id" /\ toks[1].t \in DOMAIN macros
Ifdef == At("ifdef") /\ Enter(Defines(Args), SkipLine(Tail(Args)))
Ifndef == At("ifndef") /\ Enter(~ Defines(Args), SkipLine(Tail(Args)))

Stray(name) == conds = << >> \/ (name # "endif" /\ conds[1].ctx = "else")

OnElif(value) ==
  IF Stray("elif") \/ (~ conds[1].included /\ value = "error") THEN Fail
  ELSE /\ conds' = [conds EXCEPT ![1].ctx = "elif",
                                 ![1].included = @ \/ value = "true"]
       /\ rest' = IF ElifContinues(conds[1], value) THEN AfterLine(Args)
                  ELSE Skipped(AfterLine(Args))
       /\ Keep(<<macros, once, guards, cache, nextIdx, status>>)
Elif == At("elif") /\ OnElif(Evaluated(Args, macros))

Else ==
  /\ At("else")
  /\ IF Stray("else") THEN Fail
     ELSE /\ conds' = [conds EXCEPT ![1].ctx = "else"]
          /\ rest' = IF conds[1].included THEN Skipped(SkipLine(Args)) ELSE SkipLine(Args)
          /\ Keep(<<macros, once, guards, cache, nextIdx, status>>)

Endif ==
  /\ At("endif")
  /\ IF Stray("endif") THEN Fail
     ELSE /\ conds' = Tail(conds)
          /\ rest' = SkipLine(Args)
          /\ Keep(<<macros, once, guards, cache, nextIdx, status>>)

PragmaOnce ==
  /\ At("pragma") /\ Is(rest, 3, "once")
  /\ once' = once \cup {rest[2].f}
  /\ rest' = SkipLine(Drop(rest, 3))
  /\ Keep(<<macros, conds, guards, cache, nextIdx, status>>)

(* Any other pragma: tokens are passed until one begins a line.            *)
PassedFromHash(toks) == AfterLine(toks)
Passed(toks) == AfterLine(Drop(toks, 2))
Pragma ==
  /\ At("pragma") /\ ~ Is(rest, 3, "once")
  /\ rest' = Passed(rest)
  /\ Keep(<<macros, conds, once, guards, cache, nextIdx, status>>)

(* #error, a directive that is none, and a # alone on its line.            *)
Known == {"include", "include_next", "define", "undef", "if", "ifdef", "ifndef", "elif",
          "else", "endif", "pragma"}
NullDirective == IF Len(rest) = 1 THEN TRUE ELSE rest[2].bol
Error == Running /\ IsHash(rest) /\ DirectiveOf(rest) \notin Known /\ ~ NullDirective /\ Fail
Null ==
  /\ Running /\ IsHash(rest) /\ DirectiveOf(rest) \notin Known /\ NullDirective
  /\ rest' = Tail(rest)
  /\ Keep(<<macros, conds, once, guards, cache, nextIdx, status>>)

(* preprocess: at the end no conditional may be open.                      *)
Finish ==
  /\ status = "run" /\ rest = << >>
  /\ status' = IF conds = << >> THEN "done" ELSE "error"
  /\ Keep(<<rest, macros, conds, once, guards, cache, nextIdx>>)

Stopped == status # "run" /\ UNCHANGED vars

Round ==
  \/ ExpandMacro \/ PassThrough \/ Include \/ IncludeNext \/ DefineMacro \/ Undef
  \/ If \/ Ifdef \/ Ifndef \/ Elif \/ Else \/ Endif
  \/ PragmaOnce \/ Pragma \/ Error \/ Null \/ Finish
Step == Round /\ tick' = 1 - tick
Next == Step \/ Stopped

(* The loop goes on until it stops.  This is WF_vars(Step): a step is      *)
(* enabled exactly while the status is "run", and always changes tick.     *)
Fairness == []<><<TRUE>>_vars \/ <>[](status # "run")
Spec == Init /\ [][Next]_vars /\ Fairness
-----------------------------------------------------------------------------
(* What the code makes of a program is what the program means: the groups  *)
(* that are skipped, the files that are not read again, the hidesets and   *)
(* the rescanning in place all come out as if each line had been read in   *)
(* its turn, and a program is refused exactly when it is wrong.            *)
OutputIsMeaning ==
  status # "run" =>
    Meaning(files, LinesOf(files, Main), Builtins, << >>, {}, << >>, << >>)
      = IF status = "done" THEN Texts(out) ELSE Failure

(* The preprocessor comes to an end, whatever the macros name: a name that *)
(* leads back to itself is painted, and is left alone.                     *)
Finishes == <>(status # "run")
=============================================================================
