------------------------------ MODULE MCPreproc ------------------------------
(* Programs for Preproc: a main file put together from a palette of lines, *)
(* and headers it may include.                                             *)
EXTENDS Preproc

Punct == {"#", "##", "(", "~(", ")", ",", "<", ">", "!", "...", "+"}
Digit == {"0", "1", "2"}
Header == {"g", "h"}
T(text) ==
  [Tok(IF text = "~(" THEN "(" ELSE text,
       CASE text \in Punct -> "punct" [] text \in Digit -> "num"
         [] text \in Header -> "str" [] OTHER -> "id")
    EXCEPT !.sp = text # "~("]
L(texts) == [i \in DOMAIN texts |-> T(texts[i])]
File(lines) == [n \in DOMAIN lines |-> L(lines[n])]
Lines(palette, n) == {File(f) : f \in [1 .. n -> palette]}

MainPath == <<"src", "main">>
DirList == <<"inc", "sys">>
Program(main, headers) == (MainPath :> main) @@ headers

(* Conditionals, headers and definitions.                                  *)
Groups ==
  {<<"#", "ifdef", "A">>, <<"#", "ifndef", "A">>, <<"#", "if", "!", "defined", "A">>,
   <<"#", "if", "A">>, <<"#", "elif", "1">>, <<"#", "else">>, <<"#", "endif">>,
   <<"#", "define", "A", "1">>, <<"#", "undef", "A">>, <<"A">>, <<"#", "error">>}
Includes ==
  {<<"#", "include", "h">>, <<"#", "include", "<", "h1", ">">>, <<"#", "include", "<", "q", ">">>,
   <<"#", "define", "B", "h">>, <<"#", "include", "B">>,
   <<"#", "define", "A", "1">>, <<"#", "undef", "A">>, <<"A">>, <<"#", "pragma", "x">>, <<"#">>}
(* No header has an #else of its guard, or text between two groups: such a *)
(* file is taken for a guarded one, and skipped.                           *)
Guarded == <<<<"#", "ifndef", "A">>, <<"#", "define", "A", "2">>, <<"y">>, <<"#", "endif">>>>
Once == <<<<"#", "pragma", "once">>, <<"A">>>>
Late == <<<<"#", "ifndef", "A">>, <<"#", "define", "A", "2">>, <<"#", "endif">>, <<"y">>>>
NextOne == <<<<"z">>, <<"#", "include_next", "<", "h1", ">">>, <<"A">>>>
Headers(body) ==
  (<<"src", "h">> :> File(body)) @@ (<<"sys", "h1">> :> File(body)) @@ (<<"inc", "h1">> :> File(NextOne))

(* Macros that lead back to themselves, and their uses.                    *)
Bodies == {<<"A">>, <<"F">>, <<"F", "~(", "A", ")">>, <<"x", "G">>}
FBodies == {<<"p">>, <<"p", "G">>, <<"p", "A">>, <<"#", "p">>, <<"p", "##", "x">>, <<"F", "~(", "p", ")", "G">>, <<"G", "~(", "p", ")">>}
GBodies == {<<"p", "q">>, <<"p", "##", "q">>, <<"G", "~(", "q", ")">>, <<"F", "~(", "q", ")", "p">>}
Texts1 == {<<"A", "F", "~(", "A", ")">>, <<"F", "~(", "F", ")", "~(", "x", ")">>, <<"F">>,
           <<"G", "~(", "A", ",", "F", "~(", "1", ")", ")">>, <<"F", "~(">>, <<"F", "~(", "1", ")", "~(", "x", ",", "2", ")">>, <<"F", "~(", "(", "A", ",", "x", ")", ")", "__LINE__">>}

MacroPrograms ==
  {(MainPath :> File(<<<<"#", "define", "A">> \o a, <<"#", "define", "F", "~(", "p", ")">> \o f,
                       <<"#", "define", "G", "~(", "p", ",", "q", ")">> \o g, t, <<"x">>>>))
     : a \in Bodies, f \in FBodies, g \in GBodies, t \in Texts1}

(* Variable arguments.                                                     *)
VParams == {<<"...">>, <<"p", ",", "...">>, <<"p", ",", "q", "...">>}
VBodies(va) ==
  {<<va>>, <<"p", ",", "##", va>>, <<"x", "#", va>>, <<"p", "##", va>>}
  \cup IF va = "q" THEN {} ELSE {<<"__VA_OPT__", "~(", "x", "+", ")", va>>}
VUses == {<<"V", "~(", ")">>, <<"V", "~(", "x", ")">>, <<"V", "~(", "x", ",", "V", "~(", "1", ")", ",", "2", ")">>,
          <<"V", "(", ",", ",", ")">>}
VariadicPrograms ==
  UNION {{(MainPath :> File(<<<<"#", "define", "V", "~(">> \o v \o <<")">> \o b, t>>)) : t \in VUses,
          b \in VBodies(IF Len(v) = 4 THEN "q" ELSE "__VA_ARGS__")} : v \in VParams}

AllPrograms ==
  {(MainPath :> m) : m \in Lines(Groups, 4)}
  \cup {Program(m, Headers(h)) : m \in Lines(Includes, 3), h \in {Guarded, Once, Late}}
  \cup MacroPrograms \cup VariadicPrograms
=============================================================================
