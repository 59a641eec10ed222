------------------------------ MODULE MCObject ------------------------------
(* Assembly texts for ObjectReader: one of every form of instruction, and  *)
(* modules put together from functions and data in any order.              *)
EXTENDS ObjectReader

I(op, sz, s, d) == <<"ins", [op |-> op, sz |-> sz, s |-> s, d |-> d]>>
R(r) == <<r>>
Imm(n) == <<"#", n>>
Sym(name, add) == <<"sym", name, add>>
B(cc, label) == I("b", 0, cc, <<"to", label>>)

Memory == {<<"(", "a1">>, <<")+", "sp">>, <<"-(", "sp">>, <<"d(", 12, "a6">>, <<"d(", -4, "a6">>, <<"(,", "a0", "d1", "l">>,
           <<"(,", "a2", "a3", "w">>, Sym("_x", 0), Sym("_x", -4), Sym("_e##", 8)}
Alterable == {R("d0"), R("d7")} \cup Memory
Readable == Alterable \cup {R("a5"), R("sp")}
Numbers1(sz) == CASE sz = 1 -> {-1, 100} [] sz = 2 -> {-2, 300} [] sz = 4 -> {-3, 65535, 1000000, 5}
Sizes == {1, 2, 4}

Moves == {I("move", sz, s, d) : sz \in {1, 2}, s \in Memory \cup {R("d3")}, d \in Alterable}
         \cup {I("move", 4, s, d) : s \in Readable, d \in Readable}
         \cup UNION {{I("move", sz, Imm(n), d) : n \in Numbers1(sz), d \in Alterable} : sz \in Sizes}
         \cup {I("movea", 4, s, R("a4")) : s \in Readable} \cup {I("moveq", 4, Imm(n), R("d5")) : n \in {-128, -1, 0, 127}}
         \cup {I("lea", 4, s, R("a0")) : s \in Memory \ {<<")+", "sp">>, <<"-(", "sp">>}}
Arithmetic ==
  {I(op, sz, s, R("d2")) : op \in {"add", "sub", "and", "or", "cmp"}, sz \in Sizes, s \in Alterable}
  \cup UNION {{I(op, sz, Imm(n), d) : op \in {"add", "sub", "and", "or", "eor", "cmp"}, n \in Numbers1(sz),
                                       d \in {R("d0"), <<"d(", -4, "a6">>, Sym("_x", 0)}} : sz \in Sizes}
  \cup {I(op, 4, Imm(65535), R("d0")) : op \in {"andi", "ori", "eori"}}
  \cup {I("eor", 4, R("d1"), d) : d \in {R("d0"), <<"(", "a1">>}}
  \cup {I(op, 4, s, R("a3")) : op \in {"adda", "suba"}, s \in Readable}
  \cup {I(op, sz, Imm(n), R("sp")) : op \in {"adda", "suba"}, sz \in {2, 4}, n \in {1, 8, 9, 300}}
  \cup {I(op, 4, Imm(n), d) : op \in {"addq", "subq"}, n \in {1, 3, 8}, d \in {R("d0"), <<"d(", 12, "a6">>}}
  \cup {I(op, 4, R("d3"), R("d1")) : op \in {"addx", "subx"}}
Others ==
  {I(op, sz, <<>>, d) : op \in {"neg", "negx", "not", "tst", "clr"}, sz \in Sizes, d \in {R("d6"), <<")+", "sp">>, Sym("_x", 2)}}
  \cup {I("ext", sz, <<>>, R("d1")) : sz \in {2, 4}}
  \cup {I(op, 4, s, R("d1")) : op \in {"asl", "asr", "lsl", "lsr"}, s \in {Imm(1), Imm(8), R("d4")}}
  \cup {I(op, 0, <<>>, d) : op \in {"jsr", "jmp"}, d \in {<<"(", "a0">>, Sym("_e##", 0), Sym("_f", 0)}}
  \cup {I("link", 0, R("a6"), Imm(n)) : n \in {-300, 0}} \cup {I("unlk", 0, <<>>, R("a6"))}
  \cup {I(op, 0, <<>>, <<>>) : op \in {"nop", "rts"}}
  \cup {I("s", 1, cc, R("d0")) : cc \in Range(Conditions)}
  \cup {B(cc, l1) : cc \in Range(Conditions) \ {"f"}, l1 \in {"L_b", "L_e"}}
  \cup {I("dbra", 0, <<"to", l1>>, R("d1")) : l1 \in {"L_b", "L_e"}}
  \cup {I("save", 4, regs, <<"-(", "sp">>) : regs \in {{"d2"}, {"d2", "d3", "a2"}, {"d7", "a5"}}}
  \cup {I("restore", 4, <<")+", "sp">>, regs) : regs \in {{"d2"}, {"d2", "d3", "a2"}, {"d7", "a5"}}}

Rts == I("rts", 0, <<>>, <<>>)
Around(i) ==
  <<<<"section", S_TEXT>>, <<"label", "_f">>, B("ne", "L_e"), <<"label", "L_b">>, i, <<"label", "L_e">>, B("ra", "L_b"), Rts,
    <<"section", S_DATA>>, <<"named", "_x", <<"dc", 4, 77>>>>>>

(* Pieces of a module; each defines its own names.                         *)
Function ==
  <<<<"public", "_g">>, <<"section", S_TEXT>>, <<"func", "_g">>, <<"label", "_g">>, I("link", 0, R("a6"), Imm(-4)),
    <<"loc", 65>>, I("jsr", 0, <<>>, Sym("_h##", 0)), <<"loc", 2>>, B("ra", "L_return_g"), <<"loc", 1>>, <<"loc", 66>>,
    I("lea", 4, Sym("_x", 2), R("a0")), <<"label", "L_return_g">>, I("unlk", 0, <<>>, R("a6")), Rts, <<"endfunc", "_g">>>>
Static ==
  <<<<"section", S_TEXT>>, <<"label", "_s">>, I("moveq", 4, Imm(7), R("d1")), <<"label", "L_memzero_1">>,
    I("clr", 1, <<>>, <<")+", "a0">>), I("dbra", 0, <<"to", "L_memzero_1">>, R("d1")), Rts>>
Long ==
  <<<<"section", S_TEXT>>, <<"label", "_k">>, <<"func", "_k">>, <<"loc", 300>>>>
  \o [k \in 1 .. 14 |-> I("move", 4, Imm(k), Sym("_b", 4 * k))] \o <<<<"loc", 100>>, B("ra", "_k"), <<"endfunc", "_k">>>>
Initialised ==
  <<<<"public", "_x">>, <<"section", S_DATA>>, <<"align", 2>>, <<"named", "_x", <<"dc", 4, "_g", 2>>>>, <<"dc", 4, "_h##", -1>>,
    <<"dc", 1, 9>>>>
StaticData == <<<<"section", S_DATA>>, <<"align", 2>>, <<"named", "_y", <<"dc", 1, 104>>>>, <<"dc", 2, 513>>, <<"dc", 4, -2>>>>
Zeroed == <<<<"section", S_BSS>>, <<"align", 4>>, <<"named", "_b", <<"ds", 3>>>>>>
MoreZeroed == <<<<"public", "_c">>, <<"section", S_BSS>>, <<"align", 2>>, <<"label", "_c">>, <<"ds", 2>>>>
ReadOnly == <<<<"section", S_RODATA>>, <<"named", "_r", <<"dc", 1, 3>>>>, <<"align", 4>>>>
Imports == <<<<"extern", {"_h", "_q"}>>, <<"file", "main.c">>, <<"skip">>>>
Pieces == {Function, Static, Long, Initialised, StaticData, Zeroed, MoreZeroed, ReadOnly, Imports}
Distinct(n) == {t \in [1 .. n -> Pieces] : \A i, j \in 1 .. n : t[i] = t[j] => i = j}

Refused ==
  {<<<<"label", "_f">>>>, <<<<"dc", 1, 0>>>>, <<<<"align", 2>>>>, <<<<"named", "_x", <<"dc", 1, 0>>>>>>,
   <<<<"section", S_TEXT>>, B("ra", "L_none")>>, <<<<"section", S_DATA>>, <<"label", "_d">>, B("ra", "_d")>>}
MCSources ==
  {Around(i) : i \in Moves \cup Arithmetic \cup Others} \cup UNION {{FlattenSeq(t) : t \in Distinct(n)} : n \in 1 .. 4}
  \cup Refused
MCExternal(name) == 2000000 + 1000 * Len(name)
=============================================================================
