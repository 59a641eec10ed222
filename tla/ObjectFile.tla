----------------------------- MODULE ObjectFile -----------------------------
(***************************************************************************)
(* The object writer, emit_elf.c: an assembly text is read line by line    *)
(* into sections, symbols, relocations and branches to be filled in; at    *)
(* its end the branches are resolved, and the ELF file is laid out and     *)
(* written.  Text of symbols, sections and debugging records is kept as    *)
(* names with offsets and lengths; everything a linker or a debugger       *)
(* follows is there.                                                       *)
(*                                                                         *)
(* Lines: <<"skip">>, <<"section", s>>, <<"align", n>>, <<"public", name>>,*)
(* <<"extern", names>>, <<"label", name>>, <<"dc", size, n>>,              *)
(* <<"dc", 4, name, addend>>, <<"ds", n>>, <<"named", name, dc or ds>>,    *)
(* <<"ins", i>>, <<"func", name>>, <<"endfunc", name>>, <<"file", name>>,  *)
(* <<"loc", n>>.                                                           *)
(***************************************************************************)
EXTENDS Encoder, TLC

CONSTANT Sources                                     \* assembly texts

VARIABLES source, read, stage, asm, file             \* read: how many lines of source
vars == <<source, read, stage, asm, file>>

S_TEXT == 1
S_DATA == 2
S_BSS == 3
S_RODATA == 4

Init ==
  /\ source \in Sources /\ read = 0 /\ stage = "assembling" /\ file = <<>>
  /\ asm = [cur_sec |-> 0, buf |-> [s \in {S_TEXT, S_DATA, S_RODATA} |-> <<>>], bss_size |-> 0,
            syms |-> <<>>, rels |-> <<>>, fixes |-> <<>>, public_names |-> {}, extern_names |-> {},
            func_names |-> {}, lrows |-> <<>>, dbg_file |-> "a.c"]
-----------------------------------------------------------------------------
(* Symbols, by name; a name may carry the mark of an import, "##".         *)
SymFind(a, name) == SelectInSeq(a.syms, LAMBDA s : s.name = name)
SymIntern(a, name) ==
  IF SymFind(a, name) # 0 THEN a
  ELSE [a EXCEPT !.syms = Append(@, [name |-> name, shndx |-> 0, value |-> 0, size |-> 0])]
SymDefine(a, name, shndx, value) ==
  LET b == SymIntern(a, name)
      k == SymFind(b, name)
  IN  [b EXCEPT !.syms[k].shndx = shndx, !.syms[k].value = value]
StripExtmark(name) ==
  LET n == Len(name)
  IN  IF n >= 2 /\ SubSeq(name, n - 1, n) = "##" THEN SubSeq(name, 1, n - 2) ELSE name
AddReloc(a, sec, off, name, add) ==
  [SymIntern(a, StripExtmark(name)) EXCEPT
     !.rels = Append(@, [sec |-> sec, off |-> off, sym |-> StripExtmark(name), add |-> add])]

HasBuffer(a) == a.cur_sec \in {S_TEXT, S_DATA, S_RODATA}
Here(a) == IF a.cur_sec = S_BSS THEN a.bss_size ELSE Len(a.buf[a.cur_sec])
Emitted(a, bytes) == [a EXCEPT !.buf[a.cur_sec] = @ \o bytes]
Padding(n, to) == [i \in 1 .. ((-n) % to) |-> 0]

DoDataDir(a, d) ==
  IF Len(d) = 4 THEN Emitted(AddReloc(a, a.cur_sec, Here(a), d[3], d[4]), B32(0))
  ELSE Emitted(a, CASE d[2] = 1 -> B8(d[3]) [] d[2] = 2 -> B16(d[3]) [] d[2] = 4 -> B32(d[3]))

(* An instruction goes to .text, whatever the current section.             *)
DoInsn(a, i) ==
  LET c == EncodeInsn(i)
      here == Len(a.buf[S_TEXT])
      b == FoldLeft(LAMBDA x, r : AddReloc(x, S_TEXT, here + r[1], r[2], r[3]), a, c.rels)
  IN  [b EXCEPT !.buf[S_TEXT] = @ \o c.bytes,
                !.fixes = @ \o [k \in DOMAIN c.fixes |-> [off |-> here + c.fixes[k][1], label |-> c.fixes[k][2]]]]

EndFunc(a, name) ==
  LET k == SymFind(a, name)
  IN  IF k # 0 /\ a.syms[k].shndx = S_TEXT
      THEN [a EXCEPT !.syms[k].size = Len(a.buf[S_TEXT]) - a.syms[k].value] ELSE a

(* One row per address: a later line for the same one replaces it.         *)
DoLoc(a, line) ==
  LET row == [addr |-> Len(a.buf[S_TEXT]), line |-> line]
  IN  IF a.lrows # <<>> /\ Last(a.lrows).addr = row.addr THEN [a EXCEPT !.lrows[Len(a.lrows)] = row]
      ELSE [a EXCEPT !.lrows = Append(@, row)]
-----------------------------------------------------------------------------
(* assemble_line: one action per kind of line.                             *)
Line(kind) ==
  /\ stage = "assembling" /\ read < Len(source) /\ source[read + 1][1] = kind
  /\ read' = read + 1 /\ UNCHANGED <<source, file>>
Becomes(a) == asm' = a /\ UNCHANGED stage
NoActiveSection == stage' = "error" /\ UNCHANGED asm
l == source[read + 1]

Skip == Line("skip") /\ Becomes(asm)
Section == Line("section") /\ Becomes([asm EXCEPT !.cur_sec = l[2]])
AlignTo ==
  /\ Line("align")
  /\ IF asm.cur_sec = S_BSS
     THEN Becomes([asm EXCEPT !.bss_size = @ + Len(Padding(@, l[2]))])
     ELSE IF HasBuffer(asm) THEN Becomes(Emitted(asm, Padding(Here(asm), l[2]))) ELSE NoActiveSection
Public == Line("public") /\ Becomes([asm EXCEPT !.public_names = @ \cup {l[2]}])
Extern == Line("extern") /\ Becomes([asm EXCEPT !.extern_names = @ \cup l[2]])
CodeLabel ==
  /\ Line("label")
  /\ IF HasBuffer(asm) \/ asm.cur_sec = S_BSS
     THEN Becomes(SymDefine(asm, l[2], asm.cur_sec, Here(asm))) ELSE NoActiveSection
Data ==
  /\ Line("dc")
  /\ IF HasBuffer(asm) THEN Becomes(DoDataDir(asm, l)) ELSE NoActiveSection
Space == Line("ds") /\ Becomes([asm EXCEPT !.bss_size = @ + l[2]])
NamedData ==
  /\ Line("named")
  /\ IF l[3][1] = "ds" THEN Becomes([SymDefine(asm, l[2], S_BSS, asm.bss_size) EXCEPT !.bss_size = @ + l[3][2]])
     ELSE IF HasBuffer(asm) THEN Becomes(DoDataDir(SymDefine(asm, l[2], asm.cur_sec, Here(asm)), l[3]))
     ELSE NoActiveSection
Instruction == Line("ins") /\ Becomes(DoInsn(asm, l[2]))
DebugFunc == Line("func") /\ Becomes([asm EXCEPT !.func_names = @ \cup {l[2]}])
DebugEndFunc == Line("endfunc") /\ Becomes(EndFunc(asm, l[2]))
DebugFile == Line("file") /\ Becomes([asm EXCEPT !.dbg_file = l[2]])
DebugLoc == Line("loc") /\ Becomes(DoLoc(asm, l[2]))

(* resolve_fixups: a displacement counts from its own word.                *)
Target(a, f) == a.syms[SymFind(a, f.label)]
DisplacementFromNext(a, f) == B16(Target(a, f).value - f.off - 2)
Displacement(a, f) == B16(Target(a, f).value - f.off)
ResolveFixups ==
  /\ stage = "assembling" /\ read = Len(source)
  /\ IF \A k \in DOMAIN asm.fixes :
          SymFind(asm, asm.fixes[k].label) # 0 /\ Target(asm, asm.fixes[k]).shndx = S_TEXT
     THEN /\ stage' = "resolved"
          /\ asm' = [asm EXCEPT !.buf[S_TEXT] =
                       FoldLeft(LAMBDA b, f : At(b, f.off, Displacement(asm, f)), @, asm.fixes)]
     ELSE stage' = "error" /\ UNCHANGED asm
  /\ UNCHANGED <<source, read, file>>
-----------------------------------------------------------------------------
(* DWARF numbers, and the three debugging sections; a string is as many    *)
(* zero bytes as it has characters, and one.                               *)
Uleb(v) == LET u[n \in Nat] == IF n < 128 THEN <<n>> ELSE <<128 + (n % 128)>> \o u[n \div 128] IN u[v]
SlebUnsigned(v) ==
  LET s[n \in Int] == IF n \div 128 \in {0, -1} THEN <<n % 128>> ELSE <<128 + (n % 128)>> \o s[n \div 128] IN s[v]
Sleb(v) ==
  LET s[n \in Int] ==
        LET byte == n % 128
            rest == n \div 128
        IN  IF (rest = 0 /\ byte < 64) \/ (rest = -1 /\ byte >= 64) THEN <<byte>> ELSE <<128 + byte>> \o s[rest]
  IN  s[v]
Str(s) == [i \in 1 .. Len(s) + 1 |-> 0]
Patched32(b, off, v) == At(b, off, B32(v))

DebugAbbrev ==
  <<1, 17, 0, 37, 8, 19, 11, 3, 8, 17, 1, 18, 6, 16, 23, 0, 0, 0>>
DebugInfo(a) ==                                      \* with what is to be relocated: <<offset, section>>
  LET head == B32(0) \o B16(4)
      die == head \o B32(0) \o B8(4) \o Uleb(1) \o Str("c68k") \o B8(12) \o Str(a.dbg_file)
      range == die \o B32(0) \o B32(Len(a.buf[S_TEXT]))
      whole == range \o B32(0)
  IN  [bytes |-> Patched32(whole, 0, Len(whole) - 4),
       abbrev |-> Len(head), lowpc |-> Len(die), stmt |-> Len(range)]

Row(at, r) ==                                        \* from address and line at to the row r
  (IF r.addr # at.addr THEN <<2>> \o Uleb(r.addr - at.addr) ELSE <<>>)
  \o (IF r.line # at.line THEN <<3>> \o Sleb(r.line - at.line) ELSE <<>>) \o <<1>>
Rows(a) ==
  LET start == [addr |-> 0, line |-> 1]
  IN  FlattenSeq([k \in DOMAIN a.lrows |-> Row(IF k = 1 THEN start ELSE a.lrows[k - 1], a.lrows[k])])
DebugLine(a) ==
  LET fields == <<1, 1, 1, 251, 14, 13, 0, 1, 1, 1, 1, 0, 0, 0, 1, 0, 0, 1, 0>>
      head == fields \o Str(a.dbg_file) \o Uleb(0) \o Uleb(0) \o Uleb(0) \o B8(0)
      prologue == B32(0) \o B16(4) \o B32(Len(head)) \o head \o <<0, 5, 2>>
      left == Len(a.buf[S_TEXT]) - Last(a.lrows).addr
      whole == prologue \o B32(0) \o Rows(a) \o (IF left > 0 THEN <<2>> \o Uleb(left) ELSE <<>>) \o <<0, 1, 1>>
  IN  [bytes |-> Patched32(whole, 0, Len(whole) - 4), addr |-> Len(prologue)]
-----------------------------------------------------------------------------
(* The numbers of the sections, computed before the sections are listed.   *)
Count(p) == IF p THEN 1 ELSE 0
HaveRt(a) == \E r \in Range(a.rels) : r.sec # S_DATA
HaveRd(a) == \E r \in Range(a.rels) : r.sec = S_DATA
HaveDbg(a) == a.lrows # <<>>
IdxDabbrevNoData(a) == S_RODATA + 1 + Count(HaveRt(a))
IdxDabbrev(a) == S_RODATA + 1 + Count(HaveRt(a)) + Count(HaveRd(a))
IdxDinfo(a) == IdxDabbrev(a) + 1
IdxDline(a) == IdxDabbrev(a) + 2
IdxSymtab(a) == IdxDabbrev(a) + 5 * Count(HaveDbg(a))

(* A symbol is global if it is declared so or not defined.                 *)
BoundDeclared(a, s) == IF s.name \in a.public_names \cup a.extern_names THEN "global" ELSE "local"
Bound(a, s) ==
  IF s.shndx = 0 \/ s.name \in a.public_names \cup a.extern_names THEN "global" ELSE "local"
SectionSym(shndx) == [name |-> "", shndx |-> shndx, value |-> 0, size |-> 0, bind |-> "local", type |-> "section"]
Symbols(a) ==
  [k \in DOMAIN a.syms |-> a.syms[k] @@ [bind |-> Bound(a, a.syms[k]),
                                         type |-> IF a.syms[k].name \in a.func_names THEN "func" ELSE "notype"]]
  \o (IF HaveDbg(a) THEN <<SectionSym(S_TEXT), SectionSym(IdxDabbrev(a)), SectionSym(IdxDline(a))>> ELSE <<>>)
(* Locals first; the numbers are the places, from 1.                       *)
Ordered(syms) == SelectSeq(syms, LAMBDA s : s.bind = "local") \o SelectSeq(syms, LAMBDA s : s.bind = "global")
FirstGlobal(syms) == Len(SelectSeq(syms, LAMBDA s : s.bind = "local")) + 1

(* A string table: the names at their offsets, and its size.               *)
NoStrings == [at |-> <<>>, size |-> 1]
AddStr(t, name) == [at |-> Append(t.at, <<t.size, name>>), size |-> t.size + Len(name) + 1]
Named(t, name) == IF name = "" THEN t ELSE AddStr(t, name)
NameOff(t, name) == IF name = "" THEN 0 ELSE t.size
TableOf(syms) ==                                     \* the entries of .symtab, and .strtab
  FoldLeft(LAMBDA x, s :
             [entries |-> Append(x.entries, [name |-> NameOff(x.strings, s.name), value |-> s.value, size |-> s.size,
                                             bind |-> s.bind, type |-> s.type, shndx |-> s.shndx]),
              strings |-> Named(x.strings, s.name)],
           [entries |-> <<>>, strings |-> NoStrings], syms)

Rela(a, syms, data) ==
  LET of == SelectSeq(a.rels, LAMBDA r : (r.sec = S_DATA) = data)
  IN  [k \in DOMAIN of |-> <<of[k].off, SelectInSeq(syms, LAMBDA s : s.name = of[k].sym), of[k].add>>]
ToSection(syms, off, n) == <<off, SelectInSeq(syms, LAMBDA s : s.type = "section" /\ s.shndx = n), 0>>

Shdr(name, type, link, info, align, data, size) ==
  [name |-> name, type |-> type, link |-> link, info |-> info, align |-> align, data |-> data, size |-> size]
Bytes(name, align, b) == Shdr(name, "progbits", 0, 0, align, b, Len(b))
RelaOf(a, name, info, entries) == Shdr(name, "rela", IdxSymtab(a), info, 4, entries, 12 * Len(entries))
DebugSections(a, syms, info, line) ==
  <<Bytes(".debug_abbrev", 1, DebugAbbrev), Bytes(".debug_info", 1, info.bytes), Bytes(".debug_line", 1, line.bytes),
    RelaOf(a, ".rela.debug_info", IdxDinfo(a),
           <<ToSection(syms, info.abbrev, IdxDabbrev(a)), ToSection(syms, info.lowpc, S_TEXT),
             ToSection(syms, info.stmt, IdxDline(a))>>),
    RelaOf(a, ".rela.debug_line", IdxDline(a), <<ToSection(syms, line.addr, S_TEXT)>>)>>

Strings(name, t) == Shdr(name, "strtab", 0, 0, 1, t, t.size)
SectionList(a, syms, table) ==
  <<Shdr("", "null", 0, 0, 0, <<>>, 0), Bytes(".text", 4, a.buf[S_TEXT]), Bytes(".data", 4, a.buf[S_DATA]),
    Shdr(".bss", "nobits", 0, 0, 4, <<>>, a.bss_size), Bytes(".rodata", 4, a.buf[S_RODATA])>>
  \o (IF HaveRt(a) THEN <<RelaOf(a, ".rela.text", S_TEXT, Rela(a, syms, FALSE))>> ELSE <<>>)
  \o (IF HaveRd(a) THEN <<RelaOf(a, ".rela.data", S_DATA, Rela(a, syms, TRUE))>> ELSE <<>>)
  \o (IF HaveDbg(a) THEN DebugSections(a, syms, DebugInfo(a), DebugLine(a)) ELSE <<>>)
  \o <<Shdr(".symtab", "symtab", IdxSymtab(a) + 1, FirstGlobal(syms), 4, table.entries, 16 * (Len(table.entries) + 1)),
       Strings(".strtab", table.strings)>>

(* The names of the sections go into the last of them.                     *)
SectionNames(list) ==
  FoldLeft(LAMBDA x, s : [off |-> Append(x.off, NameOff(x.strings, s.name)), strings |-> Named(x.strings, s.name)],
           [off |-> <<>>, strings |-> NoStrings], list \o <<Strings(".shstrtab", NoStrings)>>)
AllSections(list) ==
  LET names == SectionNames(list)
      all == list \o <<Strings(".shstrtab", names.strings)>>
  IN  [k \in DOMAIN all |-> all[k] @@ [nameoff |-> names.off[k]]]

RoundUp(n, to) == IF to > 1 THEN n + Len(Padding(n, to)) ELSE n
InFile(s) == s.type \notin {"null", "nobits"} /\ s.size # 0
LaidOut(all) ==                                      \* the place of each section, and the end
  FoldLeft(LAMBDA x, s : LET o == IF InFile(s) THEN RoundUp(x.end, s.align) ELSE x.end
                         IN  [off |-> Append(x.off, o), end |-> IF InFile(s) THEN o + s.size ELSE o],
           [off |-> <<>>, end |-> 52], all)

(* What is written: pieces where the write position is, the table of       *)
(* section headers after them, and the header that leads to it.            *)
Later(m, n) == IF m > n THEN m ELSE n
WriteElf(all, place, shstr) ==
  LET shoff == RoundUp(place.end, 4)
      body == FoldLeft(LAMBDA x, k : LET pos == Later(x.pos, place.off[k])
                                     IN  IF InFile(all[k])
                                         THEN [pos |-> pos + all[k].size, at |-> x.at @@ (pos :> all[k].data)] ELSE x,
                       [pos |-> 52, at |-> <<>>], [k \in DOMAIN all |-> k])
      header(k) == [name |-> all[k].nameoff, type |-> all[k].type, offset |-> place.off[k], size |-> all[k].size,
                    link |-> all[k].link, info |-> all[k].info, align |-> all[k].align]
  IN  [shoff |-> shoff, shnum |-> Len(all), shstrndx |-> shstr, at |-> body.at,
       table |-> Later(body.pos, shoff) :> [k \in DOMAIN all |-> header(k)]]
Elf(a, syms) ==
  LET all == AllSections(SectionList(a, syms, TableOf(syms)))
  IN  WriteElf(all, LaidOut(all), IdxSymtab(a) + 2)

Write ==
  /\ stage = "resolved" /\ stage' = "written"
  /\ file' = Elf(asm, Ordered(Symbols(asm)))
  /\ UNCHANGED <<source, read, asm>>

Next ==
  \/ Skip \/ Section \/ AlignTo \/ Public \/ Extern \/ CodeLabel \/ Data \/ Space \/ NamedData
  \/ Instruction \/ DebugFunc \/ DebugEndFunc \/ DebugFile \/ DebugLoc \/ ResolveFixups \/ Write
Spec == Init /\ [][Next]_vars
=============================================================================
