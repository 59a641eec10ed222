---------------------------- MODULE ObjectReader ----------------------------
(***************************************************************************)
(* What the object file is for: a linker that puts its sections somewhere  *)
(* and applies its relocations, the processor that decodes the result, and *)
(* a debugger that runs its line-number program.  They see the file alone, *)
(* follow the ELF, DWARF and 68000 manuals, and must find the assembly     *)
(* text in it.                                                             *)
(***************************************************************************)
EXTENDS ObjectFile

CONSTANT External(_)                                 \* where the linker finds an imported name

Headers(f) == f.table[f.shoff]
Contents(f, h) == IF InFile(h) THEN f.at[h.offset] ELSE <<>>
StringAt(t, off) ==
  LET k == SelectInSeq(t.at, LAMBDA e : e[1] = off) IN IF k = 0 THEN "" ELSE t.at[k][2]
SectionName(f, h) == StringAt(Contents(f, Headers(f)[f.shstrndx + 1]), h.name)
Numbers(f, p(_)) == {k \in 0 .. f.shnum - 1 : p(Headers(f)[k + 1])}
Number(f, name) == CHOOSE k \in 0 .. f.shnum - 1 : SectionName(f, Headers(f)[k + 1]) = name

Symtab(f) == Headers(f)[Number(f, ".symtab") + 1]
Entries(f) == Contents(f, Symtab(f))
EntryName(f, e) == StringAt(Contents(f, Headers(f)[Symtab(f).link + 1]), e.name)

Base(k) == 70000 * k                                 \* where section k is put
EntryAddress(f, e) == IF e.shndx = 0 THEN External(EntryName(f, e)) ELSE Base(e.shndx) + e.value
Address(f, name) == EntryAddress(f, Entries(f)[SelectInSeq(Entries(f), LAMBDA e : EntryName(f, e) = name)])

(* The bytes of section k after the relocations that are for it.           *)
Linked(f, k) ==
  LET tables == Numbers(f, LAMBDA h : h.type = "rela" /\ h.info = k)
      apply(b, r) == At(b, r[1], B32(EntryAddress(f, Entries(f)[r[2]]) + r[3]))
  IN  FoldSet(LAMBDA t, b : FoldLeft(apply, b, Contents(f, Headers(f)[t + 1])), Contents(f, Headers(f)[k + 1]), tables)
-----------------------------------------------------------------------------
(* The processor's manual.  An instruction comes back as [op, sz, s, d,    *)
(* next], with addresses for labels and signed immediates.                 *)
SignedAs(v, span) == IF v >= span \div 2 THEN v - span ELSE v
U16(b, p) == b[p + 1] * 256 + b[p + 2]
S16(b, p) == SignedAs(U16(b, p), 65536)
S32(b, p) == S16(b, p) * 65536 + U16(b, p + 2)
Immediate(b, p, sz) ==
  CASE sz = 4 -> S32(b, p) [] sz = 2 -> S16(b, p) [] sz = 1 -> SignedAs(U16(b, p) % 256, 256)
ImmLen(sz) == IF sz = 4 THEN 4 ELSE 2

(* <<operand, where its extension ends>>.                                  *)
EaAt(b, p, mode, reg, sz) ==
  LET an == AddressReg[reg + 1]
      x == U16(b, p)
  IN  CASE mode = 0 -> <<<<DataReg[reg + 1]>>, p>>
        [] mode = 1 -> <<<<an>>, p>>
        [] mode = 2 -> <<<<"(", an>>, p>>
        [] mode = 3 -> <<<<")+", an>>, p>>
        [] mode = 4 -> <<<<"-(", an>>, p>>
        [] mode = 5 -> <<<<"d(", S16(b, p), an>>, p + 2>>
        [] mode = 6 -> <<<<"(,", an, (IF x >= 32768 THEN AddressReg ELSE DataReg)[((x \div 4096) % 8) + 1],
                           IF (x \div 2048) % 2 = 1 THEN "l" ELSE "w">>, p + 2>>
        [] mode = 7 -> IF reg = 1 THEN <<<<"abs", S32(b, p)>>, p + 4>>
                       ELSE <<<<"#", Immediate(b, p, sz)>>, p + ImmLen(sz)>>
Insn(op, sz, s, d, next) == [op |-> op, sz |-> sz, s |-> s, d |-> d, next |-> next]
SizeOf(three) == CASE three % 4 = 0 -> 1 [] three % 4 = 1 -> 2 [] three % 4 = 2 -> 4
Dn(n) == <<DataReg[n + 1]>>
An(n) == <<AddressReg[n + 1]>>
Registers(mask, down) ==
  {(IF k < 8 THEN DataReg ELSE AddressReg)[(k % 8) + 1] :
     k \in {j \in 0 .. 15 : (mask \div 2 ^ (IF down THEN 15 - j ELSE j)) % 2 = 1}}
Cond(n) == Conditions[n + 1]

DecodeMove(b, p, sz, w, to, src) ==
  LET dst == EaAt(b, src[2], to, w.reg, sz) IN Insn("move", sz, src[1], dst[1], dst[2])
DecodeMisc(b, p, w, ea(_)) ==
  CASE w.three = 7 -> LET e == ea(4) IN Insn("lea", 4, e[1], An(w.reg), e[2])
    [] w.reg = 4 /\ w.mode = 0 -> Insn("ext", IF w.three = 3 THEN 4 ELSE 2, <<>>, Dn(w.r), p)
    [] w.reg = 4 -> LET e == EaAt(b, p + 2, w.mode, w.r, 4)
                    IN  Insn("save", IF w.three = 3 THEN 4 ELSE 2, Registers(U16(b, p), w.mode = 4), e[1], e[2])
    [] w.reg = 6 -> LET e == EaAt(b, p + 2, w.mode, w.r, 4)
                    IN  Insn("restore", IF w.three = 3 THEN 4 ELSE 2, e[1], Registers(U16(b, p), FALSE), e[2])
    [] w.reg = 7 /\ w.three = 1 ->
         (CASE w.mode = 2 -> Insn("link", 0, An(w.r), <<"#", S16(b, p)>>, p + 2)
            [] w.mode = 3 -> Insn("unlk", 0, <<>>, An(w.r), p)
            [] w.mode = 6 -> Insn(IF w.r = 5 THEN "rts" ELSE "nop", 0, <<>>, <<>>, p))
    [] w.reg = 7 -> LET e == ea(4) IN Insn(IF w.three = 2 THEN "jsr" ELSE "jmp", 0, <<>>, e[1], e[2])
    [] OTHER -> LET e == ea(SizeOf(w.three))
                IN  Insn(CHOOSE o \in DOMAIN Unary : Unary[o] = w.reg, SizeOf(w.three), <<>>, e[1], e[2])
DecodeQuick(b, p, w, ea(_)) ==
  LET cc == Cond(2 * w.reg + w.three \div 4)
      e == ea(IF w.three % 4 = 3 THEN 1 ELSE SizeOf(w.three))
  IN  CASE w.three % 4 = 3 /\ w.mode = 1 -> Insn("db" \o cc, 0, <<"abs", p + S16(b, p)>>, Dn(w.r), p + 2)
        [] w.three % 4 = 3 -> Insn("s", 1, cc, e[1], e[2])
        [] OTHER -> Insn(IF w.three \div 4 = 1 THEN "subq" ELSE "addq", SizeOf(w.three),
                         <<"#", IF w.reg = 0 THEN 8 ELSE w.reg>>, e[1], e[2])
DecodeAlu(b, p, w, op, ea(_)) ==
  LET e == ea(IF w.three = 7 THEN 4 ELSE IF w.three = 3 THEN 2 ELSE SizeOf(w.three))
  IN  CASE w.three % 4 = 3 -> Insn(op \o "a", IF w.three = 7 THEN 4 ELSE 2, e[1], An(w.reg), e[2])
        [] w.three < 4 -> Insn(op, SizeOf(w.three), e[1], Dn(w.reg), e[2])
        [] op = "cmp" -> Insn("eor", SizeOf(w.three), Dn(w.reg), e[1], e[2])
        [] OTHER -> Insn(op \o "x", SizeOf(w.three), Dn(w.r), Dn(w.reg), p)
DecodeShift(w, p) ==
  LET name == (IF w.mode % 4 = 0 THEN "as" ELSE "ls") \o (IF w.three \div 4 = 1 THEN "l" ELSE "r")
      count == IF w.mode \div 4 = 1 THEN Dn(w.reg) ELSE <<"#", IF w.reg = 0 THEN 8 ELSE w.reg>>
  IN  Insn(name, SizeOf(w.three), count, Dn(w.r), p)
AluOp == 8 :> "or" @@ 9 :> "sub" @@ 11 :> "cmp" @@ 12 :> "and" @@ 13 :> "add"
ImmOp == 0 :> "or" @@ 1 :> "and" @@ 2 :> "sub" @@ 3 :> "add" @@ 5 :> "eor" @@ 6 :> "cmp"

DecodeWord(b, p, n, w) ==                            \* n the first word, w its fields, p what follows it
  LET ea(sz) == EaAt(b, p, w.mode, w.r, sz)
      top == n \div 4096
      sz == SizeOf(w.three)
  IN  CASE top = 0 -> LET e == EaAt(b, p + ImmLen(sz), w.mode, w.r, sz)
                      IN  Insn(ImmOp[w.reg], sz, <<"#", Immediate(b, p, sz)>>, e[1], e[2])
        [] top \in 1 .. 3 -> LET z == CASE top = 1 -> 1 [] top = 2 -> 4 [] top = 3 -> 2
                             IN  DecodeMove(b, p, z, w, w.three, ea(z))
        [] top = 4 -> DecodeMisc(b, p, w, ea)
        [] top = 5 -> DecodeQuick(b, p, w, ea)
        [] top = 6 -> Insn("b", 0, Cond(2 * w.reg + w.three \div 4), <<"abs", p + S16(b, p)>>, p + 2)
        [] top = 7 -> Insn("moveq", 4, <<"#", SignedAs(n % 256, 256)>>, Dn(w.reg), p)
        [] top = 14 -> DecodeShift(w, p)
        [] OTHER -> DecodeAlu(b, p, w, AluOp[top], ea)
Decode(b, p) ==
  LET n == U16(b, p)
  IN  DecodeWord(b, p + 2, n, [reg |-> (n \div 512) % 8, three |-> (n \div 64) % 8, mode |-> (n \div 8) % 8, r |-> n % 8])

(* The instruction of the text as the processor must see it.               *)
Plainly(f, o, sz) ==
  CASE o[1] = "sym" -> <<"abs", Address(f, StripExtmark(o[2])) + o[3]>>
    [] o[1] = "to" -> <<"abs", Address(f, o[2]) - Base(S_TEXT)>>
    [] OTHER -> o
Source(f, i) ==
  LET op == CASE i.op = "movea" -> "move" [] i.op = "andi" -> "and" [] i.op = "ori" -> "or" [] i.op = "eori" -> "eor"
              [] i.op \in {"adda", "suba"} /\ i.s[1] = "#" /\ i.s[2] \in 1 .. 8 -> SubSeq(i.op, 1, 3) \o "q"
              [] i.op = "dbra" -> "dbf"
              [] OTHER -> i.op
  IN  IF i.op \in {"save", "restore"} THEN [op |-> op, sz |-> i.sz, s |-> i.s, d |-> i.d]
      ELSE [op |-> op, sz |-> i.sz, s |-> IF i.op \in {"b", "s"} \/ i.s = <<>> THEN i.s ELSE Plainly(f, i.s, i.sz),
            d |-> IF i.d = <<>> THEN <<>> ELSE Plainly(f, i.d, i.sz)]
-----------------------------------------------------------------------------
(* The text walked along the linked sections: at is how far each has been  *)
(* read, sec the current one.  Each line must be found where at is.        *)
Found(f, st, code, i) ==
  LET x == Decode(code, st.at[S_TEXT])
      want == Source(f, i)
  IN  [st EXCEPT !.at[S_TEXT] = x.next,
                 !.ok = @ /\ want = [op |-> x.op, sz |-> x.sz, s |-> x.s, d |-> x.d]]
DataFound(f, st, bytes, d) ==
  LET want == IF Len(d) = 4 THEN B32(Address(f, StripExtmark(d[3])) + d[4])
              ELSE SubSeq(B32(d[3]), 5 - d[2], 4)
      p == st.at[st.sec]
  IN  [st EXCEPT !.at[st.sec] = p + Len(want), !.ok = @ /\ SubSeq(bytes, p + 1, p + Len(want)) = want]
LabelFound(f, st, sec, name) == [st EXCEPT !.ok = @ /\ Address(f, name) = Base(sec) + st.at[sec]]
LineFound(f, st, link, line) ==
  CASE line[1] = "section" -> [st EXCEPT !.sec = line[2]]
    [] line[1] = "align" -> [st EXCEPT !.at[st.sec] = @ + Len(Padding(@, line[2]))]
    [] line[1] = "label" -> LabelFound(f, st, st.sec, line[2])
    [] line[1] = "ds" -> [st EXCEPT !.at[S_BSS] = @ + line[2]]
    [] line[1] = "dc" -> DataFound(f, st, link[st.sec], line)
    [] line[1] = "named" ->
         IF line[3][1] = "ds" THEN [LabelFound(f, st, S_BSS, line[2]) EXCEPT !.at[S_BSS] = @ + line[3][2]]
         ELSE DataFound(f, LabelFound(f, st, st.sec, line[2]), link[st.sec], line[3])
    [] line[1] = "ins" -> Found(f, st, link[S_TEXT], line[2])
    [] OTHER -> st
AllFound(f, link) ==
  LET end == FoldLeft(LAMBDA st, line : LineFound(f, st, link, line),
                      [sec |-> 0, ok |-> TRUE, at |-> [k \in S_TEXT .. S_RODATA |-> 0]], source)
  IN  end.ok /\ \A k \in S_TEXT .. S_RODATA : end.at[k] = Headers(f)[k + 1].size

(* The file, linked anywhere, holds the assembly text: every instruction   *)
(* decodes to the one that was written, every branch lands on its label,   *)
(* every reference on its symbol, and every datum is where its name says   *)
(* (emit_elf.c's encoder, fixups and relocations together).                *)
LinkedIsSource == stage = "written" => AllFound(file, [k \in S_TEXT .. S_RODATA |-> Linked(file, k)])

(* The numbers that sections give of each other are right whichever of the *)
(* optional ones there are (they are computed twice, emit_elf.c:1219 and   *)
(* 1325), and every section is written at its offset, aligned, alone.      *)
Type(f, k) == Headers(f)[k + 1].type
FileIsLaidOut ==
  stage = "written" =>
  /\ file.shoff \in DOMAIN file.table
  /\ Type(file, file.shstrndx) = "strtab" /\ SectionName(file, Headers(file)[file.shstrndx + 1]) = ".shstrtab"
  /\ \A k \in DOMAIN Headers(file) :
       LET h == Headers(file)[k]
           named == SectionName(file, h)
       IN  /\ InFile(h) => h.offset \in DOMAIN file.at /\ h.offset % h.align = 0
           /\ InFile(h) => \A o \in DOMAIN file.at \cup DOMAIN file.table : o <= h.offset \/ o >= h.offset + h.size
           /\ h.type = "rela" => /\ Type(file, h.link) = "symtab"
                                 /\ named = ".rela" \o SectionName(file, Headers(file)[h.info + 1])
           /\ h.type = "symtab" => /\ Type(file, h.link) = "strtab"
                                   /\ SectionName(file, Headers(file)[h.link + 1]) = ".strtab"

(* What other modules see is what was declared: a name is global exactly   *)
(* if it is public or imported, the locals come first, up to the number in *)
(* the header, and a function's symbol spans its body.                     *)
Lines(kind) == {source[k][2] : k \in {j \in DOMAIN source : source[j][1] = kind}}
Place(kind, name) == CHOOSE k \in DOMAIN source : source[k][1] = kind /\ source[k][2] = name
SizeBetween(i, j) ==
  FoldLeft(LAMBDA n, k : IF source[k][1] = "ins" THEN n + Len(EncodeInsn(source[k][2]).bytes) ELSE n,
           0, [k \in 1 .. j - i |-> i + k])
SymbolTableExact ==
  stage = "written" =>
  \A k \in DOMAIN Entries(file) :
    LET e == Entries(file)[k]
        name == EntryName(file, e)
    IN  /\ e.bind = "local" <=> k < Symtab(file).info
        /\ e.bind = "global" <=> e.shndx = 0 \/ name \in Lines("public")
        /\ e.shndx = 0 <=> name # "" /\ name \notin Lines("label") \cup Lines("named")
        /\ e.type = "func" <=> name \in Lines("func")
        /\ e.type = "func" => e.size = SizeBetween(Place("label", name), Place("endfunc", name))
-----------------------------------------------------------------------------
(* A debugger's reading of the debugging sections, DWARF 4.                *)
UlebAt(b, p) ==                                      \* <<value, next>>
  LET n == SelectInSubSeq(b, p + 1, Len(b), LAMBDA x : x < 128)
  IN  <<FoldRight(LAMBDA x, v : (x % 128) + 128 * v, SubSeq(b, p + 1, n), 0), n>>
SlebAt(b, p) ==
  LET u == UlebAt(b, p) IN <<SignedAs(u[1], 2 ^ (7 * (u[2] - p))), u[2]>>

(* One operation of the line-number program; st.rows are the rows so far.  *)
Operation(b, st) ==
  LET p == st.p
      op == b[p + 1]
  IN  CASE op = 0 -> IF b[p + 3] = 2 THEN [st EXCEPT !.p = p + 7, !.addr = S32(b, p + 3)]
                     ELSE [st EXCEPT !.p = Len(b), !.rows = Append(@, <<st.addr, 0>>)]
        [] op = 1 -> [st EXCEPT !.p = p + 1, !.rows = Append(@, <<st.addr, st.line>>)]
        [] op = 2 -> LET u == UlebAt(b, p + 1) IN [st EXCEPT !.p = u[2], !.addr = @ + u[1]]
        [] op = 3 -> LET s == SlebAt(b, p + 1) IN [st EXCEPT !.p = s[2], !.line = @ + s[1]]
LineProgram(b) ==
  FoldLeft(LAMBDA st, k : IF st.p >= Len(b) THEN st ELSE Operation(b, st),
           [p |-> 10 + S32(b, 6), addr |-> 0, line |-> 1, rows |-> <<>>], b)

(* The line of an address is that of the last row at or below it.          *)
LineOf(rows, addr) ==
  LET k == SelectLastInSeq(rows, LAMBDA r : r[1] <= addr) IN IF k = 0 THEN 0 ELSE rows[k][2]
LastLoc(k) == SelectLastInSubSeq(source, 1, k, LAMBDA x : x[1] = "loc")
DecodedLines(f, rows) ==
  LET walk == FoldLeft(LAMBDA st, k :
                         IF source[k][1] # "ins" THEN st
                         ELSE [at |-> st.at + Len(EncodeInsn(source[k][2]).bytes),
                               ok |-> st.ok /\ LineOf(rows, Base(S_TEXT) + st.at)
                                               = IF LastLoc(k) = 0 THEN 0 ELSE source[LastLoc(k)][2]],
                       [at |-> 0, ok |-> TRUE], [k \in DOMAIN source |-> k])
  IN  walk.ok /\ Last(rows) = <<Base(S_TEXT) + walk.at, 0>>

(* Every instruction gets the line of the last ;@loc before it, and the    *)
(* table ends with the code: the deltas of addresses and lines, the LEB128 *)
(* numbers and the relocation of the first address are read back exactly.  *)
LinesDecode ==
  stage = "written" /\ Lines("loc") # {} =>
  LET line == Linked(file, Number(file, ".debug_line"))
      info == Linked(file, Number(file, ".debug_info"))
  IN  /\ S32(line, 0) = Len(line) - 4 /\ S32(info, 0) = Len(info) - 4
      /\ S32(info, Len(info) - 12) = Base(S_TEXT) /\ S32(info, Len(info) - 8) = Headers(file)[S_TEXT + 1].size
      /\ S32(info, 6) = Base(Number(file, ".debug_abbrev")) /\ S32(info, Len(info) - 4) = Base(Number(file, ".debug_line"))
      /\ DecodedLines(file, LineProgram(line).rows)
=============================================================================
