------------------------------- MODULE Encoder -------------------------------
(***************************************************************************)
(* The instruction encoder of emit_elf.c: an instruction of the generated  *)
(* assembly text to the bytes of its opcode and extension words, with the  *)
(* address fields that need a relocation and the branch displacements that *)
(* are filled in later.                                                    *)
(*                                                                         *)
(* An instruction is [op, sz, s, d].  Operands: <<register>>, <<"#", n>>,  *)
(* <<"-(", r>>, <<"(", r>>, <<")+", r>>, <<"d(", n, r>>,                   *)
(* <<"(,", r, index register, its size>>, <<"sym", name, addend>>; the     *)
(* registers of movem are a set, a branch has <<"to", label>>, link the    *)
(* operands <<register>> and <<"#", n>>.                                   *)
(***************************************************************************)
EXTENDS Integers, FiniteSets, SequencesExt

DataReg == <<"d0", "d1", "d2", "d3", "d4", "d5", "d6", "d7">>
AddressReg == <<"a0", "a1", "a2", "a3", "a4", "a5", "a6", "sp">>
IsAddress(r) == r \in Range(AddressReg)
RegNum(r) == (IF IsAddress(r) THEN SelectInSeq(AddressReg, LAMBDA x : x = r)
              ELSE SelectInSeq(DataReg, LAMBDA x : x = r)) - 1

B8(v) == <<v % 256>>
B16(v) == B8(v \div 256) \o B8(v)
B32(v) == B16(v \div 65536) \o B16(v)                \* v is signed
At(bytes, off, new) == SubSeq(bytes, 1, off) \o new \o SubSeq(bytes, off + Len(new) + 1, Len(bytes))

(* An effective address: its mode, its extension bytes, and the name and   *)
(* addend of a four-byte address field.                                    *)
Ea(mode, reg, ext) == [mode |-> mode, reg |-> reg, ext |-> ext, rel |-> <<>>]
ParseEa(o, sz) ==
  CASE o[1] = "#" -> Ea(7, 4, IF sz = 4 THEN B32(o[2]) ELSE B16(IF sz = 1 THEN o[2] % 256 ELSE o[2]))
    [] o[1] = "-(" -> Ea(4, RegNum(o[2]), <<>>)
    [] o[1] = "(," ->
         Ea(6, RegNum(o[2]), B16((IF IsAddress(o[3]) THEN 32768 ELSE 0) + 4096 * RegNum(o[3])
                                 + (IF o[4] = "w" THEN 0 ELSE 2048)))
    [] o[1] = "(" -> Ea(2, RegNum(o[2]), <<>>)
    [] o[1] = ")+" -> Ea(3, RegNum(o[2]), <<>>)
    [] o[1] = "d(" -> Ea(5, RegNum(o[3]), B16(o[2]))
    [] o[1] = "sym" -> [Ea(7, 1, B32(0)) EXCEPT !.rel = <<o[2], o[3]>>]
    [] OTHER -> Ea(IF IsAddress(o[1]) THEN 1 ELSE 0, RegNum(o[1]), <<>>)

MoveSize(sz) == CASE sz = 1 -> 1 [] sz = 2 -> 3 [] sz = 4 -> 2
StdSize(sz) == CASE sz = 1 -> 0 [] sz = 2 -> 1 [] sz = 4 -> 2
Conditions == <<"ra", "f", "hi", "ls", "cc", "cs", "ne", "eq", "vc", "vs", "pl", "mi", "ge", "lt", "gt", "le">>
CondCode(cc) == SelectInSeq(Conditions, LAMBDA x : x = cc) - 1

(* The opcode word: four bits, a register, three bits, mode and register.  *)
Word(top, reg, three, ea) == B16(4096 * top + 512 * reg + 64 * three + 8 * ea.mode + ea.reg)

(* What is emitted: bytes, relocations <<offset, name, addend>> and fixups *)
(* <<offset, label>>, with the offsets from the start of the instruction.  *)
Only(bytes) == [bytes |-> bytes, rels |-> <<>>, fixes |-> <<>>]
EmitExt(c, ea) ==
  [c EXCEPT !.bytes = @ \o ea.ext,
            !.rels = IF ea.rel = <<>> THEN @ ELSE Append(@, <<Len(c.bytes)>> \o ea.rel)]
Branch(word, label) == [Only(word \o B16(0)) EXCEPT !.fixes = <<<<Len(word), label>>>>]

ImmCode == [or |-> 0, ori |-> 0, and |-> 1, andi |-> 1, sub |-> 2, add |-> 3, eor |-> 5, eori |-> 5, cmp |-> 6]
TopNibble == [or |-> 8, sub |-> 9, suba |-> 9, subx |-> 9, cmp |-> 11, and |-> 12, add |-> 13, adda |-> 13, addx |-> 13]
Unary == [negx |-> 0, clr |-> 1, neg |-> 2, not |-> 3, tst |-> 5]
Shift == [asr |-> 0, lsr |-> 1, asl |-> 4, lsl |-> 5]            \* direction and type
IsSub(op) == IF op \in {"suba", "subq", "subx"} THEN 1 ELSE 0

Quick(i, ea) == Word(5, i.s[2] % 8, 4 * IsSub(i.op) + StdSize(i.sz), ea)
EncImm(i, ea) ==
  EmitExt(Only(Word(0, ImmCode[i.op], StdSize(i.sz), ea)
               \o (IF i.sz = 4 THEN B32(i.s[2]) ELSE B16(IF i.sz = 1 THEN i.s[2] % 256 ELSE i.s[2]))), ea)

(* The registers of movem, bit i for d0..d7, a0..sp, reversed for -(An).   *)
RegBit(r) == RegNum(r) + (IF IsAddress(r) THEN 8 ELSE 0)
MaskUnreversed(regs, ea) ==
  FoldLeft(LAMBDA n, i : IF i \in {RegBit(r) : r \in regs} THEN n + 2 ^ i ELSE n, 0, [k \in 1 .. 16 |-> k - 1])
Mask(regs, ea) ==
  FoldLeft(LAMBDA n, i : IF i \in {RegBit(r) : r \in regs} THEN n + 2 ^ (IF ea.mode = 4 THEN 15 - i ELSE i) ELSE n,
           0, [k \in 1 .. 16 |-> k - 1])
Movem(toMemory, regs, sz, ea) ==
  EmitExt(Only(Word(4, IF toMemory THEN 4 ELSE 6, IF sz = 4 THEN 3 ELSE 2, ea) \o B16(Mask(regs, ea))), ea)

EncodeAddress(i, s, d) ==                            \* adda, suba
  IF i.s[1] = "#" /\ i.s[2] \in 1 .. 8 THEN Only(Quick(i, Ea(1, d.reg, <<>>)))
  ELSE EmitExt(Only(Word(TopNibble[i.op], d.reg, IF i.sz = 4 THEN 7 ELSE 3, s)), s)

EncodeTwo(i, s, d) ==                                \* source and destination
  CASE i.op \in {"move", "movea"} ->
         EmitExt(EmitExt(Only(Word(MoveSize(i.sz), d.reg, d.mode, s)), s), d)
    [] i.op = "moveq" -> Only(B16(28672 + 512 * d.reg + (i.s[2] % 256)))
    [] i.op = "lea" -> EmitExt(Only(Word(4, d.reg, 7, s)), s)
    [] i.op \in {"andi", "ori", "eori"} -> EncImm(i, d)
    [] i.op \in {"add", "sub", "and", "or", "eor", "cmp"} ->
         IF i.s[1] = "#" THEN EncImm(i, d)
         ELSE IF i.op = "eor" THEN EmitExt(Only(Word(11, s.reg, 4 + StdSize(i.sz), d)), d)
         ELSE EmitExt(Only(Word(TopNibble[i.op], d.reg, StdSize(i.sz), s)), s)
    [] i.op \in {"adda", "suba"} -> EncodeAddress(i, s, d)
    [] i.op \in {"addq", "subq"} -> EmitExt(Only(Quick(i, d)), d)
    [] i.op \in {"addx", "subx"} -> Only(Word(TopNibble[i.op], d.reg, 4 + StdSize(i.sz), Ea(0, s.reg, <<>>)))
    [] i.op \in DOMAIN Shift ->
         LET n == IF i.s[1] = "#" THEN i.s[2] % 8 ELSE s.reg
             inRegister == IF i.s[1] = "#" THEN 0 ELSE 4
         IN  Only(Word(14, n, (Shift[i.op] \div 4) * 4 + StdSize(i.sz), Ea(inRegister + (Shift[i.op] % 4), d.reg, <<>>)))
    [] i.op = "link" -> Only(Word(4, 7, 1, Ea(2, s.reg, <<>>)) \o B16(i.d[2]))

EncodeOne(i, d) ==                                   \* one operand
  CASE i.op = "ext" -> Only(Word(4, 4, IF i.sz = 4 THEN 3 ELSE 2, Ea(0, d.reg, <<>>)))
    [] i.op \in DOMAIN Unary -> EmitExt(Only(Word(4, Unary[i.op], StdSize(i.sz), d)), d)
    [] i.op = "jsr" -> EmitExt(Only(Word(4, 7, 2, d)), d)
    [] i.op = "jmp" -> EmitExt(Only(Word(4, 7, 3, d)), d)
    [] i.op = "unlk" -> Only(Word(4, 7, 1, Ea(3, d.reg, <<>>)))
    [] i.op = "s" -> Only(Word(5, CondCode(i.s) \div 2, 4 * (CondCode(i.s) % 2) + 3, d))
    [] i.op = "dbra" -> Branch(Word(5, 0, 7, Ea(1, d.reg, <<>>)), i.s[2])

EncodeInsn(i) ==
  CASE i.op = "rts" -> Only(Word(4, 7, 1, Ea(6, 5, <<>>)))
    [] i.op = "nop" -> Only(Word(4, 7, 1, Ea(6, 1, <<>>)))
    [] i.op = "b" -> Branch(B16(24576 + 256 * CondCode(i.s)), i.d[2])
    [] i.op = "save" -> Movem(TRUE, i.s, i.sz, ParseEa(i.d, i.sz))
    [] i.op = "restore" -> Movem(FALSE, i.d, i.sz, ParseEa(i.s, i.sz))
    [] i.op \in {"ext", "jsr", "jmp", "unlk", "s", "dbra"} \cup DOMAIN Unary -> EncodeOne(i, ParseEa(i.d, i.sz))
    [] OTHER -> EncodeTwo(i, ParseEa(i.s, i.sz), ParseEa(i.d, i.sz))
=============================================================================
