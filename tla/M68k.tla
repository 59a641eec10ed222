-------------------------------- MODULE M68k --------------------------------
(***************************************************************************)
(* The processor the generated code runs on, as far as the code generator  *)
(* uses it: registers of four bytes, a big-endian memory, the condition    *)
(* codes, and the helpers of the runtime library.  A byte has Byte bits:   *)
(* with two of them a long has 8 bits, a long long 16, and the memory 256  *)
(* bytes, so that every address is one.                                    *)
(***************************************************************************)
EXTENDS Integers, SequencesExt, Bitwise

CONSTANT Byte
ASSUME ByteAssumption == Byte \in Nat \ {0}

Span(sz) == 2 ^ (Byte * sz)
Signed(v, sz) == IF v >= Span(sz) \div 2 THEN v - Span(sz) ELSE v
ByteOf(v, i, sz) == (v \div Span(sz - i)) % Span(1)
ReadAt(mem, at, sz) ==
  FoldLeft(LAMBDA v, i : v * Span(1) + mem[(at + i - 1) % Span(4)], 0, [i \in 1 .. sz |-> i])
WriteAt(mem, at, sz, v) ==
  FoldLeft(LAMBDA m, i : [m EXCEPT ![(at + i - 1) % Span(4)] = ByteOf(v, i, sz)], mem, [i \in 1 .. sz |-> i])

(* Operands: <<register>>, <<"#", n>>, <<"ea", address>>, <<"code", label>>,*)
(* <<"(", register, displacement>>, <<"push">>, <<"pop">>, <<"(a0)+">>,    *)
(* <<"(a0,d1)">>.                                                          *)
AddressRegs == {"a0", "a1", "a2", "a3", "a4", "a5", "a6", "sp"}
Regs == {"d0", "d1", "d2", "d3", "d4", "d5", "d6", "d7"} \cup AddressRegs
Scratch == {"d0", "d1", "a0", "a1"}
Addressed(m, ea, sz) ==
  CASE ea[1] = "ea" -> ea[2]
    [] ea[1] = "(" -> (m.r[ea[2]] + ea[3]) % Span(4)
    [] ea[1] = "push" -> (m.r["sp"] - sz) % Span(4)
    [] ea[1] = "pop" -> m.r["sp"]
    [] ea[1] = "(a0)+" -> m.r["a0"]
    [] ea[1] = "(a0,d1)" -> (m.r["a0"] + m.r["d1"]) % Span(4)
Operand(m, s, sz) ==
  CASE s[1] \in Regs -> m.r[s[1]] % Span(sz)
    [] s[1] = "#" -> s[2] % Span(sz)
    [] s = <<>> -> 0
    [] OTHER -> ReadAt(m.mem, Addressed(m, s, sz), sz)

(* The side effect of an operand on its address register.                  *)
Moved(m, r, by) == [m EXCEPT !.r[r] = (@ + by) % Span(4)]
Stepped(m, s, sz) ==
  CASE s = <<"push">> -> Moved(m, "sp", -sz)
    [] s = <<"pop">> -> Moved(m, "sp", sz)
    [] s = <<"(a0)+">> -> Moved(m, "a0", sz)
    [] OTHER -> m

(* A data register keeps its high part.                                    *)
Stored(m, d, sz, v) ==
  IF d[1] \in Regs THEN [m EXCEPT !.r[d[1]] = (@ \div Span(sz)) * Span(sz) + v]
  ELSE [m EXCEPT !.mem = WriteAt(@, Addressed(m, d, sz), sz, v)]
Put(m, i, v) == Stepped(Stored(Stepped(m, i.s, i.sz), i.d, i.sz, v), i.d, i.sz)

Flagged(m, v, sz) == [m EXCEPT !.n = v >= Span(sz) \div 2, !.z = v = 0, !.v = FALSE, !.c = FALSE]
SumFlags(m, sz, a, b, k) ==
  LET v == (a + b + k) % Span(sz)
  IN  [Flagged(m, v, sz) EXCEPT !.c = a + b + k >= Span(sz), !.x = a + b + k >= Span(sz),
                                !.v = Signed(a, sz) + Signed(b, sz) + k # Signed(v, sz)]
DifferenceFlags(m, sz, a, b, k) ==
  LET v == (a - b - k) % Span(sz)
  IN  [Flagged(m, v, sz) EXCEPT !.c = a < b + k, !.x = a < b + k,
                                !.v = Signed(a, sz) - Signed(b, sz) - k # Signed(v, sz)]
Holds(m, cc) ==
  CASE cc = "eq" -> m.z [] cc = "ne" -> ~ m.z
    [] cc = "cs" -> m.c [] cc = "cc" -> ~ m.c
    [] cc = "ls" -> m.c \/ m.z [] cc = "hi" -> ~ m.c /\ ~ m.z
    [] cc = "lt" -> m.n # m.v [] cc = "ge" -> m.n = m.v
    [] cc = "le" -> m.z \/ m.n # m.v [] cc = "gt" -> ~ m.z /\ m.n = m.v
    [] cc = "pl" -> ~ m.n [] cc = "vc" -> ~ m.v [] cc = "ra" -> TRUE
-----------------------------------------------------------------------------
Quotient(a, b) ==
  (IF (a < 0) = (b < 0) THEN 1 ELSE -1) * ((IF a < 0 THEN -a ELSE a) \div (IF b < 0 THEN -b ELSE b))

(* Integer arithmetic on patterns of sz bytes: what an operation of C on   *)
(* two operands of one type gives, and what the runtime's helpers compute. *)
Calc(op, a, b, sz, u) ==
  LET x == IF u THEN a ELSE Signed(a, sz)
      y == IF u THEN b ELSE Signed(b, sz)
      n == b % (Byte * sz)
      truth(p) == IF p THEN 1 ELSE 0
  IN  (CASE op = "add" -> a + b [] op = "sub" -> a - b
         [] op = "mul" -> Signed(a, sz) * Signed(b, sz)
         [] op = "div" -> IF y = 0 THEN 0 ELSE Quotient(x, y)
         [] op = "mod" -> IF y = 0 THEN 0 ELSE x - y * Quotient(x, y)
         [] op = "and" -> a & b [] op = "or" -> a | b [] op = "xor" -> a ^^ b
         [] op = "shl" -> x * 2 ^ n [] op = "shr" -> x \div 2 ^ n
         [] op = "eq" -> truth(x = y) [] op = "ne" -> truth(x # y)
         [] op = "lt" -> truth(x < y) [] op = "le" -> truth(x <= y)
         [] op = "cmp" -> IF x < y THEN -1 ELSE truth(x > y)) % Span(sz)

(* The soft-float library, left uninterpreted: any functions will do that  *)
(* tell the operation, its operands and their order apart.  The patterns   *)
(* compare as signed integers, the two zeros are equal, NaN is unordered.  *)
NaN(sz) == Span(sz) \div 2 - 1
Flo(op, a, b, sz) ==
  (CASE op = "add" -> 2 * a + 3 * b + 1 [] op = "sub" -> 3 * a + b + 2
     [] op = "mul" -> a + 2 * b + 3 [] op = "div" -> a + 3 * b) % Span(sz)
FloZero(a, sz) == a % (Span(sz) \div 2) = 0
FloOrder(a, b, sz) ==
  IF NaN(sz) \in {a, b} THEN 2
  ELSE IF a = b \/ (FloZero(a, sz) /\ FloZero(b, sz)) THEN 0
  ELSE IF Signed(a, sz) < Signed(b, sz) THEN -1 ELSE 1

(* Conversions: <<"ftof", from size, to size>>, <<"itof", from size,       *)
(* unsigned, to size>>, <<"ftoi", from size, to size>>.                    *)
Conv(c, v) ==
  CASE c[1] = "ftof" -> (v * 3 + c[2]) % Span(c[3])
    [] c[1] = "itof" -> (3 * (IF c[3] THEN v ELSE Signed(v, c[2])) + 1) % Span(c[4])
    [] c[1] = "ftoi" -> (v * 3 + 1) % (Span(c[3]) \div 2)

(* A call leaves its result in d0, or in d0 and d1, and may leave anything *)
(* in the other registers that a function may change; a helper on eight    *)
(* bytes also in d2 and d3, its operand.                                   *)
Junk == Span(4) - 2
Returned(m, v, sz) ==
  [m EXCEPT !.r = [@ EXCEPT !["a0"] = Junk, !["a1"] = Junk,
                            !["d0"] = (IF sz = 8 THEN v \div Span(4) ELSE v) % Span(4),
                            !["d1"] = IF sz = 8 THEN v % Span(4) ELSE Junk]]
Pair(m, hi, lo) == m.r[hi] * Span(4) + m.r[lo]
StackArg(m, off, sz) == ReadAt(m.mem, m.r["sp"] + off, sz)

(* jsr: <<"code", label>>, <<"(", "a0", 0>>, or a helper: <<"int", op,     *)
(* size, unsigned>> takes registers, <<"flo", op, size>>, <<"flocmp",      *)
(* size>> and the conversions read the stack.                              *)
Helped(m, f) ==
  CASE f[1] = "int" ->
         IF f[3] = 4 THEN Returned(m, Calc(f[2], m.r["d0"], m.r["d1"], 4, f[4]), 4)
         ELSE LET r == IF f[2] \in {"shl", "shr"} THEN m.r["d2"] ELSE Pair(m, "d2", "d3")
              IN  [Returned(m, Calc(f[2], Pair(m, "d0", "d1"), r, 8, f[4]), IF f[2] = "cmp" THEN 4 ELSE 8)
                     EXCEPT !.r["d2"] = Junk, !.r["d3"] = Junk]
    [] f[1] = "flo" -> Returned(m, Flo(f[2], StackArg(m, 0, f[3]), StackArg(m, f[3], f[3]), f[3]), f[3])
    [] f[1] = "flocmp" ->
         LET k == FloOrder(StackArg(m, 0, f[2]), StackArg(m, f[2], f[2]), f[2])
         IN  [Returned(m, k, 4) EXCEPT !.n = k = -1, !.z = k = 0, !.v = k = 2]
    [] OTHER -> LET sz == f[Len(f)] IN Returned(m, Conv(f, StackArg(m, 0, f[2])), sz)

Label(code, l) == CHOOSE k \in DOMAIN code : code[k].op = "label" /\ code[k].s = <<l>>
Pushed(m, v) == [Moved(m, "sp", -4) EXCEPT !.mem = WriteAt(@, m.r["sp"] - 4, 4, v)]
Popped(m, r) == Moved([m EXCEPT !.r[r] = ReadAt(m.mem, m.r["sp"], 4)], "sp", 4)

(* setjmp keeps the place of the call and every register but the scratch   *)
(* ones; longjmp(v) goes back there with them.  What lies below the stack  *)
(* pointer may be lost meanwhile.                                          *)
Called(m, code, f) ==
  CASE f[1] = "code" -> [Pushed(m, m.pc) EXCEPT !.pc = Label(code, f[2])]
    [] f[1] = "(" -> [Pushed(m, m.pc) EXCEPT !.pc = m.r["a0"]]
    [] f = <<"setjmp">> ->
         [Returned(m, 0, 4) EXCEPT !.jb = [r |-> [x \in Regs \ Scratch |-> m.r[x]], pc |-> m.pc]]
    [] f = <<"longjmp">> ->
         LET v == StackArg(m, 0, 4)
         IN  [Returned(m, IF v = 0 THEN 1 ELSE v, 4) EXCEPT
                !.r = m.jb.r @@ @, !.pc = m.jb.pc,
                !.mem = [x \in DOMAIN @ |-> IF x >= m.jb.r["sp"] /\ x < m.r["sp"] THEN 1 ELSE @[x]]]
    [] OTHER -> Helped(m, f)

(* One instruction i, at m.pc in code.                                     *)
Executed(m, code) ==
  LET i == code[m.pc]
      next == [m EXCEPT !.pc = @ + 1]
      a == Operand(m, i.d, i.sz)
      b == Operand(m, i.s, i.sz)
      k == IF i.op \in {"addx", "subx", "negx"} /\ m.x THEN 1 ELSE 0
      logic(v) == Put(Flagged(next, v, i.sz), i, v)
      sum == Put(SumFlags(next, i.sz, a, b, k), i, (a + b + k) % Span(i.sz))
      difference(p, q) == Put(DifferenceFlags(next, i.sz, p, q, k), i, (p - q - k) % Span(i.sz))
      zeroKept(n) == [n EXCEPT !.z = @ /\ m.z]
      shifted(v) == logic(v % Span(4))
      n == b % 64
  IN  CASE i.op = "label" -> next
        [] i.op = "move" -> IF i.d[1] \in AddressRegs THEN Put(next, i, b) ELSE logic(b)
        [] i.op = "lea" ->
             Put(next, i, IF i.s[1] = "code" THEN Label(code, i.s[2]) ELSE Addressed(m, i.s, 4))
        [] i.op = "adda" -> Put(next, i, (a + b) % Span(4))
        [] i.op = "suba" -> Put(next, i, (a - b) % Span(4))
        [] i.op = "add" -> sum
        [] i.op = "addx" -> zeroKept(sum)
        [] i.op = "sub" -> difference(a, b)
        [] i.op = "subx" -> zeroKept(difference(a, b))
        [] i.op = "neg" -> difference(0, a)
        [] i.op = "negx" -> zeroKept(difference(0, a))
        [] i.op = "cmp" -> [DifferenceFlags(next, i.sz, a, b, 0) EXCEPT !.x = m.x]
        [] i.op = "not" -> logic(Span(i.sz) - 1 - a)
        [] i.op = "and" -> logic(a & b)
        [] i.op = "or" -> logic(a | b)
        [] i.op = "eor" -> logic(a ^^ b)
        [] i.op = "clr" -> logic(0)
        [] i.op = "tst" -> Flagged(next, a, i.sz)
        [] i.op = "ext" -> logic(Signed(a % Span(i.sz \div 2), i.sz \div 2) % Span(i.sz))
        [] i.op = "asl" -> shifted(IF n >= Byte * 4 THEN 0 ELSE a * 2 ^ n)
        [] i.op = "lsr" -> shifted(IF n >= Byte * 4 THEN 0 ELSE a \div 2 ^ n)
        [] i.op = "asr" -> shifted(Signed(a, 4) \div 2 ^ (IF n >= Byte * 4 THEN Byte * 4 ELSE n))
        [] i.op = "s" -> Stored(next, i.d, 1, IF Holds(m, i.s[1]) THEN Span(1) - 1 ELSE 0)
        [] i.op = "b" -> IF Holds(m, i.s[1]) THEN [m EXCEPT !.pc = Label(code, i.d[1])] ELSE next
        [] i.op = "dbra" ->
             LET left == (m.r["d1"] - 1) % Span(2)
                 n1 == Stored(next, <<"d1">>, 2, left)
             IN  IF left = Span(2) - 1 THEN n1 ELSE [n1 EXCEPT !.pc = Label(code, i.d[1])]
        [] i.op = "jsr" -> Called(next, code, i.s)
        [] i.op = "rts" -> [Moved(m, "sp", 4) EXCEPT !.pc = ReadAt(m.mem, m.r["sp"], 4)]
        [] i.op = "link" ->
             LET p == Pushed(next, m.r["a6"])
             IN  Moved([p EXCEPT !.r["a6"] = p.r["sp"]], "sp", -i.s[2])
        [] i.op = "unlk" -> Popped([next EXCEPT !.r["sp"] = m.r["a6"]], "a6")
        [] i.op = "save" -> FoldRight(LAMBDA r, n1 : Pushed(n1, m.r[r]), i.s, next)
        [] i.op = "restore" -> FoldLeft(LAMBDA n1, r : Popped(n1, r), next, i.s)
=============================================================================
