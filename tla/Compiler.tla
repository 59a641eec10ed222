------------------------------ MODULE Compiler ------------------------------
(***************************************************************************)
(* The compiler as main.c drives it: a source is parsed, compiled at some  *)
(* level of optimisation, loaded and run, one instruction a step.  What it *)
(* computes must be what the source means.                                 *)
(***************************************************************************)
EXTENDS CMeaning, IrGen, Parser

CONSTANTS
  Jobs,          \* names of the programs
  Source(_),     \* the program of a name
  Inputs(_),     \* values of its first variables when it starts
  Modes,         \* optimisation: [o: a mode, ir: -fir, regalloc: -fregalloc]
  DataBase,      \* where the linker puts the first variable
  Read(_), Generate(_, _), Denote(_)
                 \* the phases and the reference: FrontEnd, BackEnd and Reference below

VARIABLES job, stage, mode, unit, code, m, input
vars == <<job, stage, mode, unit, code, m, input>>

Machine(mem) ==
  [r |-> [r \in Regs |-> IF r = "sp" THEN 0 ELSE Junk], mem |-> mem,
   n |-> FALSE, z |-> FALSE, v |-> FALSE, c |-> FALSE, x |-> FALSE, pc |-> 1, jb |-> <<>>]
Unused == [a \in 0 .. Span(4) - 1 |-> 1]
At0(globals) == Addresses(Variables(globals), DataBase)
Entry(v, ty) ==                                    \* v as a value of the type
  CASE ty.k = "bool" -> v % 2 [] IsFlonum(ty) -> v % Span(ty.sz) [] OTHER -> Fit(v, ty)
Entered(mem, globals, values) ==                   \* the inputs replace the first variables
  LET vs == Reverse(Variables(globals))
      entry(i) == Entry(values[i], vs[i].ty) % Span(vs[i].ty.sz)
  IN  FoldLeft(LAMBDA b, i : WriteAt(b, At0(globals)[vs[i].name], vs[i].ty.sz, entry(i)),
               mem, [i \in DOMAIN values |-> i])

FrontEnd(j) == LET tokens == Printed(Source(j)) IN Parsed(tokens)
BackEnd(u, how) ==
  LET live == SelectSeq(u.globals, LAMBDA g : g.name \in u.live /\ g.def)
  IN  Compiled([i \in DOMAIN live |-> Emitted(live[i], how, At0(u.globals))], how.o)

Init ==
  /\ job \in Jobs /\ stage = "source" /\ mode = <<>> /\ input = <<>>
  /\ unit = <<>> /\ code = <<>> /\ m = <<>>
ParseSource ==
  /\ stage = "source" /\ stage' = "parsed"
  /\ unit' = Read(job)
  /\ UNCHANGED <<job, mode, input, code, m>>
Compile ==
  /\ stage = "parsed" /\ stage' = "compiled"
  /\ mode' \in Modes
  /\ code' = Generate(unit, mode')
  /\ UNCHANGED <<job, input, unit, m>>
Start ==
  /\ stage = "compiled" /\ stage' = "running"
  /\ input' \in Inputs(job)
  /\ m' = Machine(Entered(Image(Variables(unit.globals), At0(unit.globals), code, Unused), unit.globals, input'))
  /\ unit' = <<>>
  /\ UNCHANGED <<job, mode, code>>
Halted == stage = "running" /\ code[m.pc].op = "label" /\ code[m.pc].s = <<"halt">>
Step ==
  /\ stage = "running" /\ ~ Halted
  /\ m' = Executed(m, code)
  /\ UNCHANGED <<job, stage, mode, unit, code, input>>
Ended == Halted /\ UNCHANGED vars
Next == ParseSource \/ Compile \/ Start \/ Step \/ Ended

(* The processor goes on until the program ends.  This is WF_vars(Next): a *)
(* step is enabled exactly until then, and changes the state.              *)
Fairness == []<><<TRUE>>_vars \/ <>[]Halted
Spec == Init /\ [][Next]_vars /\ Fairness
-----------------------------------------------------------------------------
Given(p) ==                                        \* the program with the inputs in its text
  LET given(t, v) == [t EXCEPT !.init = <<Lit(Entry(v, t.ty), t.ty)>>]
  IN  [p EXCEPT !.vars = [i \in DOMAIN @ |-> IF i \in DOMAIN input THEN given(@[i], input[i]) ELSE @[i]]]
Reference(j) == LET p == Given(Source(j)) IN Meaning(p)
ResultIsMeaning ==
  Halted => LET x == Denote(job) IN x.ub \/ m.r["d0"] = x.n

FrameAt(pc) == SelectLastInSubSeq(code, 1, pc, LAMBDA l : l.op = "link")
DepthIsTheStack ==
  LET i == code[m.pc]
      f == FrameAt(m.pc)
      saved == IF code[f + 1].op = "save" THEN 4 * Len(code[f + 1].s) ELSE 0
      dynamic == \E k \in DOMAIN code : code[k].op = "suba" /\ code[k].s = D0
  IN  stage = "running" /\ i.op \in {"label", "jsr"} /\ f # 0 /\ code[m.pc + 1].op # "link" /\ ~ dynamic
      => m.r["sp"] = (m.r["a6"] - code[f].s[2] - saved - 4 * i.depth) % Span(4)

(* A register that a caller may keep a variable in is as it was.           *)
Before == Machine(Unused).r
RegistersKept ==
  Halted => \A r \in {"a6", "sp"} \cup (IF mode.regalloc THEN Range(Pool) ELSE {}) : m.r[r] = Before[r]

(* Without registers for variables, level 2 gives the same instructions    *)
(* whichever of the two generators makes them.                             *)
IrIsSinglePass ==
  stage = "compiled" /\ mode.ir /\ mode.o = 2 /\ ~ mode.regalloc => code = Generate(unit, [mode EXCEPT !.ir = FALSE])

Halts == <>Halted
=============================================================================
