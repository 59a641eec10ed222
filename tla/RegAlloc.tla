------------------------------ MODULE RegAlloc ------------------------------
(***************************************************************************)
(* Register allocation for the hot variables of a function, src/ir68k.c,   *)
(* and the execution of the code it leaves: liveness over the control-flow *)
(* graph, interference, colouring (-O3) or one register each (-O2, and -O3 *)
(* with a user goto), the prologue that loads the promoted parameters      *)
(* (src/codegen68k.c), and a run of the body in emission order.            *)
(*                                                                         *)
(* What matters of a value is whose it is: a register holds the variable   *)
(* that was stored in it last.                                             *)
(***************************************************************************)
EXTENDS IrCode

CONSTANTS
  Functions,  \* the functions compiled: [params, locals, body]
  DataRegs, AddrRegs,  \* D2-D7 and A2-A5, as sequences in the pool's order
  NoReg       \* Obj.reg = 0: the variable stays in its frame slot

Pool == DataRegs \o AddrRegs

VARIABLES
  fn, level,  \* the function and opt_level, 2 or 3
  items, blocks, succ,  \* its body lowered, and the control-flow graph
  ev,         \* the allocator's events of each block
  uses,       \* how often each candidate is referenced
  order,      \* the colorable candidates, the most used first
  pass,       \* where the compiler, or the compiled code, is
  at,         \* the block, candidate or parameter a pass is at
  changed,    \* ra_liveness's flag: this sweep changed a live-in set
  livein,     \* in[b]
  conf,       \* ra_conf, the interference relation
  reg,        \* Obj.reg of every variable
  holds,      \* machine: whose value each register holds
  set,        \* machine: the variables that were given a value
  pc, todo    \* machine: the current item and its events still to execute

codeVars == <<fn, level, items, blocks, succ, ev, uses, order>>
allocVars == <<changed, livein, conf, reg>>
machineVars == <<holds, set, pc, todo>>
vars == <<codeVars, allocVars, machineVars, pass, at>>

Variables == UNION {ToSet(f.params \o f.locals) : f \in Functions}
Cands == fn.params \o fn.locals
References == StmtRefs(fn.body, FALSE)
AddressTaken(refs) == {r.var : r \in {r \in ToSet(refs) : r.lea}}
InLoops(refs) == {r.var : r \in {r \in ToSet(refs) : r.inLoop}}

(* A candidate is referenced in a loop, and its address is never taken.    *)
Colorable(refs) == InLoops(refs) \ AddressTaken(refs)

UsesOf(refs) ==
  [v \in Variables |-> Cardinality({i \in DOMAIN refs : refs[i].var = v})]

(* The colorable ones, most uses first, ties in declaration order.         *)
PriorityDeclared(colorable, count) == SelectSeq(Cands, LAMBDA v : v \in colorable)
Priority(colorable, count) ==
  LET before(i, j) == LET m == count[Cands[i]]
                          n == count[Cands[j]]
                      IN  m > n \/ (m = n /\ i < j)
      sorted == InOrder({i \in DOMAIN Cands : Cands[i] \in colorable}, before)
  IN  [k \in DOMAIN sorted |-> Cands[sorted[k]]]

Init ==
  /\ fn \in Functions /\ level \in {2, 3}
  /\ items = << >> /\ blocks = << >> /\ succ = << >> /\ ev = << >>
  /\ uses = << >> /\ order = << >>
  /\ pass = "lower" /\ at = 0 /\ changed = FALSE
  /\ livein = << >> /\ conf = {}
  /\ reg = [v \in Variables |-> NoReg]
  /\ holds = [r \in ToSet(Pool) |-> NoVar] /\ set = {}
  /\ pc = 0 /\ todo = << >>

(* ir_prep_regs and lower_stmt.                                            *)
LowerBody ==
  /\ pass = "lower" /\ pass' = "blocks"
  /\ LET refs == References
     IN  /\ uses' = UsesOf(refs)
         /\ order' = Priority(Colorable(refs), UsesOf(refs))
  /\ items' = Lower(fn.body, << >>, << >>)
  /\ UNCHANGED <<fn, level, blocks, succ, ev, at>>
  /\ UNCHANGED allocVars /\ UNCHANGED machineVars

(* ir_build_cfg.                                                           *)
FormBlocks ==
  /\ pass = "blocks" /\ pass' = "edges"
  /\ blocks' = Blocks(items)
  /\ UNCHANGED <<fn, level, items, succ, ev, uses, order, at>>
  /\ UNCHANGED allocVars /\ UNCHANGED machineVars

WireEdges ==
  /\ pass = "edges"
  /\ succ' = [b \in DOMAIN blocks |-> Succ(items, blocks, b)]
  /\ pass' = IF level >= 3 THEN "optimize" ELSE "own"
  /\ UNCHANGED <<fn, level, items, blocks, ev, uses, order, at>>
  /\ UNCHANGED allocVars /\ UNCHANGED machineVars

(* The blocks the entry reaches: op6_dce_unreachable empties the others.   *)
AddSuccessors(B) == B \cup UNION {succ[b] : b \in B}
Reached ==
  LET within[n \in 0 .. Len(succ)] ==
        IF n = 0 THEN {1} ELSE AddSuccessors(within[n - 1])
  IN  within[Len(succ)]

EventsOf(b) ==
  LET walked == CatAll(blocks[b].end - blocks[b].start,
                       LAMBDA i : EvWalk(items[blocks[b].start + i - 1].e, FALSE))
  IN  SelectSeq(walked, LAMBDA e : e.var \in ToSet(order))

(* The -O3 optimizations, of which the removal of unreachable blocks is    *)
(* what matters here, and the choice of the allocator.                     *)
Optimize ==
  /\ pass = "optimize"
  /\ LET reached == Reached
     IN  /\ items' = [i \in DOMAIN items |->
                        IF \E b \in reached : i \in blocks[b].start .. blocks[b].end - 1
                        THEN items[i] ELSE Item("NOP", Num, << >>)]
         /\ ev' = [b \in DOMAIN blocks |-> IF b \in reached THEN EventsOf(b) ELSE << >>]
  /\ pass' = IF HasUserJump(fn.body) THEN "own" ELSE "liveness"
  /\ at' = Len(blocks)
  /\ livein' = [b \in DOMAIN blocks |-> {}]
  /\ UNCHANGED <<fn, level, blocks, succ, uses, order, changed, conf, reg>>
  /\ UNCHANGED machineVars
-----------------------------------------------------------------------------
(* ra_liveness.                                                            *)
VarsAt(b, I) == {ev[b][i].var : i \in I}
UseOf(b) ==
  VarsAt(b, {i \in DOMAIN ev[b] : /\ ev[b][i].op = "use"
                                 /\ \A j \in 1 .. i - 1 : ev[b][j] # MustDef(ev[b][i].var)})
DefOfMay(b) == VarsAt(b, {i \in DOMAIN ev[b] : ev[b][i].op # "use"})
DefOf(b) == VarsAt(b, {i \in DOMAIN ev[b] : ev[b][i].op = "must"})
LiveOut(b) == UNION {livein[s] : s \in succ[b]}

GrewUnlessEmpty(new, old) == new # {}
Grew(new, old) == new # old

(* The blocks from the last to the first, again while a set changed.       *)
Sweep ==
  /\ pass = "liveness"
  /\ LET new == livein[at] \cup UseOf(at)
                  \cup (LiveOut(at) \ DefOf(at))
         again == changed \/ Grew(new, livein[at])
     IN  /\ livein' = [livein EXCEPT ![at] = new]
         /\ \/ at > 1 /\ at' = at - 1 /\ changed' = again /\ UNCHANGED pass
            \/ /\ at = 1 /\ again
               /\ at' = Len(livein) /\ changed' = FALSE /\ UNCHANGED pass
            \/ at = 1 /\ ~ again /\ pass' = "interfere" /\ UNCHANGED <<at, changed>>
  /\ UNCHANGED codeVars /\ UNCHANGED <<conf, reg>> /\ UNCHANGED machineVars

(* What is live just after each event of block b, from its end.            *)
LiveAfter(b) ==
  LET before[k \in 1 .. Len(ev[b]) + 1] ==
        IF k > Len(ev[b]) THEN LiveOut(b)
        ELSE CASE ev[b][k].op = "use" -> before[k + 1] \cup {ev[b][k].var}
               [] ev[b][k].op = "must" -> before[k + 1] \ {ev[b][k].var}
               [] ev[b][k].op = "may" -> before[k + 1]
  IN  [k \in DOMAIN ev[b] |-> before[k + 1]]

Clobbers(b) ==
  LET live == LiveAfter(b)
      defs == {k \in DOMAIN ev[b] : ev[b][k].op # "use"}
  IN  UNION {{ev[b][k].var} \X live[k] : k \in defs}

(* A def interferes with what is live after it; what is live at the        *)
(* function's entry interferes pairwise.                                   *)
InterferesNoDefs == livein[1] \X livein[1]
Interferes ==
  UNION {Clobbers(b) : b \in DOMAIN ev} \cup (livein[1] \X livein[1])

Interfere ==
  /\ pass = "interfere"
  /\ conf' = LET pairs == Interferes
             IN  {vw \in pairs \cup {<<vw[2], vw[1]>> : vw \in pairs} : vw[1] # vw[2]}
  /\ pass' = "color" /\ at' = 1
  /\ UNCHANGED codeVars /\ UNCHANGED <<changed, livein, reg>>
  /\ UNCHANGED machineVars

(* ra_color_global: the first register of the pool that no interfering     *)
(* candidate coloured before v has, or none.                               *)
FirstFree(v) ==
  LET taken == {reg[w] : w \in {w \in DOMAIN reg : <<v, w>> \in conf}}
  IN  SelectInSeq(Pool, LAMBDA r : r \notin taken)

Color ==
  /\ pass = "color"
  /\ \/ /\ at <= Len(order)
        /\ LET v == order[at]
           IN  reg' = [reg EXCEPT ![v] =
                         IF FirstFree(v) = 0 THEN NoReg ELSE Pool[FirstFree(v)]]
        /\ at' = at + 1 /\ UNCHANGED pass
     \/ at > Len(order) /\ pass' = "prologue" /\ at' = 1 /\ UNCHANGED reg
  /\ UNCHANGED codeVars /\ UNCHANGED <<changed, livein, conf>>
  /\ UNCHANGED machineVars

(* The OP5 assignment: each round gives the next register of the pool to   *)
(* the most used candidate that has none, the first declared among equals. *)
Declared(v) == SelectInSeq(Cands, LAMBDA w : w = v)
BeatsByUse(w, v) == uses[w] > uses[v] \/ (uses[w] = uses[v] /\ Declared(w) < Declared(v))
OwnRegister(v) ==
  LET round == 1 + Cardinality({w \in ToSet(order) : BeatsByUse(w, v)})
  IN  IF v \in ToSet(order) /\ round <= Len(Pool) THEN Pool[round] ELSE NoReg

AssignOwn ==
  /\ pass = "own"
  /\ reg' = [v \in Variables |-> OwnRegister(v)]
  /\ pass' = "prologue" /\ at' = 1
  /\ UNCHANGED codeVars /\ UNCHANGED <<changed, livein, conf>>
  /\ UNCHANGED machineVars
-----------------------------------------------------------------------------
(* The compiled function.                                                  *)
Put(r, v) == IF r = NoReg THEN holds ELSE [holds EXCEPT ![r] = v]

(* The prologue loads each promoted parameter from its frame slot.         *)
Prologue ==
  /\ pass = "prologue"
  /\ \/ /\ at <= Len(fn.params)
        /\ holds' = Put(reg[fn.params[at]], fn.params[at])
        /\ set' = set \cup {fn.params[at]}
        /\ at' = at + 1 /\ UNCHANGED pass
     \/ at > Len(fn.params) /\ pass' = "run" /\ UNCHANGED <<at, holds, set>>
  /\ UNCHANGED codeVars
  /\ UNCHANGED <<changed, livein, conf, reg, pc, todo>>

PlaceOf(label) == {i \in DOMAIN items : items[i].kind = "LABEL"
                                             /\ items[i].label = label}

(* The items that may be executed after item i; one past the last item is  *)
(* the epilogue.                                                           *)
After(i) ==
  LET it == items[i]
  IN  CASE i = 0 -> {1}
        [] it.kind = "RET" -> {Len(items) + 1}
        [] it.kind = "JMP" -> PlaceOf(it.label)
        [] it.kind = "CBR" -> PlaceOf(it.label) \cup {i + 1}
        [] OTHER -> {i + 1}

(* The next item's code; accesses to frame slots are of no interest here.  *)
Fetch ==
  /\ pass = "run" /\ todo = << >>
  /\ \E i \in After(pc) :
       /\ pc' = i
       /\ \/ i > Len(items) /\ pass' = "done" /\ UNCHANGED todo
          \/ /\ i \in DOMAIN items
             /\ \E t \in Traces(items[i].e, reg, ToSet(AddrRegs)) :
                  todo' = SelectSeq(t, LAMBDA e : reg[e.var] # NoReg)
             /\ UNCHANGED pass
  /\ UNCHANGED codeVars
  /\ UNCHANGED <<at, changed, livein, conf, reg, holds, set>>

Execute ==
  /\ pass = "run" /\ todo # << >>
  /\ LET e == Head(todo)
     IN  \/ e.op = "use" /\ UNCHANGED <<holds, set>>
         \/ /\ e.op # "use"
            /\ holds' = Put(reg[e.var], e.var) /\ set' = set \cup {e.var}
  /\ todo' = Tail(todo)
  /\ UNCHANGED codeVars
  /\ UNCHANGED <<pass, at, changed, livein, conf, reg, pc>>

Next == LowerBody \/ FormBlocks \/ WireEdges \/ Optimize \/ Sweep \/ Interfere \/ Color \/ AssignOwn
          \/ Prologue \/ Fetch \/ Execute

Spec == Init /\ [][Next]_vars /\ WF_vars(Next)
-----------------------------------------------------------------------------
Passes == {"lower", "blocks", "edges", "optimize", "liveness", "interfere", "color", "own", "prologue", "run", "done"}
Compiled == pass \in {"prologue", "run", "done"}

(* The data-flow fixpoint is the liveness it is meant to be: v is live     *)
(* into a block just when some path from there reaches a use of v through  *)
(* blocks that do not store it first -- no less, or values would be lost,  *)
(* and no more, or registers would.                                        *)
PathsBack(B, v) ==
  B \cup {b \in DOMAIN ev : MustDef(v) \notin ToSet(ev[b]) /\ succ[b] \cap B # {}}
LiveInto(v) ==
  LET within[n \in 0 .. Len(livein)] ==
        IF n = 0 THEN {b \in DOMAIN ev : v \in UseOf(b)}
        ELSE PathsBack(within[n - 1], v)
  IN  within[Len(livein)]
LivenessIsExact ==
  pass = "interfere" =>
    \A v \in ToSet(order) : {b \in DOMAIN livein : v \in livein[b]} = LiveInto(v)

(* Whenever the compiled code reads a variable that was given a value, its *)
(* register holds that variable's value: nothing else was stored there     *)
(* since, along any path.                                                  *)
ReadsOwn ==
  pass = "run" /\ todo # << >> /\ Head(todo).op = "use" /\ Head(todo).var \in set
    => holds[reg[Head(todo).var]] = Head(todo).var

ParamsApart == \A p, q \in ToSet(fn.params) :
                 p # q /\ reg[p] # NoReg => reg[p] # reg[q]

(* Sharing registers is sound for functions without an embedded store      *)
(* beside another access and without two parameters in one register.  It   *)
(* covers break, continue, may-defs, dead stores, loops and, for the       *)
(* assignment without sharing, user gotos.                                 *)
SharingIsSound ==
  ~ ReadsOwn => ~ ParamsApart \/ \E i \in DOMAIN items : ~ Sequenced(items[i].e)

(* The promoted variables that are live now: before the events still to    *)
(* execute, and then after the current item.  Without sharing, every       *)
(* variable may be.                                                        *)
LiveBefore(evs, after) ==
  LET back[k \in 1 .. Len(evs) + 1] ==
        IF k > Len(evs) THEN after
        ELSE CASE evs[k].op = "use" -> back[k + 1] \cup {evs[k].var}
               [] evs[k].op = "must" -> back[k + 1] \ {evs[k].var}
               [] evs[k].op = "may" -> back[k + 1]
  IN  back[1]
EventsFrom(i, j) ==
  SelectSeq(CatAll(j - i + 1, LAMBDA k : EvWalk(items[i + k - 1].e, FALSE)),
            LAMBDA e : e.var \in ToSet(order))
LiveAfterItem(i) ==
  IF i = 0 THEN livein[1]
  ELSE LET b == CHOOSE b \in DOMAIN blocks : i \in blocks[b].start .. blocks[b].end - 1
       IN  LiveBefore(EventsFrom(i + 1, blocks[b].end - 1), LiveOut(b))
SharesNothing == level < 3 \/ HasUserJump(fn.body)
LiveNow ==
  IF SharesNothing THEN Variables
  ELSE {v \in Variables : reg[v] # NoReg} \cap
       IF ~ ParamsApart \/ \E i \in DOMAIN items : ~ Sequenced(items[i].e) THEN {}
       ELSE CASE pass = "prologue" -> livein[1]
              [] pass = "run" -> LiveBefore(todo, LiveAfterItem(pc))
              [] OTHER -> {}

(* The allocator implements the discipline of module Sharing, from which   *)
(* theorem OwnValues draws the conclusion for any number of variables.     *)
S == INSTANCE Sharing WITH Var <- Variables, Reg <- ToSet(Pool), live <- LiveNow
Shares == S!Spec

(* "Interference is then exact" (ir68k.c:1606): the same of every function *)
(* whose parameters do not share.                                          *)
InterferenceIsExact == ParamsApart => ReadsOwn

(* The colouring never does worse than the assignment it replaces: every   *)
(* candidate that has a register there has one here, and the very same one *)
(* when all the candidates interfere (ir68k.c:1598).                       *)
SubsumesOwn ==
  pass = "prologue" /\ at = 1 =>
    \A v \in ToSet(order) :
      /\ OwnRegister(v) # NoReg => reg[v] # NoReg
      /\ (\A w \in ToSet(order) : \A x \in ToSet(order) \ {w} : <<w, x>> \in conf)
           => reg[v] = OwnRegister(v)

(* The liveness iteration ends, and so does the compilation.               *)
Compiles == <>Compiled
=============================================================================
