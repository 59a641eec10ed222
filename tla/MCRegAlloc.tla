----------------------------- MODULE MCRegAlloc -----------------------------
(* A data and an address register for three candidates, two of them        *)
(* parameters, so that they must share or stay in memory.  The functions   *)
(* are all those of a few shapes: two loops in sequence, one loop with two *)
(* statements, and one of each construct that branches.                    *)
EXTENDS RegAlloc, TLC

CONSTANTS p, q, x

MCDataRegs == <<"d2">>
MCAddrRegs == <<"a2">>

V == {p, q, x}
G == Call(<< >>)
While(c, s) == For(<<c>>, << >>, s)

Copies == {Do(Store(v, Load(w))) : v, w \in V}
Reads  == {Do(Call(<<Load(v)>>)) : v \in V}
Writes == {Do(Store(v, G)) : v \in V}
Maybes == {Do(LogAnd(Load(v), Store(w, G))) : v, w \in V}
Leaves == {If(Load(v), Break, Do(Store(x, G))) : v \in V}
Nested == {Do(Call(<<Load(v), Store(w, G)>>)) : v, w \in V}
            \cup {Do(Store(v, Alu(Store(v, G), Load(w)))) : v, w \in V}

TwoLoops ==
  {Block(<<While(Load(v), s), Do(Store(w, G)), While(Load(w), t)>>) :
     v, w \in V, s \in Writes \cup Copies, t \in Reads}
OneLoop ==
  {While(Load(p), Block(<<Do(Store(v, G)), s, t>>)) :
     v \in V, s \in Writes \cup Maybes \cup Leaves \cup Nested, t \in Reads}
Repeat ==
  {DoWhile(Block(<<If(Load(v), Continue, Do(Store(w, G))),
                   Do(Store(x, Mul(Load(v), Load(w))))>>), Load(x)) : v, w \in V}
UserGoto ==
  {Block(<<Label(1, Do(Store(v, G))),
           While(Load(w), Block(<<Do(Call(<<Load(v)>>)),
                                  If(Load(x), Goto(1), Return(Load(v)))>>))>>) : v, w \in V}
Arms ==
  {Block(<<Do(Memzero(x)),
           For(<<Load(v)>>, <<Store(w, Alu(Load(w), Num))>>,
               Do(Store(x, Cond(Load(w), Index(Load(p), Load(x)),
                                Comma(Store(v, Num), Load(q))))))>>) : v, w \in V}
Addresses ==
  {While(Load(v), Block(<<Do(Call(<<Lea(w)>>)),
                          Do(Poke(Alu(Load(p), Load(v)), Load(w)))>>)) : v, w \in V}

MCFunctions ==
  {[params |-> <<p, q>>, locals |-> <<x>>, body |-> b] :
     b \in TwoLoops \cup OneLoop \cup Repeat \cup UserGoto \cup Arms \cup Addresses}
=============================================================================
