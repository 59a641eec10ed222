------------------------------- MODULE Malloc -------------------------------
(***************************************************************************)
(* malloc, free and realloc of the C library over lib/heap, with the       *)
(* scratch arena the compiler opens around a compilation: while it is      *)
(* open new objects come from it, and a pointer belongs to it when it lies *)
(* in its address range.                                                   *)
(***************************************************************************)
EXTENDS SmallHeap

CONSTANTS
  Base, Avail,           \* the break and the bytes left below the arena's top
  ArenaSlack, ArenaMin,  \* ARENA_SLACK, ARENA_MIN
  Requests,              \* the sizes the clients ask for
  MaxObjects,            \* how many objects they hold at once
  MaxCalls,              \* and how many calls they make
  Validating             \* options of the heaps: with or without VALIDATE_ALL;
                         \* malloc.c passes 0, other clients of lib/heap may not

ASSUME MallocAssumption ==
  /\ Base \in Nat \ {0} /\ Machine = Base
  /\ {Avail, ArenaSlack, MaxObjects, MaxCalls} \subseteq Nat
  /\ Requests \subseteq Nat \ {0}        \* malloc(0) asks for 1
  /\ ArenaMin \in Nat /\ ArenaMin >= 4  \* a quarter of less is nothing
  /\ ArenaMin + 4 > SoaMax              \* no scratch arena in a cell
  /\ Validating \subseteq BOOLEAN

VARIABLES
  mem,      \* what lib/heap keeps in memory, see SmallHeap
  arena,    \* _heap_arena: the open scratch arena
  objects,  \* what the clients hold: [p, n], a pointer and a size
  calls     \* the calls made so far

vars == <<mem, arena, objects, calls>>

Init ==
  /\ mem = [heap |-> <<>>, block |-> <<>>, arena |-> <<>>, slab |-> <<>>]
  /\ arena = Null /\ objects = {} /\ calls = 0

Called == calls < MaxCalls /\ calls' = calls + 1

(* _heap_machine_get: the machine heap, made over the whole break at first *)
(* use; its header starts on the next granule boundary.                    *)
WithMachineHeap(m) ==
  IF Machine \in DOMAIN m.heap THEN {m}
  ELSE {MachineHeapInitialize(m, Base, Avail, v) : v \in Validating}

CurHeap == IF arena # Null THEN arena ELSE Machine

OwnerHeapByRecency(p) == CurHeap
OwnerHeap(p) ==
  IF arena # Null /\ arena <= p /\ p < mem.heap[arena].hi THEN arena ELSE Machine

Held(p, n) == [p |-> p, n |-> n]

(* malloc, and through it calloc, aligned_alloc and posix_memalign.        *)
Malloc(n) ==
  /\ Cardinality(objects) < MaxObjects
  /\ \E m \in WithMachineHeap(mem) : \E o \in {HeapAlloc(m, CurHeap, n)} :
       /\ mem' = o.m
       /\ objects' = IF o.p = Null THEN objects ELSE objects \cup {Held(o.p, n)}
  /\ UNCHANGED arena /\ Called

(* free of an object; tag is what its own data looks like.                 *)
Free(x, tag) ==
  /\ mem' = HeapFree(mem, OwnerHeap(x.p), x.p, tag).m
  /\ objects' = objects \ {x}
  /\ UNCHANGED arena /\ Called

(* A second free of a cell whose tile still serves other cells.            *)
FreeTwice(t, i) ==
  /\ i \in ToSet(mem.slab[t].list)
  /\ mem' = HeapFree(mem, OwnerHeap(CellAt(mem, t, i)), CellAt(mem, t, i), TRUE).m
  /\ UNCHANGED <<arena, objects, calls>>

(* realloc, and through it reallocarray; realloc(p, 0) is free(p).         *)
Realloc(x, n) ==
  \E o \in {HeapReAlloc(mem, OwnerHeap(x.p), x.p, n, TRUE)} :
    /\ mem' = o.m
    /\ objects' = IF o.p = Null THEN objects ELSE (objects \ {x}) \cup {Held(o.p, n)}
    /\ UNCHANGED arena /\ Called

(* __heap_mark: an arena over all but a little of the largest free block   *)
(* that HeapCompact found, a quarter smaller at each failure.              *)
Scratch(found, validate) ==
  LET Created[size \in 0 .. found.p] ==
        IF size < ArenaMin THEN Outcome(found.m, Null)
        ELSE OrElse(HeapCreate(found.m, size, validate), Created[size - (size \div 4)])
  IN  IF found.p < ArenaSlack THEN Outcome(found.m, Null) ELSE Created[found.p - ArenaSlack]

Mark ==
  /\ arena = Null
  /\ \E m \in WithMachineHeap(mem) :
       \E o \in {Scratch(HeapCompact(m, Machine), m.heap[Machine].validate)} :
         mem' = o.m /\ arena' = o.p
  /\ UNCHANGED objects /\ Called

(* __heap_release: with the arena goes everything in it.                   *)
Release ==
  /\ arena # Null
  /\ mem' = HeapDestroy(mem, arena).m
  /\ arena' = Null
  /\ objects' = {x \in objects : OwnerHeap(x.p) = Machine}
  /\ Called

Next ==
  \/ \E n \in Requests : Malloc(n)
  \/ \E x \in objects, tag \in BOOLEAN : Free(x, tag)
  \/ \E x \in objects, n \in Requests : Realloc(x, n)
  \/ \E t \in DOMAIN mem.slab : \E i \in 0 .. mem.slab[t].total - 1 : FreeTwice(t, i)
  \/ Mark
  \/ Release

Spec == Init /\ [][Next]_vars
-----------------------------------------------------------------------------
(* Nothing the clients hold overlaps anything else they hold or any header *)
(* of the allocator, a cell they hold is not on its tile's free list, and  *)
(* a block is as large as they asked: through every move between cells and *)
(* blocks, machine heap and arena, and whatever the placement.             *)
Span(p, n) == p .. p + n - 1
Backed(x) ==
  LET t == SlabFromPtr(mem, x.p)
  IN  IF t # Null THEN /\ CellIndex(mem, t, x.p) \notin ToSet(mem.slab[t].list)
                       /\ x.n <= CellSz[mem.slab[t].cls]
      ELSE x.p - 1 \in DOMAIN mem.block /\ x.n <= mem.block[x.p - 1].size - 1
Occupied ==
  {<<"object", Span(x.p, x.n)>> : x \in objects}
  \cup {<<"block", {a}>> : a \in DOMAIN mem.block}
  \cup {<<"arena", {a}>> : a \in DOMAIN mem.arena} \cup {<<"slab", {t}>> : t \in DOMAIN mem.slab}
  \cup {<<"control", Span(mem.heap[h].scb, ScbSize)>> :
         h \in {k \in DOMAIN mem.heap : mem.heap[k].scb # Null}}
  \cup UNION {{<<"heap", Span(mem.heap[h].lo, Header)>>, <<"end", {Limit(mem, h)}>>} :
              h \in DOMAIN mem.heap}
Apart ==
  /\ \A x \in objects : Backed(x)
  /\ \A x, y \in objects : x # y => x.p # y.p
  /\ \A A, B \in Occupied : A # B => A[2] \cap B[2] = {}
  /\ \A x \in objects : /\ First(mem, OwnerHeap(x.p)) < x.p
                        /\ x.p + x.n <= Limit(mem, OwnerHeap(x.p))

(* A free of what malloc or realloc gave succeeds, whichever heap serves   *)
(* new objects by then and whatever the object's data looks like; a second *)
(* free of a cell is refused and changes nothing.                          *)
FreesAreRight ==
  /\ \A x \in objects, tag \in BOOLEAN : HeapFree(mem, OwnerHeap(x.p), x.p, tag).p = x.p
  /\ \A t \in DOMAIN mem.slab : \A i \in ToSet(mem.slab[t].list) :
       LET p == CellAt(mem, t, i)
       IN  HeapFree(mem, OwnerHeap(p), p, TRUE) = Outcome(mem, Null)

(* Nothing is lost: every block is an object, the open arena, a control    *)
(* block or an arena of tiles, every such arena has a live tile and every  *)
(* tile a live cell.  After a release the machine heap holds what was      *)
(* there before the mark, and HeapCompact finds no empty tile to release.  *)
NoLeak ==
  /\ \A a \in DOMAIN mem.block :
       \/ \E x \in objects : x.p = a + 1
       \/ a + 1 = arena
       \/ \E h \in DOMAIN mem.heap : mem.heap[h].scb = a + 1
       \/ a + 1 \in DOMAIN mem.arena
  /\ \A a \in DOMAIN mem.arena : Tiles(mem, a) # {}
  /\ \A t \in DOMAIN mem.slab : \E x \in objects : SlabFromPtr(mem, x.p) = t
  /\ \A h \in DOMAIN mem.heap : SoaCompact(mem, h) = mem

(* Each heap passes its own audit in every state, the one HeapAlloc and    *)
(* HeapFree make of it in the middle of a call included; an enumeration    *)
(* with HeapSoaWalk yields every live cell of the heap once and no other,  *)
(* as many as the control block counts.                                    *)
Audited ==
  \A h \in DOMAIN mem.heap :
    LET cells == {x.p : x \in {y \in objects : /\ SlabFromPtr(mem, y.p) # Null
                                               /\ OwnerHeap(y.p) = h}}
        walk == Walked(mem, h)
    IN  /\ SoaValid(mem, h)
        /\ ToSet(walk) = cells /\ Len(walk) = Cardinality(cells)
        /\ mem.heap[h].cells = Cardinality(cells)

=============================================================================
