# TLA+ models of C68k

C68k is a C compiler for the 68000 (a chibicc descendant with its own code
generator and ELF writer), with the C library, the heap library and the
floating-point library its programs are linked with, for Osiris and CP/M-68K.
This directory specifies the whole path of a program through the compiler
(preprocessor, parser, both code generators, register allocator, object writer)
and the parts of the library that keep state through long sequences of calls:
the hash table, the heap (`lib/heap`), `malloc`, stdio streams and the CP/M files.

Everything here is sequential code: no threads, no signals that interleave. What
makes the library hard is the *order of calls* (frees, redefinitions, read/write
turn-arounds, mark and release), *partial failure* (a full heap or disk, a write cut
short) and *state kept redundantly* (a free block is in the block chain and in a
bucket; a stream is a buffer and a descriptor that run ahead of or behind each
other). Those models take one action per API call, and let the client call anything
in any order. What makes the compiler hard is that its mistakes are in the *combination*
of constructs and in the *paths* of the compiled code: those models compile every
program of a family and then execute what comes out, on every path or for every input.

## Inventory

| Part | State | Operations | Interacts with | What makes it correct |
| --- | --- | --- | --- | --- |
| `src/tokenize.c` | the text | one pass over characters | `read_file`, the preprocessor | token values |
| `src/preprocess.c` | token list, macro table, stack of conditionals, include caches and guards | directives, expansion | tokenizer, hash map; the parser reads its output | the output means what the lines mean; it ends |
| `src/hashmap.c` | open-addressed buckets, count `used` | get, put, delete, rehash | tokenizer (keywords), preprocessor (macros, guards, path cache), parser (scopes) | it is a dictionary; every probe loop ends; a rehash keeps every key |
| `src/parse.c`, `type.c` | scopes, locals, globals, goto and switch lists | one routine per production | token list in, typed trees out | the tree means what the program means |
| `src/codegen68k.c` | stack depth, label counter, emitted text | one routine per node; peephole | typed trees in, assembly text out | the code computes the tree; depth is the stack's |
| `src/ir68k.c` | items, blocks, live-in sets, interference, `Obj.reg` | build, fold, dead code, liveness, colouring, selection | as above, after the parser and before the emitter of `codegen68k.c` | the same; no two values needed at once share a register |
| `src/emit_elf.c` | section contents, symbols, relocations, fixups | one routine per line of assembly; layout | assembly text in, ELF file out | a linker and a processor find the text again |
| `src/main.c` | options | phases, child processes | all of the above | the phases get the right options |
| `lib/heap` block layer | block chain, ten free buckets, `__HeapError` | HeapAlloc, HeapFree, HeapReAlloc, HeapCompact, HeapValidate, HeapWalk | `malloc.c`; the small-object layer | blocks tile the heap, buckets hold the free ones, clients' blocks never overlap, nothing is lost to fragmentation |
| `lib/heap` small objects | control block, arenas, slabs, class lists, free lists of cells | HeapSoa*, HeapSlab*, HeapArena* | arenas are blocks; HeapFree finds out which layer a pointer is of | cells and blocks never overlap; a pointer is told right by the magic words; empty tiles go back |
| `lib/heap` creation | heap headers | MachineHeapInitialize, HeapCreate, HeapDestroy | a private heap is a block of another | what a destroyed heap leaves in memory is never taken for live |
| `libc/core/malloc.c`, `heap_arena.c` | machine heap, one open scratch arena | malloc, free, realloc, mark, release | the compiler driver brackets each compilation | a pointer goes back to the heap it came from |
| `libc/core` stdio | `FILE`: flags, buffer, count, cursor; stream table | fopen ... fclose | sys_read, sys_write, sys_seek of the system layer | the client sees an unbuffered stream |
| `libc/cpm` | FCB, one 128-byte record, byte position; directory search | sys_open ... sys_close, stat, readdir | BDOS | byte files over record files |
| `libc/osiris` | none | DOS trap wrappers | Osiris | - |
| `lib/libm`, `lib/runtime`, rest of `libc` | floating-point environment | pure functions | generated code | numerical results |

`PROJECT.json` lists every part with its files and how much of it is modelled
("components") and every hazard at its line with the properties about it ("hazards").

## The modules

| Module | Models | Role |
| --- | --- | --- |
| `Dict` | - | abstract: a dictionary |
| `HashMap`, `MCHashMap` | `src/hashmap.c` | implements `Dict` |
| `HashMap_proofs` | - | theorems about `HashMap` |
| `Macros` | macro expansion of `preprocess.c` | operators on token lists |
| `Cpp` | - | what preprocessing means, from the C standard |
| `Preproc`, `MCPreproc` | `preprocess2`: directives, includes, guards | checked against `Cpp` |
| `CTypes` | `type.c` and the node builders | typed trees |
| `CSource` | - | C programs as trees, and their tokens |
| `Parser` | `parse.c` | tokens to typed trees |
| `CMeaning` | - | what a C program computes, from the C standard |
| `M68k` | the 68000 and `lib/runtime` (external) | executes instructions |
| `Codegen` | `codegen68k.c` | typed trees to instructions |
| `IrGen` | `ir68k.c` but for its allocator | typed trees to instructions |
| `Compiler`, `MCCompiler` | `main.c`'s phases | composes the seven above |
| `IrCode` | expressions, items and the CFG of `ir68k.c` | operators `RegAlloc` is built from |
| `RegAlloc`, `MCRegAlloc` | the allocator of `ir68k.c`, prologue, emission order | implements `Sharing` |
| `Sharing`, `Sharing_proofs` | - | abstract: a discipline under which variables may share registers |
| `Encoder` | instruction encoding of `emit_elf.c` | instructions to bytes |
| `ObjectFile` | sections, symbols, relocations, DWARF, layout of `emit_elf.c` | assembly text to an ELF file |
| `ObjectReader`, `MCObject` | a linker, a decoder, a debugger (external) | reads the ELF file |
| `Allocator` | - | abstract: disjoint blocks that only their holder changes |
| `HeapBlocks` | `HeapAlloc`, `HeapFree`, `HeapReAlloc`, `HeapCoalesce`, the unlink routines | implements `Allocator` |
| `HeapBlocks_proofs` | - | theorems about `HeapBlocks`, its free chains, `HeapCompact`, `HeapValidate` and `HeapWalk`, and that it implements `Allocator` |
| `HeapCompact` | `HeapCompact.a68` | extends `HeapBlocks` |
| `HeapValidate` | `HeapValidate.a68` | extends `HeapBlocks` with the validator |
| `HeapWalk` | `HeapWalk.a68` | extends `HeapValidate` with an enumerating client |
| `SmallHeap` | `HeapSmall*`, `HeapSlab`, `HeapArena`, `HeapCreate`, `HeapDestroy`, over the block layer's placement | operators `Malloc` is built from |
| `SmallHeap_proofs` | - | lemmas: what each operation of `SmallHeap` keeps and returns |
| `Malloc`, `MCMalloc` | `malloc.c`, `heap_arena.c` | composes the machine heap and the scratch arena |
| `Malloc_proofs` | - | theorems about `Malloc` |
| `Stream` | - | abstract: an unbuffered byte stream with the text translation |
| `Stdio` | `fgetc`, `fputc`, `ungetc`, `fflush`, `fseek`, `ftell`, `clearerr`, `fclose`, `fopen` | implements `Stream` |
| `Stdio_proofs` | - | theorems about `Stdio` |
| `CpmFiles`, `MCCpm` | `libc/cpm/cpm.c` and its directory search, `libc/core/stat.c` | byte files over records |
| `CpmFiles_proofs` | - | theorems about `CpmFiles` |
| `Induction` | - | lemmas: induction and recursion over data, division |

Some modules hold *fault variants*: a definition named after a plausible bug
(`ScanOneBucket`, `RelistKeepsFull`) beside the definition it varies. No
specification uses them. Putting one in place of the right definition makes the
property listed with it in `PROJECT.json` ("mutants") fail, which is how we know
that the property says something.

### HashMap

`buckets` is a function from `0 .. capacity-1` to entries (the empty function
before the first `calloc`), `used` is the C field of that name. Names are model
values, `fnv_hash` is a constant function. The probe loops of `get_entry` and
`get_or_insert_entry` are the operators `GetStop` and `PutStop`: the first
position whose bucket ends the loop. A put is one action with its rehash; an
`assert` or `unreachable` that would stop the compiler sets `fault` and ends the
behaviour (hence `CHECK_DEADLOCK FALSE`).

The loop of `rehash` is a recursive function over the old buckets, and so is the doubling of the
capacity; `InitSize` is at least 4 (`INIT_SIZE` is 16).

`redefines` is the difference between the clients. Keywords, scopes, include
guards and the include cache never delete; the macro table deletes (`#undef`) and
redefines. Without it a present name is put again only while there is no tombstone
in the table, which covers all the tables but that of macros.

### Macros, Preproc and Cpp

`rest` is the code's token list `tok`, rewritten at its head: each pass of the loop
of `preprocess2` is an action, one per directive, plus `ExpandMacro` and `PassThrough`.
The devices between them are state: `conds` (the stack of conditionals), `once`,
`guards` (a file whose guard was detected is not read again while its macro is
defined), `cache` (what the include search found) and `nextIdx` (where
`#include_next` goes on). Tokens carry a hideset, their line and the flags `at_bol`
and `has_space`; names and numbers are strings of a small set.

`Cpp` says what the output must be without any of these: files are read anew each
time, conditionals nest as lines, and a name is not replaced while its own
replacement is rescanned, which is written with end marks in the list of tokens
instead of hidesets. `Macros` and `Cpp` share the token record and the operators for
one replacement (arguments, `#`, `##`), so those are checked less independently than the rest.

### CTypes, Parser, CSource and CMeaning

`Parser` has one operator per production, from the state of the parser (tokens and
position, scopes, locals, globals, the jump targets and the open `switch`) to the state
after it. Types and conversions are those of `add_type` (`CTypes`). Bit-fields, nested
and designated initialisers, VLAs, `typeof` and `_Generic`, statement expressions,
compound literals, `goto`, static locals, variadic functions and the liveness of static
functions are there. Offsets, alignments, constant expressions and the bytes of initialised
variables are computed as `write_gvar_data` does.

`CSource` prints a program tree as tokens with only the parentheses that C needs, so
that precedence and associativity have to be found again. `CMeaning` evaluates
the tree with places instead of addresses, from the C standard; where C leaves the
result undefined it sets `ub` and nothing is asked of the compiler.

### Codegen, IrGen, M68k and Compiler

`Codegen` maps a typed tree to a sequence of instructions as `gen_expr`, `gen_stmt`
and their helpers emit them, with the frame layout, argument passing, struct returns,
`setjmp` spill area, branch selection (`gen_cond`), operand shortcuts and the peephole
pass. Labels are named after their node's place in the tree where the code counts.
`IrGen` builds items and IR trees (`ir_build_*`), folds them (`ie_fold`), at -O3 decides constant
branches and drops unreachable items and evaluations without effect, and selects instructions
(`ir_expr`, `ir_addr`, `ir_branch`).
`M68k` executes instructions, condition codes included. In it a byte has `Byte` = 2
bits, a long 8 and memory 256 bytes: every width, carry, sign extension and
high/low-half mistake still shows, and the values can be enumerated. The runtime
helpers (multiply, divide, 64-bit arithmetic, floating point) are external: what their names say.

In `Compiler` a behaviour picks a program, parses it, compiles it in a mode, loads
it, picks the inputs and executes one instruction a step until the halt label. The phases
are constants `Read`, `Generate` and `Denote` that the configuration gives the operators
`FrontEnd`, `BackEnd` and `Reference`; TLC would otherwise evaluate a phase once per use.

### IrCode, RegAlloc, Sharing

A behaviour of `RegAlloc` is one function compiled and then executed. The pass
in `pass` goes through the stages of `ir_build_body` in their order: lowering
(`items`), blocks and edges, at -O3 the removal of unreachable code, one step per
block of each liveness sweep, interference, one step per candidate coloured; or
the assignment of a register each, at -O2 and for functions with a user
`goto`. Then the prologue loads the parameters, one step each, and the body runs
item by item, down any branch.

A value is represented by the variable that was stored: `holds[r]` is the variable
whose value register `r` has, which is all that matters for whether sharing was
right. An expression keeps its shape and the variables it reads and writes; types,
constants and operators are left out, except whether an operator reads its right
operand in place, because the order of evaluation depends on it. `EvWalk` is the
order `ra_ev_walk` assumes, `Traces` the orders `ir_expr` emits; `Traces` depends
on the assignment, as the code does (an operand in a data register or in memory
is read in place, one in an address register is not). Accesses to frame slots
are dropped when an item is fetched.

`Sharing` is what the allocator has to guarantee, without any control-flow graph:
a set `live` that only shrinks, except that a store may add its variable, and
stores that never hit the register of another live variable. `RegAlloc` is shown to
follow it with `live` computed from the liveness sets (`LiveNow`).

### Encoder, ObjectFile and ObjectReader

`ObjectFile` reads an assembly text line by line, one action a line: sections with
their bytes, symbols, relocations, branches to be filled in, and the records of
`;@func` and `;@loc`. At the end one action resolves the branches, one lays out and
writes the file: the symbol order, section numbers that depend on which sections have
relocations, DWARF sections, string tables and file offsets. `Encoder` is the opcode and
extension words of each instruction form, as numbers. Strings (names, section names) are
values with the offset and length they have in their table.

`ObjectReader` is what reads the file: a linker that puts section `k` at address
`70000 k` and applies every relocation, a 68000 decoder, and a debugger that runs the
line-number program. They only see the file and follow the ELF, DWARF and 68000
manuals. 

### HeapBlocks

Addresses and sizes are counted in granules of 32 bytes, the header size and the
unit of every rounding, so that a block of `n` granules has `n - 1` of data. A
record `heap` holds one function per header word over all granules: memory keeps
what an old header left there, as the program's does, and the magic word is
`TRUE` exactly where a header's `BLOCK_MAGIC` is. Clients may free or resize
*any* address, valid, stale or never a block. Each API call is one action and
includes its coalescing, splitting and bucket moves, composed from operators
named after the routines (`UnlinkFree`, `Absorb`, `Coalesce`, `Split`, `InsertFree`).

Two details of the code are easily lost and kept here: a block's bucket is
recomputed from `bhRequestSize` when it is unlinked, and `HeapReAlloc` splits
off a remainder of one granule, a free block without data, where `HeapAlloc`
leaves it in the block.

### HeapCompact, HeapValidate, HeapWalk

`Compacted` is the pass of `HeapCompact` over the ten buckets, one merge at a
time with the restart at the bucket's head. `HeapError` and `BlockError` are the
validator's checks in the code's order, with its error codes. `HeapWalk` adds the
caller's cursor, a raw address, and `due`, an observer's set of the blocks in use
since the enumeration began and not reported yet.

### SmallHeap and Malloc

`SmallHeap` is operators from memory to an outcome `[m, p]`, the memory after the call
and the pointer it returns, named after the routines of the small-object layer. Memory
is one record: heap headers, the allocated blocks of all heaps, and the arena descriptors
and slab headers. A descriptor is in the domain of `arena` or `slab` while its magic word
is in memory, *whoever owns that memory now*: that is how stale magic words of a destroyed heap
can be taken for live ones, and why `HeapDestroy` wipes them. The block layer appears with its
real placement: one newest-first sequence of free blocks stands for the ten LIFO buckets (the
first that fits in the lowest bucket that has one), so that a freed block is reused as the code reuses it.
Where the free lists' links are what matters, `HeapBlocks` models them.

`Malloc` adds the machine heap, the scratch arena opened by `__heap_mark` (an arena
over all but a little of the largest free block, a quarter smaller at each failure), the routing
by address range, and clients: they hold `objects`, free or resize any of them with
data that may look like the free tag of a cell, free a cell twice, mark and release.
`Validating` chooses heaps whose every call first audits the heap (`FLG_HEAP_VALIDATE_ALL`); `malloc.c` passes
no options, and the audit only adds ways to fail, so the run uses the stricter heap.

### Stdio

`pend` is the `cnt` bytes of the buffer, read ahead or not yet written depending
on `writing` (`_SF_WRITING`); `served` is `p - base`; `data` and `at` are the
file and its descriptor's position. One call is one action. `sys_read` may return
fewer bytes than asked; on a disk that is not `good` it may also fail, and `sys_write` may write
any part of what it was given and report so. Where C leaves a call undefined the client does not
make it (ungetc while writing, seeking outside the file, calls after fclose other
than fclose).

### CpmFiles

`disk` is the records of each file; a descriptor has the FCB's extent `ex` (`fcb[12]`) and current
record (`cr` counts from the start of the file: `ExtRecs * ex + FCB_CR`), one record `rec` with
`recpos` and `reccnt`, and the byte position `pos`. One system call is one action; a write of several
bytes may fail at any record. `want` and `broken` are history: what clients put in a file, and which
files had a record that could not be written.

BDOS is external, and this is what the module takes it to do. `F_READ` and `F_WRITE` move the record
at `cr` and put the FCB behind it, in that record's extent; at the end of the file `F_READ` leaves
the FCB where it is. `F_READRAND` and `F_WRITERAND` leave the FCB at the record on some systems and
behind it on others (`rereads`), and at the record when they fail. An entry counts at most `ExtRecs`
records and shows its extent's number modulo `ExtMod` (128 and 32 on CP/M). `F_SIZE` counts all the records, those
of open files too. `F_WRITE` and `F_WRITERAND` may be refused by a full disk and `F_MAKE` by a full
directory, by when the old file is deleted. `F_CLOSE` is not taken to fail.

`Liberties` is what clients do besides using a descriptor in one direction, as the runs that pass and
the theorems have it (`Disciplined`, no liberties): "update" reads and writes one descriptor and seeks
in the middle of a record it writes; "end" seeks to the end of the file though the descriptor is
there; "fstat" asks the size of a descriptor before its end is read, or one that writes. Without "end" a client
seeks to the end only if that moves it, or if the FCB is at the first record of its extent; without "fstat" it
asks at the end of the file, with the FCB in an extent that has records. The run `cpm_update` has the first
liberty; what comes of the others is told under "Disagreements". Lookups are kept out of a directory scan, which they would take over.

## What each run checks

| Run | Configuration | Shows |
| --- | --- | --- |
| `hashmap` | four names, three of which share probe sequences; capacity 4 | the table implements `Dict` for all clients but the macro table; for those too every probe ends and a put is seen by the next lookup |
| `preproc` | 18,481 programs: four lines of conditionals, three lines with headers, macros that lead back to themselves, variadic macros | the output is what `Cpp` says, files skipped for their guard included; it ends |
| `compile` | 2,300 programs and inputs: every operator on mixtures of types, constants, casts, and programs of each construct; three levels, both generators | the program returns what it means in C; the compile-time depth is the stack's; registers are preserved; the generators agree at -O2; it ends |
| `regalloc` | 657 functions at -O2 and -O3; two parameters, a local, one data and one address register | the fixpoint ends and is exact; no read finds another's value; `Sharing` is implemented; -O3 promotes what -O2 does |
| `regalloc_order` | the same | **violated**: no read finds another's value, whatever the expressions |
| `object` | 1,100 instructions of every form, 3,600 modules of up to four pieces in any order | reader and writer agree on instructions, branches, references, data, exports, layout, symbol table and line numbers |
| `heap_blocks` | 7 granules, requests up to 3, coalescing | tiling, exact buckets, no adjacent free blocks, allocation fails only when no gap fits, refinement of `Allocator` |
| `heap_walk` | 5 granules, requests up to 2, `FLG_HEAP_DISABLE_COALESCING` | compaction merges everything and reports the largest block exactly; the validator raises no false alarm and finds any one damaged word; an enumeration misses nothing |
| `malloc` | 28 granules, tiles of 3, cells of 1 and 2, three objects, eight calls | live objects never overlap; every free reaches its heap and layer; nothing leaks; the audit accepts every state and the enumeration is exact |
| `stdio` | bytes `a`, LF, CR, Ctrl-Z; buffer of 2, file of at most 3; text and binary; good disks and disks that fail to read and write | the client sees `Stream`; the buffer is never overrun; output dropped by a turn-around or a seek leaves `ferror` set |
| `cpm_files` | two names, one descriptor, records of 2 bytes, extents of 2 records, modules of 2 extents, 3 bytes written, files of 3 and 5 records | closed files begin with what was written; reads return the bytes at the position; text sizes of one extent are exact; directory scans report the files there are |
| `cpm_update` | the same, clients that also update and append | **violated**: closed files begin with what was written |

### Bounds

A hash table of capacity 4 reaches the 70% watermark with three entries, and
rehashes both with and without growth (tombstones only); with 8 buckets the probe
sequences wrap. Seven granules hold up to three allocated blocks with free ones
between and around them, so that a block is freed with a free neighbour below, above,
on both sides and on none; requests up to three granules use two buckets, and the whole
heap falls into the third. A stdio buffer of 2 fills, empties, is left half read, and is
split by a CR LF pair; a file of 3 bytes outgrows it. A CP/M file of 3 bytes has a full and
a partial record; of the files written before, one of 3 records has two extents, and one of 5 three, in two modules,
so that it is reported twice; one descriptor is also none free.

In `malloc` a tile has two cells of one class or one of the other, an arena two tiles. Eight calls
(`MaxCalls`) reach a full tile and a second one, the fallback to an arena of one tile and
that to a block, cells and blocks in both heaps, and memory that was a cell, an arena or a private heap
and is reused as another of them after a release. What needs more than three live objects or eight calls is not seen.

For the register allocator three candidates and two registers are the least that
make some share, some stay in memory and some get an address register. The
functions of `MCFunctions` are all instances, over the three variables, of: two loops in
sequence with a store between them; one loop with a store and a second
statement that copies, stores on one arm of `&&`, breaks out, or nests a store in an
operand; a `do` loop with `continue`; a user `goto` into and out of a loop; `?:`,
comma, indexed and clearing accesses; and variables whose address is taken. Branches are
nondeterministic, so every path of the compiled code is explored.

In `compile` the inputs put the extreme and small values of a long into the first two
variables, and constants on both sides of the limits of `moveq`, `addq` and immediate
shifts. The pool of `preproc` has each directive in each context that fits in four lines. `object`
has each operand form in each position, displacements and immediates on both sides of a byte;
its modules have a relocation to each kind of symbol from each section, short deltas and long
ones of addresses and lines, and the texts the writer refuses.

### Fairness

The specifications of the libraries, of the hash table and of the object writer are safety
specifications, `Init /\ [][Next]_vars`, without fairness: nothing in this code waits
for anything, so nothing is owed progress beyond each call's return. That the loops inside
a call end is a safety property here (`ProbesEnd`), or follows from the models'
operators being total on the reachable states.

`RegAlloc`, `Preproc` and `Compiler` are sequential programs that take their next step.
`RegAlloc` has `WF_vars(Next)`; `Compiles` then says that its fixpoint loop ends. `Preproc` and
`Compiler` state weak fairness in a form in which it costs nothing to check, as a step is
enabled exactly until the program stops (`status # "run"`, `Halted`) and always changes
the state: either it stops for good or it steps for ever. `Finishes` and `Halts` say it stops.

### What the violated runs say

* `regalloc_order`: `ra_ev_walk` (ir68k.c:1776) visits operands and arguments left to
  right, "in evaluation order"; `ir_call` and `ir_binop` emit them right to left. In
  `while (n) { y = g(); f(y, x = 5); h(x); n = n - 1; }` the variables `x` and `y` get
  one register at -O3 and `f` is called with `(5, 5)`. `SharingIsSound` of the run `regalloc` is
  the same claim for functions without such a store; the refinement `Shares` is
  restricted the same way, by an empty `live` for the others.
* `cpm_update`: `sys_open` leaves `writing` 0 (cpm.c:107), so the last partial record of a
  file opened for append or update is never written: neither `sys_close` nor `sys_seek` flushes it.

## Disagreements no run is about

Met while modelling; the inputs of the passing runs leave them out, each with a
comment where it does.

*Hash map.* `get_or_insert_entry` (hashmap.c:92) reuses the first tombstone of the
probe sequence before looking for the name further along: define `a`, define `b` that
collides, undefine `a`, redefine `b`, and `b` is in the table twice; the next rehash
fails `assert(map2.used == nkeys)` (hashmap.c:51), and without one `#undef b` uncovers the older
definition.

*Preprocessor.* `detect_include_guard` (preprocess.c:784) asks that a file begin with `#ifndef X` and `#define X`
and end with `#endif`, not that the one belong to the other: a header with an `#else` of its guard, or with text between
two groups, is skipped the second time although it would give something; preprocess.c:800 speaks of the usual guard. The
headers of `preproc` have neither; with such a one `OutputIsMeaning` is violated. A nested conditional
is looked for by comparing the `#` token itself with `if` (preprocess.c:787), and so never skipped. An empty expansion at the end of a line copies
`at_bol` = false onto a following `#`. A hit in the include cache leaves `include_next_idx` of an
earlier search; `search_include_next` does not advance past what it finds. `a ## b ## c` with empty
arguments pastes onto the token before. Parameters inside `__VA_OPT__` are not substituted.
`#include FOO` with `FOO` undefined recurses for ever. `skip_line` (preprocess.c:86) skips nothing,
against its comment at :80. A lone `#` before a line that starts with a directive's name takes it.

*Parser and types.* `eval` of a cast to int yields an unsigned value (`-1 < 0` is false, `-4/2` wrong); `(_Bool)2` is
2 in constants; unsigned arithmetic in constants does not wrap. `~`, `<<` and `>>` do not promote
narrow operands (type.c:242). Unsigned bit-fields narrower than int do not promote to int. Post-increment of a bit-field or
`_Bool` yields the wrapped value minus one. `write_gvar_data` stops at the first uninitialised bit-field
(parse.c:1438); unnamed bit-fields consume an initialiser; `union U y = x` initialises the first
member with `x`; designation after a nested range goes on at its second element. Anonymous members make
`struct_designator` read a null name. Duplicate tentative definitions are both dropped (parse.c:3339). Parameters that are VLAs are not adjusted.

*Code generators.* On a long long, `~` complements the low long only, `switch` compares one half, and a shift count takes the high one.
Unsigned int to floating point converts as signed. `((int *)ll)[i]` at -O2 loses D1, which the comment
"a simple-var base evaluation only touches D0/A0" excludes. With `alloca` or a VLA the epilogue restores D2 and D3
from a moved stack pointer, as does a `return` inside a statement expression with temporaries pushed. A struct of less
than 4 bytes as an operand of `?:` becomes an int. `ND_MEMZERO` counts in 16 bits. `(&x)[i]` and `*&x` differ between the two generators
(codegen68k.c:1844 says "byte-identical to single-pass -O2"). The prologue loads every promoted
parameter (codegen68k.c:1820), the dead ones too, into registers a live one may have:
in `m(int q, int p) { while (q) q = q - 1; p = 0; while (p < 5) p = h(p); }` both get D2.

*Object writer.* Branch and 16-bit frame displacements are truncated without a check (emit_elf.c:1006); a label
defined twice silently takes the last (182); a DC.L of a symbol in `.rodata` is relocated in `.rela.text`
(1211), which the code generator never writes; sections have alignment 4 whatever the directives say.

*Heap.* The machine heap overruns the break by its own headers, at least 128 bytes (malloc.c:51). A
request within 32 bytes of 2^32 wraps to a tiny one. The cursor of `HeapSoaWalk` is an arena pointer: a
client that frees the arena's last cell between two calls leaves it dangling. `realloc` of an older object while the scratch arena is open
stays in the nearly full machine heap. Pointers into a released arena are routed to the machine heap. An `ARENA_MIN` below 4 would make the back-off loop.

*Stdio.* `fputc` tests `cnt == bufsize` after storing; when the flush fails, `cnt` stays, the next
byte is stored past the buffer and the test never holds again (fputc.c:35; stdio.h:53 says bufsize is the
capacity). `fseek(fp, off, SEEK_CUR)` drops the bytes read ahead and moves from the descriptor's position, which
is ahead of the stream's (fseek.c:15). `fclose` ignores the result of its flush.

*CP/M.* `sys_seek` with `SEEK_END` clears `FCB_CR` (cpm.c:219) to ask `F_SIZE`. Only a random access sets it
again, and there is none when the target is the position (cpm.c:240): create a file, write one full record, seek to the
end, write on, and the first record is overwritten; a reader in the same place is given the record
again. `CpmFiles` does the same: with `Liberties = {"end"}` in `MCCpm.cfg`, TLC finds `ReadsFile` violated, and
`NothingLost` if that is checked alone.
`fstat` saves and restores the position (stat.c:75, 78), but `sys_fdsize` moves the FCB, by reading the last
record (cpm.c:471), and not the position, so the seek back does nothing: open a file of one record, fstat it, and the next
read returns 0 bytes. With `Liberties = {"fstat"}` TLC finds `ReadsFile` violated too.
`sys_seek(fd, 0, SEEK_CUR)`, which ftell calls, writes out a partly filled record of a writer without moving back
(cpm.c:238), and does not look whether that was refused. A failed record write leaves `recpos` past the record (cpm.c:149).
`sys_fdsize` counts the records up to the FCB's extent, so `stat` of a file of several extents gives the
size of the first (cpm.c:455 says so). The scan reports the extents 32, 64, ... of a file again (cpm.c:416).
One directory search is shared by readdir, stat and access; `stat` with no free descriptor reports the whole
records of the entry found. `close` ignores the last write's failure.

## What is proved

Every theorem below is checked by TLAPS for all values of the constants that the
named assumption of its module admits. `Spec => []P` is proved as usual: an inductive invariant
`IInv`, that it holds initially, that each action keeps it (one lemma per API call), and that it
implies `P`.

| Theorem | States | Assumes |
| --- | --- | --- |
| `HeapBlocks_proofs`: `TypeCorrect`, `Tiling` | `[]TypeOK`, `[]BlocksTile` | `HeapAssumption` |
| `HeapBlocks_proofs`: `Coalesced` | `[]NoAdjacentFree` (for a heap that coalesces) | the same |
| `HeapBlocks_proofs`: `FreeListsAreExact`, `ChainsStayIntact` | `[]FreeListsExact`, `[]ChainsIntact` | the same |
| `HeapBlocks_proofs`: `Implements` | refinement of `Allocator` | the same |
| `HeapBlocks_proofs`: `RefusalsAreHonest` | `AllocFailsOnlyWhenFull` | and `Coalescing` |
| `HeapBlocks_proofs`: `NoFalseAlarms`, `DamageIsAlwaysFound` | `[]NoFalseAlarm`, `[]DamageIsFound` (of `WalkSpec`) | `HeapAssumption` |
| `HeapBlocks_proofs`: `CompactionIsComplete`, `EnumerationIsComplete` | `CompactMergesAll`, `NothingMissed` (of `WalkSpec`) | the same |
| `Malloc_proofs`: `InUseIsHeld` | the invariant: what `lib/heap` has in use is what the clients hold | `SmallHeapAssumption`, `MallocAssumption` |
| `Malloc_proofs`: `ObjectsApart`, `FreesSucceed` | `[]Apart`, `[]FreesAreRight` | the same |
| `Malloc_proofs`: `NothingLost`, `HeapsAudited` | `[]NoLeak`, `[]Audited` | the same |
| `HashMap_proofs`: `ProbeLoopsEnd`, `PutIsLookedUp` | `[]ProbesEnd`, `PutIsSeen` | `HashMapAssumption` |
| `HashMap_proofs`: `AssertionsHold`, `IsADictionary` | no assertion fails, refinement of `Dict` (for clients without `redefines`) | the same |
| `Stdio_proofs`: `BufferIsKept`, `NothingDroppedSilently` | `[]TypeOK`, `DropsAreReported` | `StdioAssumption` |
| `Stdio_proofs`: `BufferingIsInvisible` | refinement of `Stream` on a good disk | the same |
| `CpmFiles_proofs`: `ClosedFilesAreWhole` | `[]NothingLost` | `CpmAssumption`, `Disciplined` |
| `CpmFiles_proofs`: `ReadsAreRight`, `SizesAreExact`, `ScansAreComplete` | `[]ReadsFile`, `[]ExactSize`, `[]ScanComplete` | the same |
| `Sharing_proofs`: `OwnValues` | `[]OwnValue` | none |

*The block heap.* Tiling alone is not inductive: absorbing a block that is in a bucket is only
harmless if the bucket links around it are right, and an unlink that starts from
a wrong `bhRequestSize` overwrites another bucket's head. The inductive invariant
therefore says

    Consistent(heap)  /\  Fits(heap)  /\  (Coalescing => Separated(heap))  /\  err is an error code

(`HeapInv` is its first three conjuncts, which do not depend on the calls around the heap),
where `Consistent` is tiling and, pointwise, that the free-chain links of exactly the
free blocks are mutually inverse, close no loop and end in the head of the bucket of the block's
size; `Fits` is that live blocks hold their request; `Separated` that no two
adjacent blocks are free. In the middle of an operation the free bits and the
chains differ, so the lemmas carry the set `F` of linked blocks as a parameter
(`LinksOK(h, F)`): `UnlinkFreeLinks` takes a block out of it, `InsertFreeLinks` puts one
in, `SplitTiled` and `AbsorbTiled` keep the tiling. `CoalesceOK`, `FreeBlockOK`,
`TakeBlockOK`, `ShrunkOK`, `GrownOK` and `MoveToOK` compose them into the API's
operations, each with a frame (`Keeps`) saying that the other clients' blocks did not
change; the step lemmas `AllocInv`, `FreeInv`, `ReAllocInv` are case splits over these.

Then from single links to the walk that `HeapAlloc` makes. That no set of
headers is closed under `fnext` (`NoLoop`) gives an induction along the links
(`LinkInduction`), by which the walk from every header exists, visits each free block of its bucket
once (`ChainExact`), and the concatenation of the buckets is a list of the free blocks. The
search of `HeapAlloc` then meets free blocks only, and when it finds none that is large enough
there is none; with `Separated` a gap of the heap is one block, which is `RefusalsAreHonest`.

*Compaction, validation, enumeration.* `HeapInv` is kept through the steps of
`WalkSpec`, with `Ahead`: what an enumeration has still to report lies above its cursor. With no header inside
a block, a cursor that still is a header is at a block, and one whose `bhNext` is NULL has everything below it
(`WalkStep`). For `HeapCompact` the invariant of the pass is that no block of the buckets below the current
one can be merged (`MergedBelow`): a merged block moves to its bucket or a higher one, and neither it nor its new neighbours
gain a free neighbour (`MergeMovesUp`). Each merge removes a block, which bounds the pass (`BlockCount`,
`PassStepOK`). The walks of `HeapValidate` are recursive functions, so first that they exist
(`LinkRecursion`, from `NoLoop`, also on a heap with a damaged word: a link is only followed where it agrees with the size). A
sound heap passes by induction from the ends of the chains; on a damaged one the walk arrives at the damaged block as before, and
its word contradicts another one there (`DamagedChainFails`, `DamagedBucketFails`). `InChain` follows
links from any address, where they need not end; the least set of addresses that lead to the pointer
solves its equation, and all solutions agree on the blocks (`ReachExists`, `BlocksInChain`).

*malloc and the small-object heap.* `Apart`, `FreesAreRight`, `NoLeak` and `Audited` speak of objects, and
none is inductive: whether a free succeeds depends on the class lists, those on every free list
and count of cells, and whether a pointer is told to be a cell on magic words that an earlier owner of the
memory may have left. The invariant is

    Good(mem)  /\  NoEmpty(mem, {})  /\  Coupled(mem, objects)  /\  HeapsKnown

`Good` says, without the clients, that the redundant parts of memory agree: the blocks of a heap do not overlap
and lie between its header and its end, and what it takes for free is (`BlocksOK`, `HeapsOK`); a private heap,
an arena and a control block are each a block of no other use, and an arena's bitmap and count tell
its slabs (`ArenasOK`); a slab's free list names cells of it, each once (`SlabsOK`); the class
lists are exactly the slabs with and without a free cell, and the counts are right (`ListsOK`). Since a magic word is
in a domain only while it is the memory's owner's, this also says that no stale one is left. `NoEmpty` is that
every slab has a live cell and every arena a slab, `HeapsKnown` that the heaps are the machine heap and the open arena.
`Uses(m)` is the pointers in use, live cells and blocks that are no heap, arena or control block, and `Coupled` that
the objects are exactly those.

The lemmas on operations are about any good memory, with any number of private heaps, and are stated as contracts
on `Uses`: an allocation adds one pointer, large enough, in its heap, or fails and adds none (`HeapServes`); a free takes
exactly that one away, whatever the tag (`HeapFrees`); a reallocation changes one (`HeapRegives`); a second free of
a cell is refused (`NoSecondFree`); compaction finds nothing to release (`CompactFinds`); creation adds a heap and destruction removes its uses (`HeapCreated`, `HeapDestroyed`).
In the middle of a call the slab at hand is on no list, or an empty one is not released yet: that is the set `X` of `ListsOK(m, X)`
and `NoEmpty(m, X)`. A step of `Malloc` is then set arithmetic on `Uses` and `objects`, once the heap that the address
range selects is known to be the one that serves the pointer (`OwnerIs`). `Apart` follows since what is
occupied lies in the data of different blocks, or in different cells or the header of one tile; `Audited` since each test of the
audit is a part of `Good`, and the enumeration lists the live cells tile by tile.

`SmallHeapAssumption` is that a tile has room for a cell of each class, and of the largest class for a request of `SOA_MAX`.
`MallocAssumption` has `ARENA_MIN + 4 > SOA_MAX` (in granules: 512 against 8), so that a scratch arena is never a cell,
and `ARENA_MIN >= 4`, so that a quarter less is less and the back-off loop ends.

*The hash table.* `Filled` says that every entry can be reached from its name's first slot over
buckets in use, that `used` counts the buckets in use, and that one at least is not. A
probe loop therefore stops (`Stops`) at the name or at an unused bucket. The loop of `rehash` is
an induction over the old buckets (`MovedUpto`): the new table has what was moved so far,
each name once, and room for the rest. The last is where the assumption `InitSize >= 4` is
needed: with 2 or 3 buckets, 70% of them rounded up leaves none unused (`INIT_SIZE` is 16). `Unique`, that no
name is in the table twice, holds only of clients without `redefines`; it is what `Dict` and the
assertion of `rehash` need (see the hash map under "Disagreements" for the others).

*Stdio.* `Sound` bounds the buffer against the descriptor: what was read ahead lies before
the descriptor's position and fits the buffer with what was served, and a stream that writes to a
good disk has room for a byte. The refinement maps the two stores to one file (`Shown`); the lemmas
say that a flush, a refill and the skip of CR and Ctrl-Z in text mode change neither the file nor the
position that the client sees.

*CP/M files.* The invariant `Kept` relates each descriptor to its file: one that writes has the file's
bytes in the records and the rest in its buffer (`Buffered`), is the only one on the file, and its
FCB is at the end; one that reads holds the record of its position, with the FCB at the next record unless it is at the
end, or a seek loaded the record on a BDOS that reads it again (`ReaderAt`). A file no descriptor writes is the bytes put in
it and less than a record of padding (`FileOK`). The loops of `sys_write` and `sys_read`
are inductions over the bytes (`WriteLoopOK`, `ReadLoopOK`) whose invariants are these and what
has been moved. `ScanOK` says what a search has still to see: only entries there are (`Known`),
the first of each file not reported (`Ahead`), and not that of a file reported whose extents fit a module (`Behind`), each
of which was reported once (`OneEach`). Files only grow meanwhile (`Grown`).

*Register sharing.* `OwnValue` is inductive with the types; the step that matters is `Define`, where a
register that is overwritten is, by the discipline, not that of another live variable. Together
with the run's `Shares` this is the argument for the allocator; that the allocator
follows the discipline on every control-flow graph is model-checked only, since
`IrCode` is written with recursive operators over syntax trees.

The library's induction theorems take a predicate as a parameter, which the provers cannot
instantiate. `Induction` states what is needed with sets instead (`SetInduction`: a set that has 0 and, with
each number below `n`, the next one, has `0 .. n`), and from that the existence of recursive functions
on `0 .. n` (`Recursion`) and what `FlattenSeq` returns (`Flattened`). This is why the loops in the
modules above are recursive functions and folds.

Model-checked only: liveness (`Compiles`, `Finishes`, `Halts`), which is out of the proof
system's reach; everything written with recursive operators over trees or token lists
(`Macros`, `Cpp`, `Parser`, `Codegen`, `IrGen`, `IrCode`, `RegAlloc`, `CMeaning`), which the provers
cannot unfold; and everything about the object writer.
Of `HashMap`, that clients which redefine after an `#undef` may end in the assertion of `rehash` is
seen in the states of the run; of `CpmFiles`, clients with the liberty "update" have the run `cpm_update`, and those with
"end" or "fstat" none.

## What is not modelled

Listed with reasons under "components". In short:

* the tokenizer, pure functions (floating point, formatting, strings, dates) and system-call
  wrappers: conversions of data, without state between calls;
* the driver's options, temporary files and child processes: I/O;
* in the preprocessor, the predefined macros, `__COUNTER__` and parameters inside `__VA_OPT__`;
* in the parser, programs it refuses, inline asm, atomics, labels as values, floating constants in
  initialisers, flexible array members, incomplete and self-referential structs, alignment of variables;
* in the generators, `-g` (the directives it writes are the object writer's input), the value temporaries of
  `ir68k.c` (a self-test) and the -O3 colouring of code that is executed: `RegAlloc` has it, on its own functions;
* in the register allocator, the folding of compound assignments through a temporary pointer, the caps of
  256 and 4096 entries, `switch` and long-long statements;
* in the object writer, the lexing of assembly text, section flags and `e_flags`;
* in the heap, 32-bit wrap of request sizes, debug fills, statistics, per-call flags, and a client that changes
  the heap between two calls of `HeapSoaWalk`;
* in stdio, the stream table, append mode, memory, temporary and wide streams and `setvbuf`;
* on CP/M, console, clock, arguments, drive letters and a failing `F_CLOSE`.

## Plan

1. Done: the modules above, and the theorems about the block heap with its compaction, validation and enumeration,
   the small-object heap with `malloc` and the scratch arena, the hash table, the streams and the CP/M files.
2. A static control-flow graph module without recursion: that any solution of the
   data-flow equations with a valid colouring follows `Sharing`, proved.
3. The stream table: `fopen`, `fclose`, `freopen` and `fflush(NULL)` over several streams; `setvbuf` and append mode.
4. The tokenizer's escapes and number suffixes, against the C grammar.
