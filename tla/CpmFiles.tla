------------------------------ MODULE CpmFiles ------------------------------
(***************************************************************************)
(* The CP/M side of the system-call seam: byte files over a disk that only *)
(* moves whole records.  A descriptor is an FCB, which BDOS reads and      *)
(* writes at its current record, and one record of buffer that holds       *)
(* either bytes read or bytes written.  BDOS itself is external.           *)
(***************************************************************************)
EXTENDS Integers, FiniteSets, SequencesExt

CONSTANTS
  Name,       \* the file names
  Byte,       \* the byte values clients write, SUB among them
  NFile,      \* NFILE, the size of the descriptor table
  RecSize,    \* RECSZ, the size of a record
  ExtRecs,    \* the records of a directory entry (an extent)
  ExtMod,     \* the extents of a module: an entry shows its number modulo this
  Before,     \* the contents of the files written before the program starts
  MaxLen,     \* bound: the most bytes written to a file
  Liberties   \* what clients do besides using a descriptor in one direction:
              \* see the May... operators

SUB == 26
Record == [1 .. RecSize -> Byte]
Disciplined == Liberties = {}

ASSUME CpmAssumption ==
  /\ SUB \in Byte /\ {NFile, MaxLen} \subseteq Nat
  /\ {RecSize, ExtRecs, ExtMod} \subseteq Nat \ {0}
  /\ Before \subseteq Seq(Record) /\ Liberties \subseteq {"update", "end", "fstat"}

VARIABLES
  disk,    \* the files: the records of every name that has a file
  cpmf,    \* the descriptor table
  rereads, \* whether this BDOS, after a random access, goes on at the record
           \* itself or at the next one
  scan,    \* the directory search: whether a client is at it, the entries it
           \* has still to see, and (history) the names it has reported
  want,    \* history: the bytes clients have put in each file
  broken,  \* history: the files a record of which could not be written
  ret      \* the last call: its result, of which only 0 or -1 is kept for calls
           \* that transfer nothing

vars == <<disk, cpmf, rereads, scan, want, broken, ret>>
-----------------------------------------------------------------------------
Fd == 0 .. NFile - 1
Idle == [used |-> FALSE]

(* cr counts the records of the file before the one BDOS moves next, the   *)
(* FCB's ex extents and then its current record: ExtRecs * ex + FCB_CR.    *)
Descriptor == [used : {TRUE}, writing : BOOLEAN, eof : BOOLEAN, recpos : 0 .. RecSize,
               reccnt : {0, RecSize}, pos : Nat, name : Name, ex : Nat, cr : Nat,
               rec : Record, failed : BOOLEAN, loaded : BOOLEAN]

Size(name) == Len(disk[name])
Flat(name) == [i \in 1 .. Size(name) * RecSize |->
                 disk[name][(i - 1) \div RecSize + 1][((i - 1) % RecSize) + 1]]
Overwrite(s, i, w) == SubSeq(s, 1, i) \o w \o SubSeq(s, i + Len(w) + 1, Len(s))
IsOpen(name) == \E i \in Fd : cpmf[i].used /\ cpmf[i].name = name

(* disk with the records recs for the file.                                *)
With(name, recs) == [n \in DOMAIN disk \cup {name} |-> IF n = name THEN recs ELSE disk[n]]

Extent(r) == r \div ExtRecs

(* Where F_READRAND and F_WRITERAND leave the FCB, and where they do when  *)
(* they fail: at the record asked for.                                     *)
After(r) == IF rereads THEN r ELSE r + 1
AfterRecord(f, r) == [f EXCEPT !.ex = Extent(r), !.cr = After(r)]
AtRecord(f, r) == [f EXCEPT !.ex = Extent(r), !.cr = r]

Done(r) == ret' = [op |-> "none", name |-> "", at |-> 0, r |-> r]
Returns(op, name, at, r) == ret' = [op |-> op, name |-> name, at |-> at, r |-> r]
NoScan == [on |-> FALSE, left |-> {}, seen |-> << >>]
-----------------------------------------------------------------------------
Slots == {i \in Fd : ~ cpmf[i].used}
AllocSlot == CHOOSE i \in Slots : \A j \in Slots : i <= j
Opened(name, writing) ==
  [used |-> TRUE, writing |-> writing, eof |-> FALSE, recpos |-> 0, reccnt |-> 0,
   pos |-> 0, name |-> name, ex |-> 0, cr |-> 0, rec |-> [i \in 1 .. RecSize |-> SUB],
   failed |-> FALSE, loaded |-> FALSE]

(* A file is not opened again, created, deleted or renamed while a         *)
(* descriptor writes it.                                                   *)
Open(name) ==
  /\ \A i \in Fd : cpmf[i].used /\ cpmf[i].name = name => ~ cpmf[i].writing
  /\ IF Slots = {} \/ name \notin DOMAIN disk
     THEN Done(-1) /\ UNCHANGED cpmf
     ELSE /\ cpmf' = [cpmf EXCEPT ![AllocSlot] = Opened(name, FALSE)]
          /\ Done(0)
  /\ UNCHANGED <<disk, rereads, scan, want, broken>>

(* F_MAKE may fail, on a full directory; the old file is deleted by then.  *)
Without(name) == [n \in DOMAIN disk \ {name} |-> disk[n]]
Creat(name) ==
  /\ ~ IsOpen(name)
  /\ IF Slots = {}
     THEN Done(-1) /\ UNCHANGED <<disk, cpmf, scan, want, broken>>
     ELSE /\ \/ /\ disk' = With(name, << >>) /\ Done(0)
                /\ cpmf' = [cpmf EXCEPT ![AllocSlot] = Opened(name, TRUE)]
             \/ disk' = Without(name) /\ Done(-1) /\ UNCHANGED cpmf
          /\ want' = [want EXCEPT ![name] = << >>]
          /\ broken' = broken \ {name} /\ scan' = NoScan
  /\ UNCHANGED rereads
-----------------------------------------------------------------------------
(* An outcome of a part of a call: the descriptor, the records of its file *)
(* and the bytes moved.                                                    *)
Out(f, recs, moved) == [f |-> f, recs |-> recs, moved |-> moved]

(* F_WRITE writes the record buffer at cr; a full disk refuses.            *)
PutRec(recs, r, rec) ==
  [k \in 1 .. (IF r < Len(recs) THEN Len(recs) ELSE r + 1) |->
     IF k = r + 1 THEN rec ELSE recs[k]]
RecordWritten(o) ==
  {Out([o.f EXCEPT !.ex = Extent(o.f.cr), !.cr = @ + 1, !.recpos = 0],
       PutRec(o.recs, o.f.cr, o.f.rec), o.moved),
   Out([o.f EXCEPT !.failed = TRUE], o.recs, Front(o.moved))}

(* The body of sys_write's loop.                                           *)
Stored(o, b) ==
  LET p == Out([o.f EXCEPT !.rec[o.f.recpos + 1] = b, !.recpos = @ + 1],
               o.recs, Append(o.moved, b))
  IN  IF p.f.recpos = RecSize THEN RecordWritten(p) ELSE {p}

Noted(f, bytes) ==
  /\ want' = [want EXCEPT ![f.name] = IF f.failed THEN << >> ELSE bytes]
  /\ broken' = IF f.failed THEN broken \cup {f.name} ELSE broken

(* A failed record write leaves the buffer full: nothing can be said of a  *)
(* call that stores one byte more.                                         *)
MayWrite(f) == "update" \in Liberties \/ f.writing
Write(fd, bytes) ==
  LET f == cpmf[fd]
      outs[i \in 0 .. Len(bytes)] ==
        IF i = 0 THEN {Out(f, disk[f.name], << >>)}
        ELSE UNION {IF o.f.failed THEN {o} ELSE Stored(o, bytes[i]) : o \in outs[i - 1]}
  IN  /\ f.used /\ MayWrite(f) /\ ~ f.failed /\ f.pos <= Len(want[f.name])
      /\ f.cr <= Size(f.name) /\ f.pos + Len(bytes) <= MaxLen
      /\ \E o \in outs[Len(bytes)] :
           /\ cpmf' = [cpmf EXCEPT ![fd] = [o.f EXCEPT !.pos = @ + Len(o.moved)]]
           /\ disk' = With(f.name, o.recs)
           /\ Noted(o.f, Overwrite(want[f.name], f.pos, o.moved))
           /\ Done(Len(o.moved))
      /\ UNCHANGED <<rereads, scan>>

(* The body of sys_read's loop: F_READ when the record is used up.  At the *)
(* end of the file it leaves the FCB where it is.                          *)
Fetched(f, recs) ==
  IF f.recpos < f.reccnt \/ f.eof THEN f
  ELSE IF f.cr >= Len(recs) THEN [f EXCEPT !.eof = TRUE]
  ELSE [f EXCEPT !.rec = recs[f.cr + 1], !.ex = Extent(f.cr), !.cr = @ + 1, !.recpos = 0,
                 !.reccnt = RecSize, !.loaded = FALSE]
Taken(o) ==
  LET f == Fetched(o.f, o.recs)
  IN  IF f.recpos >= f.reccnt THEN Out(f, o.recs, o.moved)
      ELSE Out([f EXCEPT !.recpos = @ + 1], o.recs, Append(o.moved, f.rec[f.recpos + 1]))

(* A BDOS that reads a record again after a random access: the record a    *)
(* seek loaded is all that the code promises.                              *)
MayRead(f, n) ==
  \/ "update" \in Liberties
  \/ /\ ~ f.writing
     /\ f.loaded /\ rereads => f.recpos + n <= f.reccnt
Read(fd, n) ==
  LET f == cpmf[fd]
      taken[i \in 0 .. n] ==
        IF i = 0 THEN Out(f, disk[f.name], << >>) ELSE Taken(taken[i - 1])
      o == taken[n]
  IN  /\ f.used /\ MayRead(f, n) /\ f.recpos <= RecSize
      /\ cpmf' = [cpmf EXCEPT ![fd] = [o.f EXCEPT !.pos = @ + Len(o.moved)]]
      /\ Returns("read", f.name, <<f.pos, n>>, o.moved)
      /\ UNCHANGED <<disk, rereads, scan, want, broken>>

(* Fault variants: definitions named after the bug they carry stand beside *)
(* the definition they vary; no specification uses them.                   *)
FlushesAll(f) == f.recpos > 0

(* sys_close pads and writes a partial record, without a look at whether   *)
(* that worked.                                                            *)
Padded(f) == [f EXCEPT !.rec = [i \in 1 .. RecSize |-> IF i <= f.recpos THEN @[i] ELSE SUB]]
Flushes(f) == f.writing /\ f.recpos > 0
Close(fd) ==
  LET f == cpmf[fd]
  IN  /\ f.used /\ f.cr <= Size(f.name)
      /\ \E o \in IF Flushes(f) THEN RecordWritten(Out(Padded(f), disk[f.name], <<SUB>>))
                  ELSE {Out(f, disk[f.name], << >>)} :
           /\ disk' = With(f.name, o.recs)
           /\ Noted(o.f, want[f.name])
      /\ cpmf' = [cpmf EXCEPT ![fd] = Idle]
      /\ Done(0)
      /\ UNCHANGED <<rereads, scan>>
-----------------------------------------------------------------------------
(* F_SIZE is asked with FCB_CR set to 0, which nothing sets back.          *)
Rewound(f, whence) == IF whence = "END" THEN [f EXCEPT !.cr = ExtRecs * f.ex] ELSE f

(* F_WRITERAND of a partial record: a full disk refuses, unnoticed.        *)
Persisted(f) ==
  LET r == (f.pos - f.recpos) \div RecSize
      g == [f EXCEPT !.recpos = 0]
  IN  IF Flushes(f)
      THEN {Out(AfterRecord(g, r), PutRec(disk[f.name], r, Padded(f).rec),
                SubSeq(f.rec, 1, f.recpos)),
            Out(AtRecord(g, r), disk[f.name], << >>)}
      ELSE {Out(f, disk[f.name], << >>)}
Unwritten(f, o) == IF Flushes(f) /\ o.moved = << >> THEN broken \cup {f.name} ELSE broken

(* F_READRAND of the record of the target, unless the descriptor is there. *)
LoadedAt(o, target, at) ==
  LET r == target \div RecSize
      f == [o.f EXCEPT !.eof = FALSE, !.pos = target]
  IN  IF target = o.f.pos THEN o.f
      ELSE IF r < Len(o.recs)
      THEN AfterRecord([f EXCEPT !.rec = o.recs[r + 1], !.reccnt = RecSize, !.recpos = at,
                        !.loaded = TRUE], r)
      ELSE AtRecord([f EXCEPT !.reccnt = 0, !.recpos = 0], r)
LoadedAtStart(o, target) == LoadedAt(o, target, 0)
Loaded(o, target) == LoadedAt(o, target, target % RecSize)

Target(f, off, whence) == CASE whence = "SET" -> off
                            [] whence = "CUR" -> f.pos + off
                            [] whence = "END" -> Size(f.name) * RecSize + off

(* To the end of the file only if that moves the descriptor, or if the FCB *)
(* is at the first record of its extent: see Rewound.                      *)
MaySeek(f, target, whence) ==
  /\ target <= MaxLen + 1 \/ target <= Size(f.name) * RecSize + 1
  /\ (f.pos - f.recpos) \div RecSize <= Size(f.name)
  /\ \/ "update" \in Liberties \/ ~ f.writing
     \/ f.recpos = 0 /\ target = f.pos
  /\ \/ "end" \in Liberties \/ whence # "END" \/ f.cr = ExtRecs * f.ex
     \/ 0 <= target /\ target # f.pos

Seek(fd, off, whence) ==
  LET f == cpmf[fd]
      target == Target(f, off, whence)
      rewound == Rewound(f, whence)
  IN  /\ f.used /\ MaySeek(f, target, whence) /\ ~ f.failed
      /\ IF target < 0
         THEN /\ cpmf' = [cpmf EXCEPT ![fd] = rewound] /\ Done(-1)
              /\ UNCHANGED <<disk, broken>>
         ELSE /\ \E o \in Persisted(rewound) :
                   /\ cpmf' = [cpmf EXCEPT ![fd] = Loaded(o, target)]
                   /\ disk' = With(f.name, o.recs)
                   /\ broken' = Unwritten(f, o)
              /\ Done(0)
      /\ UNCHANGED <<rereads, scan, want>>
-----------------------------------------------------------------------------
(* The records an entry counts.                                            *)
InExtent(recs, e) ==
  LET rest == Len(recs) - ExtRecs * e
  IN  IF rest < 0 THEN 0 ELSE IF rest < ExtRecs THEN rest ELSE ExtRecs

(* sys_fdsize counts the records up to the end of the FCB's extent and     *)
(* takes the padding off the last of them, which it reads at random.       *)
Trimmed(rec) ==
  LET data == {i \in 1 .. RecSize : rec[i] # SUB}
  IN  IF data = {} THEN 0 ELSE CHOOSE i \in data : \A j \in data : j <= i
Counted(ex, recs) == ExtRecs * (ex % ExtMod) + InExtent(recs, ex)
WholeRecords(ex, recs) == RecSize * Counted(ex, recs)
FdSize(ex, recs) ==
  LET n == Counted(ex, recs)
  IN  IF n = 0 THEN 0
      ELSE IF n <= Len(recs) THEN RecSize * (n - 1) + Trimmed(recs[n]) ELSE RecSize * n
Sized(f, recs) ==
  LET n == Counted(f.ex, recs)
  IN  IF n = 0 THEN f ELSE IF n <= Len(recs) THEN AfterRecord(f, n - 1) ELSE AtRecord(f, n - 1)

(* fstat: sys_seek to where the descriptor is, the size, sys_seek back,    *)
(* which does nothing; the FCB stays at the record sys_fdsize read.        *)
MayFstat(f) ==
  \/ "fstat" \in Liberties
  \/ /\ ~ f.writing /\ f.eof
     /\ f.ex = 0 \/ ExtRecs * f.ex < Size(f.name)
Fstat(fd) ==
  LET f == cpmf[fd]
  IN  /\ f.used /\ MayFstat(f) /\ ~ f.failed
      /\ (f.pos - f.recpos) \div RecSize <= Size(f.name)
      /\ \E o \in Persisted(f) :
           /\ cpmf' = [cpmf EXCEPT ![fd] = Sized(o.f, o.recs)]
           /\ disk' = With(f.name, o.recs)
           /\ broken' = Unwritten(f, o)
           /\ Returns("stat", f.name, f.pos, FdSize(o.f.ex, o.recs))
      /\ UNCHANGED <<rereads, scan, want>>

(* The directory: an entry for every extent of a file, and one search that *)
(* every call below shares.                                                *)
LastExtent(name) == IF Size(name) = 0 THEN 0 ELSE Extent(Size(name) - 1)
Entries(names) ==
  UNION {{n} \X (0 .. LastExtent(n)) : n \in names \cap DOMAIN disk}
EntrySize(e) == WholeRecords(e[2], disk[e[1]])

(* cpm_find_report reports the first entry of each module of a file and    *)
(* passes over the others; the order of the entries is the disk's.         *)
ReportedAnyExtent(left) == left
Reported(left) == {e \in left : e[2] % ExtMod = 0}
Report(left, seen) ==
  \/ /\ Reported(left) = {}
     /\ scan' = NoScan /\ Returns("end", "", 0, seen)
  \/ \E e \in Reported(left), passed \in SUBSET (left \ Reported(left)) :
       /\ scan' = [on |-> TRUE, left |-> left \ (passed \cup {e}), seen |-> Append(seen, e[1])]
       /\ Done(0)

FindFirst == /\ Report(Entries(Name), << >>)
             /\ UNCHANGED <<disk, cpmf, rereads, want, broken>>
FindNext == /\ scan.on /\ Report(scan.left, scan.seen)
            /\ UNCHANGED <<disk, cpmf, rereads, want, broken>>

(* Lookups of one name take the search over, so clients keep them apart    *)
(* from a scan.                                                            *)
MayLookUp == ~ scan.on
TakenOver == scan' = [scan EXCEPT !.left = {}]

Access(name) ==
  /\ MayLookUp /\ TakenOver
  /\ Done(IF name \in DOMAIN disk THEN 0 ELSE -1)
  /\ UNCHANGED <<disk, cpmf, rereads, want, broken>>

(* stat opens the file for its size; without a free descriptor it makes do *)
(* with the directory entry it found.                                      *)
Stat(name) ==
  /\ MayLookUp /\ TakenOver
  /\ \A i \in Fd : cpmf[i].used /\ cpmf[i].name = name => ~ cpmf[i].writing
  /\ IF name \notin DOMAIN disk THEN Returns("stat", name, 0, -1)
     ELSE IF Slots # {} THEN Returns("stat", name, 0, FdSize(0, disk[name]))
     ELSE \E e \in Reported(Entries({name})) : Returns("stat", name, 0, EntrySize(e))
  /\ UNCHANGED <<disk, cpmf, rereads, want, broken>>

Unlink(name) ==
  /\ ~ IsOpen(name)
  /\ disk' = Without(name)
  /\ want' = [want EXCEPT ![name] = << >>] /\ broken' = broken \ {name}
  /\ scan' = NoScan /\ Done(IF name \in DOMAIN disk THEN 0 ELSE -1)
  /\ UNCHANGED <<cpmf, rereads>>

(* Clients do not rename to a name in use: what BDOS does then is its own. *)
Rename(old, new) ==
  /\ ~ IsOpen(old) /\ new \notin DOMAIN disk
  /\ IF old \in DOMAIN disk
     THEN /\ disk' = [n \in (DOMAIN disk \ {old}) \cup {new} |-> disk[IF n = new THEN old ELSE n]]
          /\ want' = [want EXCEPT ![new] = want[old], ![old] = << >>]
          /\ broken' = (broken \ {old}) \cup (IF old \in broken THEN {new} ELSE {})
          /\ Done(0)
     ELSE Done(-1) /\ UNCHANGED <<disk, want, broken>>
  /\ scan' = NoScan /\ UNCHANGED <<cpmf, rereads>>
-----------------------------------------------------------------------------
Init ==
  /\ \E names \in SUBSET Name : disk \in [names -> Before]
  /\ want = [n \in Name |-> IF n \in DOMAIN disk THEN Flat(n) ELSE << >>]
  /\ cpmf = [i \in Fd |-> Idle] /\ rereads \in BOOLEAN /\ scan = NoScan /\ broken = {}
  /\ ret = [op |-> "none", name |-> "", at |-> 0, r |-> 0]

Next ==
  \/ \E n \in Name : Open(n) \/ Creat(n) \/ Access(n) \/ Stat(n) \/ Unlink(n)
  \/ \E old, new \in Name : Rename(old, new)
  \/ \E fd \in Fd : \/ Close(fd) \/ Fstat(fd)
                    \/ \E b, c \in Byte : Write(fd, <<b>>) \/ Write(fd, <<b, c>>)
                    \/ \E n \in {1, RecSize + 1} : Read(fd, n)
                    \/ \E off \in {0, RecSize, MaxLen + 1} : Seek(fd, off, "SET")
                    \/ \E off \in {-1, 1} : Seek(fd, off, "CUR")
                    \/ \E off \in -1 .. 1 : Seek(fd, off, "END")
  \/ FindFirst \/ FindNext

Spec == Init /\ [][Next]_vars
-----------------------------------------------------------------------------
(* cpm.c: moving bytes through whole records loses none of them.  A closed *)
(* file begins with the bytes its clients put in it, unless a record of it *)
(* could not be written.                                                   *)
NothingLost ==
  \A n \in DOMAIN disk \ broken : ~ IsOpen(n) => IsPrefix(want[n], Flat(n))

(* sys_read returns the bytes of the file that follow the descriptor's     *)
(* position, as many as there are, wherever seeks have put it.             *)
ReadsFile ==
  ret.op = "read" =>
    LET pos == ret.at[1]
        end == pos + ret.at[2]
    IN  ret.r = SubSeq(Flat(ret.name), pos + 1, IF end < Len(Flat(ret.name)) THEN end
                                                 ELSE Len(Flat(ret.name)))

(* stat recovers the length of a text file of one extent from its records: *)
(* a file that does not end in a Ctrl-Z of its own has the size its        *)
(* clients gave it, if a descriptor was free.                              *)
ExactSize ==
  (/\ ret.op = "stat" /\ ret.name \in DOMAIN disk \ broken /\ Slots # {}
   /\ Size(ret.name) <= ExtRecs /\ want[ret.name] # << >> /\ Last(want[ret.name]) # SUB)
     => ret.r = Len(want[ret.name])

(* A directory scan that nothing disturbs reports the files there are, and *)
(* reports once each file whose extents fit a module, though it has many.  *)
ScanComplete ==
  ret.op = "end" =>
    /\ ToSet(ret.r) = DOMAIN disk
    /\ \A i, j \in DOMAIN ret.r :
         ret.r[i] = ret.r[j] /\ LastExtent(ret.r[i]) < ExtMod => i = j
=============================================================================
