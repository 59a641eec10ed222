-------------------------------- MODULE Stdio --------------------------------
(***************************************************************************)
(* One FILE of libc/core over one file of the system: a buffer that holds  *)
(* either bytes read ahead or bytes not yet written, and the turn-arounds  *)
(* between the two.  A call is one action; system calls are what the code  *)
(* relies on: a read may be short or fail, a write may fail or be cut      *)
(* short.                                                                  *)
(***************************************************************************)
EXTENDS Integers, SequencesExt

CONSTANTS
  Byte,           \* the byte values clients write
  FailingByte,    \* those they write to a disk on which sys_read and sys_write may fail
  BufSize,        \* bufsize, the capacity of *base
  MaxLen,         \* bound: the longest file
  Disks           \* the disks: FALSE for one on which sys_read and sys_write may fail

ASSUME StdioAssumption ==
  /\ FailingByte \subseteq Byte /\ Byte \subseteq 0 .. 255
  /\ BufSize \in Nat \ {0} /\ MaxLen \in Nat
  /\ Disks \subseteq BOOLEAN

VARIABLES
  fp,   \* the FILE, and the file behind its descriptor, see Stream below
  ret   \* what the last call returned

vars == <<fp, ret>>

Bytes(good) == IF good THEN Byte ELSE FailingByte

EOF == -1
NL == 10
CR == 13
SUB == 26

(* pend is the cnt bytes in the buffer: read ahead, or, when the stream is *)
(* in write orientation, not written yet; served is p - base.              *)
State == [data : Seq(Byte \cup {CR}), at : Nat, pend : Seq(Byte \cup {CR}),
          served : 0 .. BufSize, writing : BOOLEAN, eof : BOOLEAN,
          err : BOOLEAN, text : BOOLEAN, good : BOOLEAN, mode : {"r", "w", "r+", "closed"}]

CanRead(s) == s.mode \in {"r", "r+"}
CanWrite(s) == s.mode \in {"w", "r+"}
From(s, i) == SubSeq(s, i + 1, Len(s))
Overwrite(s, i, w) == SubSeq(s, 1, i) \o w \o From(s, i + Len(w))
Emptied(s) == [s EXCEPT !.pend = << >>, !.served = 0]

(* An outcome of a part of a call: the state it leaves and its result.     *)
Out(s, r) == [s |-> s, r |-> r]

(* sys_write moves n of the pending bytes to the file.                     *)
Written(s, n) == [s EXCEPT !.data = Overwrite(@, s.at, SubSeq(s.pend, 1, n)),
                           !.at = @ + n]

(* Fault variants: definitions named after the bug they carry stand beside *)
(* the definition they vary; no specification uses them.                   *)
FlushErrorSilent(s) == s

(* fflush: a failed write keeps cnt, whatever part of it reached the file. *)
FlushError(s) == [s EXCEPT !.err = TRUE]
Flushed(s) ==
  IF ~ (s.writing /\ s.pend # << >>) THEN {Out(s, 0)}
  ELSE {Out(Emptied(Written(s, Len(s.pend))), 0)}
       \cup {Out(FlushError(Written(s, n)), EOF) :
               n \in {n \in 0 .. Len(s.pend) - 1 :
                        ~ s.good /\ s.at + n <= MaxLen}}

(* base[cnt++] = c, and the flush of a full buffer or at the end of a line.*)
Stored(s, c) ==
  LET t == [s EXCEPT !.pend = Append(@, c)]
  IN  IF Len(t.pend) = BufSize \/ c = NL THEN Flushed(t) ELSE {Out(t, 0)}

(* fputc turns a reading stream around: the descriptor goes back over the  *)
(* bytes read ahead.                                                       *)
TurnedToWriteNoSeek(s) ==
  IF s.writing THEN s ELSE [Emptied(s) EXCEPT !.writing = TRUE]
TurnedToWrite(s) ==
  IF s.writing THEN s
  ELSE [Emptied(s) EXCEPT !.at = s.at - Len(s.pend), !.writing = TRUE]

PutCharBare(s, c) == Stored(s, c)
PutChar(s, c) ==
  IF s.text /\ c = NL
  THEN UNION {IF o.r = EOF THEN {o} ELSE Stored(o.s, c) : o \in Stored(s, CR)}
  ELSE Stored(s, c)

(* fgetc turns a writing stream around: what is pending is flushed, and    *)
(* dropped if that failed.                                                 *)
TurnedToRead(s) ==
  IF s.writing THEN {[Emptied(o.s) EXCEPT !.writing = FALSE] : o \in Flushed(s)}
  ELSE {s}

(* The loop of fgetc has consumed m bytes of the buffer and of the file    *)
(* behind it.  The last sys_read of the loop served j bytes of the j + k   *)
(* it returned.                                                            *)
Consume(s, m) ==
  LET x == m - Len(s.pend)
      to == s.at + x
  IN  IF x <= 0 THEN {[s EXCEPT !.pend = From(@, m), !.served = @ + m]}
      ELSE {[s EXCEPT !.at = to + jk[2], !.served = jk[1],
                      !.pend = SubSeq(s.data, to + 1, to + jk[2])] :
              jk \in {p \in (1 .. BufSize) \X (0 .. BufSize) :
                        /\ p[1] <= x /\ p[1] + p[2] <= BufSize
                        /\ to + p[2] <= Len(s.data)}}

(* A text stream skips carriage returns and ends at Ctrl-Z.                *)
GetChar(s) ==
  LET input == s.pend \o From(s.data, s.at)
      stops == {i \in DOMAIN input : ~ (s.text /\ input[i] = CR)}
      i == CHOOSE n \in stops : \A o \in stops : n <= o
  IN  IF stops = {}
      THEN {Out([t EXCEPT !.eof = TRUE], EOF) : t \in Consume(s, Len(input))}
      ELSE IF s.text /\ input[i] = SUB
      THEN {Out([t EXCEPT !.eof = TRUE], EOF) : t \in Consume(s, i)}
      ELSE {Out(t, input[i]) : t \in Consume(s, i)}

(* Once the buffer is used up sys_read may fail, behind carriage returns   *)
(* the loop has skipped.                                                   *)
ReadFailed(s) ==
  LET input == s.pend \o From(s.data, s.at)
      skipped == {m \in Len(s.pend) .. Len(input) : \A k \in 1 .. m : s.text /\ input[k] = CR}
  IN  {Out(FlushError(t), EOF) :
         t \in {t \in UNION {Consume(s, m) : m \in skipped} : t.pend = << >> /\ ~ t.good}}

Result(o) == fp' = o.s /\ ret' = o.r

(* The position ftell computes and sys_seek(fd, 0, SEEK_CUR) corrects.     *)
Position(s) == IF s.writing THEN s.at + Len(s.pend) ELSE s.at - Len(s.pend)

(* The file as the client must believe it to be.                           *)
Content(s) == IF s.writing THEN Overwrite(s.data, s.at, s.pend) ELSE s.data
-----------------------------------------------------------------------------
(* fopen on a file of at most two bytes; "w" truncates it, and "b" makes   *)
(* the stream a binary one.                                                *)
Init ==
  /\ ret = 0
  /\ \E mode \in {"r", "w", "r+"}, text \in BOOLEAN, good \in Disks, n \in 0 .. 2 :
       \E data \in [1 .. n -> Bytes(good)] :
         /\ mode = "w" => n = 0
         /\ fp = [data |-> data, at |-> 0, pend |-> << >>, served |-> 0,
                  writing |-> mode = "w", eof |-> FALSE, err |-> FALSE,
                  text |-> text, good |-> good, mode |-> mode]

Fgetc ==
  /\ fp.mode # "closed"
  /\ \/ ~ CanRead(fp) /\ Result(Out(FlushError(fp), EOF))
     \/ /\ CanRead(fp)
        /\ \E s \in TurnedToRead(fp) :
             \/ s.eof /\ Result(Out(s, EOF))
             \/ ~ s.eof /\ \E o \in GetChar(s) \cup ReadFailed(s) : Result(o)

Fputc(c) ==
  /\ fp.mode # "closed"
  /\ Position(fp) < MaxLen
  /\ \/ ~ CanWrite(fp) /\ Result(Out(FlushError(fp), EOF))
     \/ /\ CanWrite(fp)
        /\ \E o \in PutChar(TurnedToWrite(fp), c) :
             Result(Out(o.s, IF o.r = EOF THEN EOF ELSE c))

UngetcNoRoomCheck(c) ==
  /\ fp.mode # "closed" /\ ~ fp.writing /\ Position(fp) > 0
  /\ Result(Out([fp EXCEPT !.pend = <<c>> \o @, !.eof = FALSE, !.served = @ - 1], c))

(* Clients push back only what they have read (not in write orientation,   *)
(* where C leaves the call undefined); bytes that have been served leave   *)
(* room, otherwise the buffer is shifted up.                               *)
Ungetc(c) ==
  /\ fp.mode # "closed" /\ ~ fp.writing /\ Position(fp) > 0
  /\ LET t == [fp EXCEPT !.pend = <<c>> \o @, !.eof = FALSE]
     IN  \/ fp.served > 0 /\ Result(Out([t EXCEPT !.served = @ - 1], c))
         \/ fp.served = 0 /\ Len(fp.pend) < BufSize /\ Result(Out(t, c))
         \/ fp.served = 0 /\ Len(fp.pend) >= BufSize /\ Result(Out(fp, EOF))

(* fseek flushes, forgets the buffer and moves the descriptor: to an       *)
(* offset from the start, or from where the descriptor is.  Clients use    *)
(* SEEK_CUR with nothing read ahead (the code drops what was read ahead    *)
(* and moves from the descriptor's position, which is ahead by as much).   *)
Sought(s) == [Emptied(s) EXCEPT !.eof = FALSE, !.writing = @ /\ ~ CanRead(s)]
Fseek(off, fromCurrent) ==
  /\ fp.mode # "closed"
  /\ fromCurrent => fp.writing \/ fp.pend = << >>
  /\ \E o \in Flushed(fp) :
       LET to == IF fromCurrent THEN o.s.at + off ELSE off
       IN  /\ to \in 0 .. Len(o.s.data)
           /\ Result(Out([Sought(o.s) EXCEPT !.at = to], 0))

Ftell == fp.mode # "closed" /\ Result(Out(fp, Position(fp)))

Fflush == fp.mode # "closed" /\ \E o \in Flushed(fp) : Result(o)

Clearerr == /\ fp.mode # "closed"
            /\ fp' = [fp EXCEPT !.eof = FALSE, !.err = FALSE] /\ UNCHANGED ret

(* fclose flushes, closes the descriptor and frees the slot; it returns    *)
(* what sys_close returned.                                                *)
Closed(s) == [Emptied(s) EXCEPT !.at = 0, !.writing = FALSE, !.eof = FALSE,
                                !.err = FALSE, !.mode = "closed"]
Fclose ==
  \/ fp.mode = "closed" /\ Result(Out(fp, EOF))
  \/ fp.mode # "closed" /\ \E o \in Flushed(fp) : Result(Out(Closed(o.s), 0))

(* Nothing can be said of the calls that follow a write past the buffer.   *)
Next == /\ Len(fp.pend) <= BufSize
        /\ \/ Fgetc \/ Ftell \/ Fflush \/ Clearerr \/ Fclose
           \/ \E c \in Bytes(fp.good) : Fputc(c) \/ Ungetc(c)
           \/ \E off \in 0 .. MaxLen : Fseek(off, FALSE)
           \/ \E off \in -1 .. 1 : Fseek(off, TRUE)

Spec == Init /\ [][Next]_vars
-----------------------------------------------------------------------------
(* Bytes only come from the file and from clients, the descriptor never    *)
(* leaves the file, and as long as no write fails the buffer holds what    *)
(* was put in it (stdio.h: bufsize is "capacity of *base").                *)
TypeOK ==
  /\ fp \in State /\ ret \in Byte \cup Nat \cup {EOF} /\ fp.at <= Len(fp.data)
  /\ fp.good => Len(fp.pend) <= BufSize

(* Output dropped by a turn-around or a seek leaves ferror() set: bytes    *)
(* that were pending are in the file unless the client can know.           *)
DropsAreReported ==
  [][fp.writing /\ ~ fp'.writing /\ fp'.mode # "closed" /\ fp.pend # << >>
       => fp'.err \/ fp'.data = Overwrite(fp.data, fp.at, fp.pend)]_vars

(* The client sees the unbuffered stream of module Stream, as long as no   *)
(* system call fails; of the other disk the mapping shows nothing.         *)
Shown(x, nothing) == IF fp.good THEN x ELSE nothing
Ahead(s) == IF s.mode = "closed" THEN << >>
            ELSE IF s.writing THEN From(Content(s), Position(s))
            ELSE s.pend \o From(s.data, s.at)
U == INSTANCE Stream WITH
       text <- fp.text, content <- Shown(Content(fp), << >>), pos <- Shown(Position(fp), 0),
       ahead <- Shown(Ahead(fp), << >>), eof <- Shown(fp.eof, FALSE), mode <- Shown(fp.mode, "r"),
       ret <- Shown(ret, 0)
Unbuffered == U!Spec
=============================================================================
