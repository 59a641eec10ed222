--------------------------- MODULE CpmFiles_proofs ---------------------------
(***************************************************************************)
(* Proofs about CpmFiles, for files of any length, records of any size and *)
(* any number of descriptors, of clients that take no liberties with them: *)
(* closed files hold what was put in them, reads return the bytes at the   *)
(* position, sizes of files of one extent are exact, and directory scans   *)
(* report every file.                                                      *)
(***************************************************************************)
EXTENDS CpmFiles, Induction

(* The bytes of a file, numbered from 0.                                   *)
At(recs, i) == recs[(i \div RecSize) + 1][(i % RecSize) + 1]
Bytes(recs) == Len(recs) * RecSize

(* A file no descriptor writes: the bytes put in it and less than a record *)
(* of padding.                                                             *)
FileOK(recs, w) ==
  /\ Len(w) <= Bytes(recs) /\ Bytes(recs) < Len(w) + RecSize
  /\ \A i \in 0 .. Bytes(recs) - 1 : At(recs, i) = IF i < Len(w) THEN w[i + 1] ELSE SUB

(* A descriptor that writes: the bytes are in the records and the buffer.  *)
Contents(w, recs, rec) ==
  \A i \in 0 .. Len(w) - 1 :
    w[i + 1] = IF i < Bytes(recs) THEN At(recs, i) ELSE rec[i - Bytes(recs) + 1]
Buffered(f, recs, w) ==
  /\ f.cr = Len(recs) /\ f.recpos < RecSize /\ Len(w) = Bytes(recs) + f.recpos
  /\ Contents(w, recs, f.rec)
Writer(f, recs, w, lost) ==
  IF f.failed THEN lost ELSE ~ lost /\ Buffered(f, recs, w) /\ f.pos = Len(w)

(* A descriptor that reads: the buffer is the record of its position, and  *)
(* the FCB is at the next one, except after a random access to a BDOS that *)
(* reads the record again.                                                 *)
ReaderAt(f, pos, recs, again) ==
  /\ f.recpos <= f.reccnt /\ ~ f.failed
  /\ f.eof => f.recpos = f.reccnt /\ pos >= Bytes(recs)
  /\ f.reccnt = 0 /\ ~ f.eof => \/ pos = 0 /\ f.cr = 0
                                \/ pos >= Bytes(recs) /\ f.cr >= Len(recs)
  /\ f.reccnt = RecSize => \E r \in 0 .. Len(recs) - 1 :
       /\ pos = r * RecSize + f.recpos /\ f.rec = recs[r + 1]
       /\ ~ f.eof /\ ~ (f.loaded /\ again) => f.cr = r + 1
Reader(f, recs, again) == ReaderAt(f, f.pos, recs, again)

LEMMA Constants ==
  /\ RecSize \in Nat \ {0} /\ RecSize \in Nat /\ RecSize > 0 /\ SUB \in Byte /\ SUB \in Int
  /\ NFile \in Nat /\ MaxLen \in Nat
  BY CpmAssumption DEF SUB

(* What clients without liberties keep to.                                 *)
LEMMA Keeping ==
  ASSUME Disciplined
  PROVE  "update" \notin Liberties /\ "end" \notin Liberties /\ "fstat" \notin Liberties
  BY DEF Disciplined

(* Extents.                                                                *)
LEMMA ExtentOK ==
  ASSUME NEW r \in Nat
  PROVE  /\ Extent(r) \in Nat /\ \A s \in Nat : r <= s => Extent(r) <= Extent(s)
         /\ ExtRecs \in Nat \ {0} /\ ExtMod \in Nat \ {0} /\ 0 % ExtMod = 0
<1>1. ExtRecs \in Nat \ {0} /\ ExtMod \in Nat \ {0}
  BY CpmAssumption
<1>2. Extent(r) \in Nat
  BY <1>1, Divided DEF Extent
<1>3. ASSUME NEW s \in Nat, r <= s PROVE Extent(r) <= Extent(s)
  <2> DEFINE a == r \div ExtRecs
             b == s \div ExtRecs
  <2>1. a \in Nat /\ b \in Nat /\ r \in Nat /\ s \in Nat
    BY <1>1, Divided
  <2>2. (b < a <=> s < a * ExtRecs) /\ (a < a <=> r < a * ExtRecs) /\ a * ExtRecs \in Nat
    <3>1. b < a <=> s < a * ExtRecs
      BY <1>1, <2>1, DivLess
    <3>2. a < a <=> r < a * ExtRecs
      BY <1>1, <2>1, DivLess
    <3>3. a * ExtRecs \in Nat
      <4> HIDE DEF a
      <4> QED
        BY <1>1, <2>1, TimesMono
    <3> QED
      BY <3>1, <3>2, <3>3
  <2> HIDE DEF a, b
  <2>3. a <= b
    BY <1>3, <2>1, <2>2
  <2> QED
    BY <2>3 DEF Extent, a, b
<1>4. 0 % ExtMod = 0
  <2>1. 0 \in Int /\ 0 \in 0 .. ExtMod - 1 /\ 0 = ExtMod * 0 + 0
    BY <1>1
  <2> QED
    BY <1>1, <2>1, ModUnique
<1> QED
  BY <1>1, <1>2, <1>3, <1>4
-----------------------------------------------------------------------------
(* Byte positions.                                                         *)
LEMMA BytesOK ==
  ASSUME NEW recs \in Seq(Record)
  PROVE  /\ Len(recs) \in Nat /\ Bytes(recs) \in Nat /\ DOMAIN recs = 1 .. Len(recs)
         /\ \A k \in 1 .. Len(recs) : recs[k] \in Record
<1>1. Len(recs) \in Nat /\ DOMAIN recs = 1 .. Len(recs) /\ \A k \in 1 .. Len(recs) : recs[k] \in Record
  BY LenProperties, ElementOfSeq
<1>2. Len(recs) * RecSize \in Nat
  BY <1>1, Constants, TimesMono
<1> QED
  BY <1>1, <1>2 DEF Bytes

LEMMA LastExtentOK ==
  ASSUME NEW n, disk[n] \in Seq(Record)
  PROVE  LastExtent(n) \in Nat /\ (Len(disk[n]) <= ExtRecs => LastExtent(n) = 0)
<1> DEFINE R == Len(disk[n])
<1>1. R \in Nat /\ LastExtent(n) = IF R = 0 THEN 0 ELSE Extent(R - 1)
  BY BytesOK DEF LastExtent, Size
<1> HIDE DEF R
<1>2. CASE R = 0
  BY <1>1, <1>2
<1>3. CASE R # 0
  <2>1. R - 1 \in Nat
    BY <1>1, <1>3
  <2>2. ASSUME R <= ExtRecs PROVE Extent(R - 1) = 0
    <3> DEFINE r == R - 1
    <3>1. ExtRecs \in Nat \ {0} /\ r \in Nat /\ R \in Nat /\ r = R - 1
      BY <1>1, <2>1, CpmAssumption
    <3> HIDE DEF r
    <3>4. r \in 0 .. ExtRecs - 1 /\ r = 0 * ExtRecs + r /\ 0 \in Nat
      BY <2>2, <3>1
    <3>2. (0 * ExtRecs + r) \div ExtRecs = 0
      BY <3>1, <3>4, Quotient
    <3>3. r \div ExtRecs = 0
      BY <3>2, <3>4
    <3> QED
      BY <3>3 DEF Extent, r
  <2> QED
    BY <1>1, <1>3, <2>1, <2>2, ExtentOK DEF R
<1> QED
  BY <1>2, <1>3

LEMMA Position ==
  ASSUME NEW recs \in Seq(Record), NEW i \in 0 .. Bytes(recs) - 1
  PROVE  /\ i \div RecSize \in 0 .. Len(recs) - 1 /\ i % RecSize \in 0 .. RecSize - 1
         /\ i = (i \div RecSize) * RecSize + (i % RecSize)
         /\ At(recs, i) \in Byte
<1> DEFINE q == i \div RecSize
           j == i % RecSize
<1>1. i \in Nat /\ i < Bytes(recs) /\ Len(recs) \in Nat /\ \A k \in 1 .. Len(recs) : recs[k] \in Record
  BY BytesOK
<1>2. q \in Nat /\ j \in 0 .. RecSize - 1 /\ i = q * RecSize + j
  BY <1>1, Constants, Divided
<1>3. At(recs, i) = recs[q + 1][j + 1]
  BY DEF At
<1> HIDE DEF q, j
<1>4. q < Len(recs)
  <2>1. q * RecSize \in Nat /\ Len(recs) * RecSize \in Nat
        /\ (Len(recs) <= q <=> Len(recs) * RecSize <= q * RecSize)
    BY <1>1, <1>2, Constants, TimesMono
  <2>2. ~ (Len(recs) * RecSize <= q * RecSize)
    BY <1>1, <1>2, <2>1, Constants DEF Bytes
  <2> QED
    BY <1>1, <1>2, <2>1, <2>2
<1>5. q + 1 \in 1 .. Len(recs) /\ j + 1 \in 1 .. RecSize /\ q \in 0 .. Len(recs) - 1
  BY <1>1, <1>2, <1>4, Constants
<1>6. recs[q + 1] \in Record
  BY <1>1, <1>5
<1>7. recs[q + 1][j + 1] \in Byte
  BY <1>5, <1>6 DEF Record
<1> QED
  BY <1>2, <1>3, <1>5, <1>7 DEF q, j

LEMMA ByteOf ==
  ASSUME NEW recs \in Seq(Record), NEW r \in 0 .. Len(recs) - 1, NEW j \in 0 .. RecSize - 1
  PROVE  /\ r * RecSize + j \in 0 .. Bytes(recs) - 1
         /\ At(recs, r * RecSize + j) = recs[r + 1][j + 1]
<1>1. Len(recs) \in Nat /\ r \in Nat
  BY BytesOK
<1>2. /\ r * RecSize + j \in Nat /\ (r * RecSize + j) \div RecSize = r
      /\ (r * RecSize + j) % RecSize = j
  BY <1>1, Constants, Quotient
<1>3. r * RecSize \in Nat /\ Len(recs) * RecSize \in Nat /\ r * RecSize + RecSize <= Len(recs) * RecSize
  BY <1>1, Constants, TimesMono
<1>4. r * RecSize + j \in 0 .. Bytes(recs) - 1
  BY <1>2, <1>3, Constants DEF Bytes
<1>5. At(recs, r * RecSize + j) = recs[r + 1][j + 1]
  BY <1>2 DEF At
<1> QED
  BY <1>4, <1>5

(* A record more.                                                          *)
LEMMA OneMore ==
  ASSUME NEW recs \in Seq(Record), NEW rec \in Record
  PROVE  LET more == PutRec(recs, Len(recs), rec)
         IN  /\ more \in Seq(Record) /\ Len(more) = Len(recs) + 1
             /\ Bytes(more) = Bytes(recs) + RecSize
             /\ \A i \in 0 .. Bytes(more) - 1 :
                  At(more, i) = IF i < Bytes(recs) THEN At(recs, i) ELSE rec[i - Bytes(recs) + 1]
<1> DEFINE R == Len(recs)
           more == PutRec(recs, R, rec)
<1>1. R \in Nat /\ Bytes(recs) \in Nat /\ \A k \in 1 .. R : recs[k] \in Record
  BY BytesOK
<1>2. more = [k \in 1 .. R + 1 |-> IF k = R + 1 THEN rec ELSE recs[k]]
  BY <1>1 DEF PutRec
<1> HIDE DEF R
<1>3. \A k \in 1 .. R + 1 : (IF k = R + 1 THEN rec ELSE recs[k]) \in Record
  BY <1>1
<1> HIDE DEF more
<1>4. more \in [1 .. R + 1 -> Record] /\ R + 1 \in Nat
  BY <1>1, <1>2, <1>3
<1>5. more \in Seq(Record) /\ Len(more) = R + 1
  BY <1>4, IsASeq
<1>6. Bytes(more) = Bytes(recs) + RecSize
  BY <1>1, <1>5, Constants, TimesMono DEF Bytes, R
<1>7. ASSUME NEW i \in 0 .. Bytes(more) - 1
      PROVE  At(more, i) = IF i < Bytes(recs) THEN At(recs, i) ELSE rec[i - Bytes(recs) + 1]
  <2> DEFINE q == i \div RecSize
             j == i % RecSize
  <2>1. q \in 0 .. R /\ j \in 0 .. RecSize - 1 /\ i = q * RecSize + j
    BY <1>1, <1>5, Position
  <2>2. At(more, i) = more[q + 1][j + 1] /\ At(recs, i) = recs[q + 1][j + 1]
    BY DEF At
  <2> HIDE DEF q, j
  <2>3. CASE q = R
    <3>1. more[q + 1] = rec
      BY <1>1, <1>2, <2>3
    <3>2. i - Bytes(recs) = j /\ ~ (i < Bytes(recs))
      BY <1>1, <2>1, <2>3, Constants DEF Bytes, R
    <3> QED
      BY <2>2, <3>1, <3>2
  <2>4. CASE q # R
    <3>1. q \in Nat /\ q + 1 \in 1 .. R + 1 /\ q + 1 # R + 1 /\ q < R
      BY <1>1, <2>1, <2>4
    <3>2. more[q + 1] = recs[q + 1]
      BY <1>2, <3>1
    <3>3. q * RecSize \in Nat /\ q * RecSize + RecSize <= R * RecSize
      BY <1>1, <3>1, Constants, TimesMono
    <3>4. i < Bytes(recs)
      BY <1>1, <2>1, <3>3, Constants DEF Bytes, R
    <3> QED
      BY <2>2, <3>2, <3>4
  <2> QED
    BY <2>3, <2>4
<1> QED
  BY <1>5, <1>6, <1>7 DEF more, R
-----------------------------------------------------------------------------
(* sys_write: a byte into the buffer, a full buffer into the file.         *)
Same(f, g) == g.used = f.used /\ g.writing = f.writing /\ g.name = f.name /\ g.pos = f.pos

LEMMA Flags ==
  ASSUME NEW f \in Descriptor
  PROVE  /\ f.used = TRUE /\ f.writing \in BOOLEAN /\ f.eof \in BOOLEAN /\ f.failed \in BOOLEAN
         /\ f.loaded \in BOOLEAN
  BY DEF Descriptor

LEMMA Fields ==
  ASSUME NEW f \in Descriptor
  PROVE  /\ f.recpos \in Nat /\ f.recpos <= RecSize /\ f.reccnt \in {0, RecSize}
         /\ f.pos \in Nat /\ f.name \in Name /\ f.ex \in Nat /\ f.cr \in Nat /\ f.rec \in Record
<1>1. f.recpos \in 0 .. RecSize
  BY DEF Descriptor
<1>2. /\ f.reccnt \in {0, RecSize} /\ f.pos \in Nat /\ f.name \in Name /\ f.ex \in Nat
      /\ f.cr \in Nat /\ f.rec \in Record
  BY DEF Descriptor
<1> QED
  BY <1>1, <1>2, Constants

LEMMA PutRecType ==
  ASSUME NEW recs \in Seq(Record), NEW r \in 0 .. Len(recs), NEW rec \in Record
  PROVE  PutRec(recs, r, rec) \in Seq(Record) /\ Len(recs) <= Len(PutRec(recs, r, rec))
<1> DEFINE n == IF r < Len(recs) THEN Len(recs) ELSE r + 1
           more == PutRec(recs, r, rec)
<1>1. /\ Len(recs) \in Nat /\ n \in Nat /\ Len(recs) <= n
      /\ \A k \in 1 .. Len(recs) : recs[k] \in Record
  BY BytesOK
<1>2. \A k \in 1 .. n : (IF k = r + 1 THEN rec ELSE recs[k]) \in Record
  BY <1>1
<1>3. more = [k \in 1 .. n |-> IF k = r + 1 THEN rec ELSE recs[k]]
  BY DEF PutRec
<1> HIDE DEF n, more
<1>4. more \in [1 .. n -> Record]
  BY <1>2, <1>3
<1>5. more \in Seq(Record) /\ Len(more) = n
  BY <1>1, <1>4, IsASeq
<1> QED
  BY <1>1, <1>5 DEF more

LEMMA FrontType ==
  ASSUME NEW S, NEW s \in Seq(S), s # << >>
  PROVE  Front(s) \in Seq(S) /\ Len(Front(s)) = Len(s) - 1
<1>1. Len(s) \in Nat /\ Len(s) # 0
  BY LenProperties, EmptySeq
<1>2. Len(s) - 1 \in 0 .. Len(s) /\ 1 \in 1 .. Len(s) + 1 /\ \A k \in 1 .. Len(s) - 1 : k \in 1 .. Len(s)
  BY <1>1
<1>3. \A k \in 1 .. Len(s) - 1 : s[k] \in S
  BY <1>2, ElementOfSeq
<1> DEFINE m == Len(s) - 1
<1>4. m \in Nat /\ 1 \in Int /\ m \in Int
  BY <1>1
<1>5. \A k \in 1 .. m : s[k] \in S
  BY <1>3
<1> HIDE DEF m
<1>6. SubSeq(s, 1, m) \in Seq(S) /\ Len(SubSeq(s, 1, m)) = m
  <2>1. (IF 1 <= m THEN m - 1 + 1 ELSE 0) = m
    BY <1>4
  <2> QED
    BY <1>4, <1>5, <2>1, SubSeqProperties
<1> QED
  BY <1>6 DEF Front, m

LEMMA RecordWrittenOK ==
  ASSUME NEW f \in Descriptor, NEW recs \in Seq(Record), f.cr <= Len(recs),
         NEW moved \in Seq(Byte), moved # << >>, NEW p \in RecordWritten(Out(f, recs, moved))
  PROVE  /\ p.f \in Descriptor /\ Same(f, p.f) /\ p.recs \in Seq(Record) /\ p.moved \in Seq(Byte)
         /\ f.failed => p.f.failed
         /\ Len(recs) <= Len(p.recs)
         /\ \/ p.f.failed /\ p.recs \in {recs, PutRec(recs, f.cr, f.rec)}
            \/ /\ p.f.failed = f.failed /\ p.moved = moved /\ p.recs = PutRec(recs, f.cr, f.rec)
               /\ p.f.cr = f.cr + 1 /\ p.f.recpos = 0 /\ p.f.rec = f.rec
<1> DEFINE g == [f EXCEPT !.ex = Extent(f.cr), !.cr = @ + 1, !.recpos = 0]
           h == [f EXCEPT !.failed = TRUE]
           recs1 == PutRec(recs, f.cr, f.rec)
           short == Front(moved)
<1>1. p = [f |-> g, recs |-> recs1, moved |-> moved] \/ p = [f |-> h, recs |-> recs, moved |-> short]
  BY DEF RecordWritten, Out
<1>2. /\ g \in Descriptor /\ Same(f, g) /\ g.failed = f.failed
      /\ g.cr = f.cr + 1 /\ g.recpos = 0 /\ g.rec = f.rec
  <2>1. /\ g.cr = f.cr + 1 /\ g.recpos = 0 /\ g.rec = f.rec /\ g.pos = f.pos
        /\ g.name = f.name /\ g.reccnt = f.reccnt
    BY DEF Descriptor
  <2>2. /\ g.used = f.used /\ g.writing = f.writing /\ g.failed = f.failed
    BY DEF Descriptor
  <2>3. f.cr \in Nat /\ f.cr + 1 \in Nat /\ 0 \in 0 .. RecSize
    BY Fields, Constants
  <2>4. g \in Descriptor
    <3>1. Extent(f.cr) \in Nat
      BY <2>3, ExtentOK
    <3> QED
      BY <2>3, <3>1 DEF Descriptor
  <2> QED
    BY <2>1, <2>2, <2>4 DEF Same
<1>3. h \in Descriptor /\ Same(f, h) /\ h.failed = TRUE
  BY Fields DEF Descriptor, Same
<1>4. recs1 \in Seq(Record) /\ Len(recs) <= Len(recs1) /\ Len(recs) <= Len(recs)
  <2>1. f.cr \in 0 .. Len(recs) /\ f.rec \in Record /\ Len(recs) \in Nat
    BY Fields, BytesOK
  <2> DEFINE c == f.cr
             rec == f.rec
  <2> HIDE DEF c, rec
  <2>2. PutRec(recs, c, rec) \in Seq(Record) /\ Len(recs) <= Len(PutRec(recs, c, rec))
    <3>1. c \in 0 .. Len(recs) /\ rec \in Record
      BY <2>1 DEF c, rec
    <3> QED
      BY <2>1, <3>1, PutRecType
  <2>3. Len(recs) <= Len(recs)
    BY <2>1
  <2> QED
    BY <2>2, <2>3 DEF c, rec
<1>5. short \in Seq(Byte)
  BY FrontType
<1> HIDE DEF g, h, recs1, short
<1>6. CASE p = [f |-> g, recs |-> recs1, moved |-> moved]
  <2>1. p.f = g /\ p.recs = recs1 /\ p.moved = moved
    BY <1>6
  <2> QED
    BY <1>2, <1>4, <2>1 DEF recs1
<1>7. CASE p = [f |-> h, recs |-> recs, moved |-> short]
  <2>1. p.f = h /\ p.recs = recs /\ p.moved = short
    BY <1>7
  <2> QED
    BY <1>3, <1>4, <1>5, <2>1
<1> QED
  BY <1>1, <1>6, <1>7

(* The next byte of a buffer that is not full.                             *)
Changes(rec, rec1, n, b) == /\ rec1 \in Record /\ rec1[n] = b
                            /\ \A k \in 1 .. RecSize : k # n => rec1[k] = rec[k]

LEMMA ByteAdded ==
  ASSUME NEW f \in Descriptor, NEW recs \in Seq(Record), NEW w \in Seq(Byte), Buffered(f, recs, w),
         NEW b \in Byte, NEW rec, Changes(f.rec, rec, f.recpos + 1, b)
  PROVE  /\ Append(w, b) \in Seq(Byte) /\ Len(Append(w, b)) = Len(w) + 1
         /\ Contents(Append(w, b), recs, rec)
<1> DEFINE v == Append(w, b)
           B == Bytes(recs)
           n == f.recpos
<1>1. /\ B \in Nat /\ n \in Nat /\ n < RecSize /\ f.rec \in [1 .. RecSize -> Byte]
      /\ Len(w) = B + n
      /\ \A i \in 0 .. Len(w) - 1 :
           w[i + 1] = IF i < B THEN At(recs, i) ELSE f.rec[i - B + 1]
  BY Fields, BytesOK, Constants DEF Buffered, Contents, Record
<1>2. /\ v \in Seq(Byte) /\ Len(v) = Len(w) + 1 /\ v[Len(w) + 1] = b
      /\ \A i \in 1 .. Len(w) : v[i] = w[i]
  BY AppendProperties
<1> HIDE DEF v, B, n
<1>3. /\ rec[n + 1] = b /\ \A k \in 1 .. RecSize : k # n + 1 => rec[k] = f.rec[k]
  BY DEF Changes, n
<1>5. ASSUME NEW i \in 0 .. Len(v) - 1
      PROVE  v[i + 1] = IF i < B THEN At(recs, i) ELSE rec[i - B + 1]
  <2>1. Len(v) = B + n + 1 /\ i \in Nat /\ i <= B + n
    BY <1>1, <1>2
  <2>2. CASE i = B + n
    <3>1. v[i + 1] = b /\ i - B + 1 = n + 1 /\ ~ (i < B)
      BY <1>1, <1>2, <2>2
    <3> QED
      BY <1>3, <3>1
  <2>3. CASE i # B + n
    <3>1. i \in 0 .. Len(w) - 1 /\ i + 1 \in 1 .. Len(w)
      BY <1>1, <2>1, <2>3
    <3>2. v[i + 1] = IF i < B THEN At(recs, i) ELSE f.rec[i - B + 1]
      <4>1. v[i + 1] = w[i + 1]
        BY <1>2, <3>1
      <4>2. w[i + 1] = IF i < B THEN At(recs, i) ELSE f.rec[i - B + 1]
        BY <1>1, <3>1
      <4> QED
        BY <4>1, <4>2
    <3>3. ~ (i < B) => i - B + 1 \in 1 .. RecSize /\ i - B + 1 # n + 1
      BY <1>1, <2>1, <2>3, Constants
    <3> QED
      BY <1>3, <3>2, <3>3
  <2> QED
    BY <2>2, <2>3
<1> QED
  BY <1>2, <1>5 DEF v, B, Contents

LEMMA StoredOK ==
  ASSUME NEW f \in Descriptor, NEW recs \in Seq(Record), NEW moved \in Seq(Byte), ~ f.failed,
         NEW w \in Seq(Byte), Buffered(f, recs, w), NEW b \in Byte,
         NEW p \in Stored(Out(f, recs, moved), b)
  PROVE  /\ p \in [f : Descriptor, recs : Seq(Record), moved : Seq(Byte)] /\ Same(f, p.f)
         /\ Len(recs) <= Len(p.recs)
         /\ ~ p.f.failed => p.moved = Append(moved, b) /\ Buffered(p.f, p.recs, Append(w, b))
<1> DEFINE rec1 == [f.rec EXCEPT ![f.recpos + 1] = b]
           g == [f EXCEPT !.rec[f.recpos + 1] = b, !.recpos = @ + 1]
           moved1 == Append(moved, b)
           v == Append(w, b)
<1>1. Stored(Out(f, recs, moved), b) = IF g.recpos = RecSize THEN RecordWritten(Out(g, recs, moved1))
                     ELSE {Out(g, recs, moved1)}
  BY DEF Stored, Out
<1>2. f.recpos < RecSize /\ f.cr = Len(recs) /\ Len(w) = Bytes(recs) + f.recpos
  BY DEF Buffered
<1>3. rec1 \in Record /\ v \in Seq(Byte) /\ Len(v) = Len(w) + 1 /\ Contents(v, recs, rec1)
  <2>1. f.recpos + 1 \in 1 .. RecSize /\ f.rec \in [1 .. RecSize -> Byte]
    BY <1>2, Fields, Constants DEF Record
  <2>2. Changes(f.rec, rec1, f.recpos + 1, b)
    BY <2>1 DEF Record, Changes
  <2> HIDE DEF rec1
  <2> QED
    BY <2>2, ByteAdded DEF Changes
<1>4. /\ g \in Descriptor /\ Same(f, g) /\ g.failed = f.failed
      /\ g.cr = f.cr /\ g.recpos = f.recpos + 1 /\ g.rec = rec1
  <2>1. /\ g.cr = f.cr /\ g.rec = rec1 /\ g.pos = f.pos
        /\ g.name = f.name /\ g.reccnt = f.reccnt
    BY DEF Descriptor
  <2>2. g.recpos = f.recpos + 1
    BY DEF Descriptor
  <2>3. /\ g.used = f.used /\ g.writing = f.writing /\ g.failed = f.failed
    BY DEF Descriptor
  <2>4. f.recpos + 1 \in 0 .. RecSize
    BY <1>2, Fields, Constants
  <2>5. g \in Descriptor
    <3> HIDE DEF rec1
    <3>1. g = [f EXCEPT !.rec = rec1, !.recpos = f.recpos + 1]
      BY DEF rec1, Descriptor
    <3> HIDE DEF g
    <3> QED
      BY <1>3, <2>4, <3>1 DEF Descriptor
  <2> QED
    BY <2>1, <2>2, <2>3, <2>5 DEF Same
<1>5. moved1 \in Seq(Byte) /\ moved1 # << >>
  BY AppendProperties
<1>6. Bytes(recs) \in Nat /\ Len(recs) \in Nat 
  BY BytesOK
<1>7. ~ f.failed /\ f \in Descriptor
  OBVIOUS
<1> HIDE DEF rec1, g, moved1, v
<1>8. CASE g.recpos = RecSize
  <2> DEFINE recs1 == PutRec(recs, Len(recs), rec1)
  <2>1. p \in RecordWritten(Out(g, recs, moved1))
    BY <1>1, <1>8
  <2>2. /\ p.f \in Descriptor /\ Same(g, p.f) /\ p.recs \in Seq(Record) /\ p.moved \in Seq(Byte)
        /\ Len(recs) <= Len(p.recs)
        /\ ~ p.f.failed => /\ p.moved = moved1 /\ p.recs = recs1
                           /\ p.f.cr = Len(recs) + 1 /\ p.f.recpos = 0 /\ p.f.rec = rec1
    <3>1. g.cr <= Len(recs)
      BY <1>2, <1>4, <1>6
    <3>2. /\ p.f \in Descriptor /\ Same(g, p.f) /\ p.recs \in Seq(Record) /\ p.moved \in Seq(Byte)
          /\ Len(recs) <= Len(p.recs)
          /\ \/ p.f.failed
             \/ /\ p.moved = moved1 /\ p.recs = PutRec(recs, g.cr, g.rec)
                /\ p.f.cr = g.cr + 1 /\ p.f.recpos = 0 /\ p.f.rec = g.rec
      BY <1>4, <1>5, <1>6, <2>1, <3>1, RecordWrittenOK
    <3> QED
      BY <1>2, <1>4, <3>2
  <2>3. /\ Len(recs1) = Len(recs) + 1 /\ Bytes(recs1) = Bytes(recs) + RecSize
        /\ \A i \in 0 .. Bytes(recs1) - 1 :
             At(recs1, i) = IF i < Bytes(recs) THEN At(recs, i) ELSE rec1[i - Bytes(recs) + 1]
    BY <1>3, <1>6, OneMore
  <2> HIDE DEF recs1
  <2>4. Same(f, p.f)
    BY <1>4, <2>2 DEF Same
  <2>5. f.recpos + 1 = RecSize /\ Len(v) = Bytes(recs1)
    <3>1. f.recpos \in Nat
      BY <1>7, Fields
    <3>2. Len(v) = Bytes(recs) + (f.recpos + 1)
      BY <1>2, <1>3, <1>6, <3>1
    <3> QED
      BY <1>4, <1>8, <2>3, <3>2
  <2>6. ASSUME ~ p.f.failed PROVE Buffered(p.f, p.recs, v)
    <3>1. p.recs = recs1 /\ p.f.cr = Len(recs1) /\ p.f.recpos = 0
      BY <2>2, <2>3, <2>6
    <3>2. Bytes(recs1) \in Nat /\ RecSize > 0 /\ Len(v) = Bytes(recs1) + 0
      BY <1>6, <2>3, <2>5, Constants
    <3>3. \A i \in 0 .. Len(v) - 1 : v[i + 1] = At(recs1, i) /\ i < Bytes(recs1)
      <4>1. \A i \in 0 .. Len(v) - 1 :
              v[i + 1] = IF i < Bytes(recs) THEN At(recs, i) ELSE rec1[i - Bytes(recs) + 1]
        BY <1>3 DEF Contents
      <4>2. \A i \in 0 .. Len(v) - 1 :
              At(recs1, i) = IF i < Bytes(recs) THEN At(recs, i) ELSE rec1[i - Bytes(recs) + 1]
        BY <2>3, <2>5
      <4>3. \A i \in 0 .. Len(v) - 1 : i < Bytes(recs1)
        BY <2>5, <3>2
      <4> QED
        BY <4>1, <4>2, <4>3
    <3> QED
      BY <3>1, <3>2, <3>3 DEF Buffered, Contents
  <2>7. p \in [f : Descriptor, recs : Seq(Record), moved : Seq(Byte)]
    <3>1. p = [f |-> p.f, recs |-> p.recs, moved |-> p.moved]
      BY <2>1 DEF RecordWritten, Out
    <3> QED
      BY <2>2, <3>1
  <2> QED
    BY <2>2, <2>4, <2>6, <2>7 DEF v, moved1
<1>9. CASE g.recpos # RecSize
  <2>1. p = [f |-> g, recs |-> recs, moved |-> moved1]
    BY <1>1, <1>9 DEF Out
  <2>2. p.f = g /\ p.recs = recs /\ p.moved = moved1
    BY <2>1
  <2>3. g.recpos < RecSize
    BY <1>4, <1>9, Fields, Constants
  <2>4. Buffered(g, recs, v)
    <3>1. f.recpos \in Nat
      BY <1>7, Fields
    <3>2. Len(v) = Bytes(recs) + g.recpos
      BY <1>2, <1>3, <1>4, <1>6, <3>1
    <3> QED
      BY <1>2, <1>3, <1>4, <2>3, <3>2 DEF Buffered
  <2>5. p \in [f : Descriptor, recs : Seq(Record), moved : Seq(Byte)]
    BY <1>4, <1>5, <1>6, <2>1
  <2> QED
    BY <1>4, <1>6, <2>2, <2>4, <2>5 DEF v, moved1
<1> QED
  BY <1>8, <1>9
-----------------------------------------------------------------------------
(* The files and the descriptors on them.                                  *)
DescOK(f, recs, w, lost, again) == IF f.writing THEN Writer(f, recs, w, lost)
                                   ELSE Reader(f, recs, again)
Uses(f, n) == f.used /\ f.name = n
Written(n) == \E i \in Fd : Uses(cpmf[i], n) /\ cpmf[i].writing

Typed ==
  /\ DOMAIN disk \subseteq Name /\ broken \subseteq Name /\ rereads \in BOOLEAN
  /\ want \in [Name -> Seq(Byte)] /\ cpmf \in [Fd -> Descriptor \cup {Idle}]
  /\ disk \in [DOMAIN disk -> Seq(Record)]
Placed == \A i \in Fd : \A n \in Name : Uses(cpmf[i], n) =>
            n \in DOMAIN disk /\ DescOK(cpmf[i], disk[n], want[n], n \in broken, rereads)
OneWriter == \A i, j \in Fd : \A n \in Name :
               Uses(cpmf[i], n) /\ cpmf[i].writing /\ Uses(cpmf[j], n) => i = j
FilesOK == \A n \in DOMAIN disk : n \notin broken /\ ~ Written(n) => FileOK(disk[n], want[n])
Kept == Typed /\ Placed /\ OneWriter /\ FilesOK

(* A step of one descriptor: no file but x changes, and x is there.        *)
Elsewhere(x) ==
  /\ DOMAIN disk' = DOMAIN disk \cup {x} /\ disk' \in [DOMAIN disk' -> Seq(Record)]
  /\ \A n \in DOMAIN disk : n # x => disk'[n] = disk[n]
  /\ want' \in [Name -> Seq(Byte)] /\ broken' \subseteq Name /\ rereads' = rereads
  /\ \A n \in Name : n # x => want'[n] = want[n] /\ (n \in broken' <=> n \in broken)
Still(x) == /\ x \in DOMAIN disk /\ disk'[x] = disk[x] /\ want'[x] = want[x]
            /\ (x \in broken' <=> x \in broken)
Alone(x, fd) == \A i \in Fd \ {fd} : ~ Uses(cpmf[i], x)
NoWriter(x, fd) == \A i \in Fd \ {fd} : Uses(cpmf[i], x) => ~ cpmf[i].writing
Sets(fd, g) == cpmf' \in [Fd -> Descriptor \cup {Idle}] /\ cpmf'[fd] = g
               /\ \A i \in Fd \ {fd} : cpmf'[i] = cpmf[i]

LEMMA SetsOK ==
  ASSUME Typed, NEW fd \in Fd, NEW g \in Descriptor \cup {Idle}, cpmf' = [cpmf EXCEPT ![fd] = g]
  PROVE  Sets(fd, g)
  BY DEF Typed, Sets

LEMMA DescriptorStep ==
  ASSUME Kept, NEW fd \in Fd, NEW x \in Name, NEW g, Sets(fd, g), Elsewhere(x),
         cpmf[fd].used => cpmf[fd].name = x,
         g.used => g.name = x,
         g.used => DescOK(g, disk'[x], want'[x], x \in broken', rereads),
         \/ Alone(x, fd) /\ (x \notin broken' /\ ~ (g.used /\ g.writing) => FileOK(disk'[x], want'[x]))
         \/ /\ Still(x) /\ NoWriter(x, fd) /\ ~ (g.used /\ g.writing)
            /\ ~ (cpmf[fd].used /\ cpmf[fd].writing)
  PROVE  Kept'
<1>1. /\ DOMAIN disk' = DOMAIN disk \cup {x} /\ disk' \in [DOMAIN disk' -> Seq(Record)]
      /\ \A n \in DOMAIN disk : n # x => disk'[n] = disk[n]
      /\ want' \in [Name -> Seq(Byte)] /\ broken' \subseteq Name /\ rereads' = rereads
      /\ \A n \in Name : n # x => want'[n] = want[n] /\ (n \in broken' <=> n \in broken)
  BY DEF Elsewhere
<1>2. /\ cpmf' \in [Fd -> Descriptor \cup {Idle}] /\ cpmf'[fd] = g
      /\ \A i \in Fd : i # fd => cpmf'[i] = cpmf[i]
  BY DEF Sets
<1>3. Typed'
  BY <1>1, <1>2 DEF Kept, Typed
<1>4. Placed'
  <2> SUFFICES ASSUME NEW i \in Fd, NEW n \in Name, Uses(cpmf'[i], n)
               PROVE  /\ n \in DOMAIN disk'
                      /\ DescOK(cpmf'[i], disk'[n], want'[n], n \in broken', rereads')
    BY DEF Placed
  <2>1. CASE i = fd
    BY <1>1, <1>2, <2>1 DEF Uses
  <2>2. CASE i # fd
    <3>1. cpmf'[i] = cpmf[i] /\ Uses(cpmf[i], n)
      BY <1>2, <2>2
    <3>2. n \in DOMAIN disk /\ DescOK(cpmf[i], disk[n], want[n], n \in broken, rereads)
      BY <3>1 DEF Kept, Placed
    <3>3. /\ disk'[n] = disk[n] /\ want'[n] = want[n] /\ (n \in broken' <=> n \in broken)
      <4>1. CASE n # x
        BY <1>1, <3>2, <4>1
      <4>2. CASE n = x
        <5>1. ~ Alone(x, fd)
          BY <2>2, <3>1, <4>2 DEF Alone
        <5> QED
          BY <4>2, <5>1 DEF Still
      <4> QED
        BY <4>1, <4>2
    <3>4. (n \in broken') = (n \in broken)
      BY <3>3
    <3> QED
      BY <1>1, <3>1, <3>2, <3>3, <3>4
  <2> QED
    BY <2>1, <2>2
<1>5. OneWriter'
  <2> SUFFICES ASSUME NEW i \in Fd, NEW j \in Fd, NEW n \in Name,
                      Uses(cpmf'[i], n), cpmf'[i].writing, Uses(cpmf'[j], n), i # j
               PROVE  FALSE
    BY DEF OneWriter
  <2>1. CASE i # fd /\ j # fd
    BY <1>2, <2>1 DEF Kept, OneWriter
  <2>2. CASE i = fd
    <3>1. n = x /\ g.used /\ g.writing /\ j # fd /\ Uses(cpmf[j], x)
      BY <1>2, <2>2 DEF Uses
    <3>2. Alone(x, fd)
      BY <3>1
    <3> QED
      BY <3>1, <3>2 DEF Alone
  <2>3. CASE j = fd
    <3>1. n = x /\ i # fd /\ Uses(cpmf[i], x) /\ cpmf[i].writing
      BY <1>2, <2>3 DEF Uses
    <3> QED
      BY <3>1 DEF Alone, NoWriter
  <2> QED
    BY <2>1, <2>2, <2>3
<1>6. FilesOK'
  <2> SUFFICES ASSUME NEW n \in DOMAIN disk', n \notin broken', ~ Written(n)'
               PROVE  FileOK(disk'[n], want'[n])
    BY DEF FilesOK
  <2>1. n \in Name /\ \A i \in Fd : ~ (Uses(cpmf'[i], n) /\ cpmf'[i].writing)
    BY <1>3 DEF Written, Typed
  <2>2. CASE n # x
    <3>1. n \in DOMAIN disk /\ disk'[n] = disk[n] /\ want'[n] = want[n] /\ n \notin broken
      BY <1>1, <2>1, <2>2
    <3>2. ASSUME NEW i \in Fd, Uses(cpmf[i], n), cpmf[i].writing PROVE FALSE
      BY <1>2, <2>1, <2>2, <3>2 DEF Uses
    <3>3. ~ Written(n)
      BY <3>2 DEF Written
    <3> QED
      BY <3>1, <3>3 DEF Kept, FilesOK
  <2>3. CASE n = x
    <3>1. ~ (g.used /\ g.writing)
      <4>1. g.used => Uses(cpmf'[fd], n)
        BY <1>2, <2>3 DEF Uses
      <4> QED
        BY <1>2, <2>1, <4>1
    <3>2. CASE ~ Alone(x, fd)
      <4>1. Still(x) /\ NoWriter(x, fd) /\ ~ (cpmf[fd].used /\ cpmf[fd].writing)
        BY <3>2
      <4>2. ~ Written(x)
        BY <4>1 DEF Written, NoWriter, Uses
      <4>3. x \in DOMAIN disk /\ x \notin broken /\ disk'[x] = disk[x] /\ want'[x] = want[x]
        BY <2>3, <4>1 DEF Still
      <4> QED
        BY <2>3, <4>2, <4>3 DEF Kept, FilesOK
    <3>3. CASE x \notin broken' /\ ~ (g.used /\ g.writing) => FileOK(disk'[x], want'[x])
      BY <2>3, <3>1, <3>3
    <3>4. CASE Still(x) /\ NoWriter(x, fd) /\ ~ (cpmf[fd].used /\ cpmf[fd].writing)
      <4>2. ~ Written(x)
        BY <3>4 DEF Written, NoWriter, Uses
      <4>3. x \in DOMAIN disk /\ x \notin broken /\ disk'[x] = disk[x] /\ want'[x] = want[x]
        BY <2>3, <3>4 DEF Still
      <4> QED
        BY <2>3, <4>2, <4>3 DEF Kept, FilesOK
    <3> QED
      BY <3>3, <3>4
  <2> QED
    BY <2>2, <2>3
<1> QED
  BY <1>3, <1>4, <1>5, <1>6 DEF Kept
-----------------------------------------------------------------------------
(* The loop of sys_write.                                                  *)
Outs(f, w, size) ==
  {o \in [f : Descriptor, recs : Seq(Record), moved : Seq(Byte)] :
     /\ Same(f, o.f) /\ size <= Len(o.recs)
     /\ ~ o.f.failed => Buffered(o.f, o.recs, w \o o.moved)}
Wrote(S, b) == UNION {IF o.f.failed THEN {o} ELSE Stored(o, b) : o \in S}
WriteLoop(outs, f, recs, bytes) ==
  outs = [i \in 0 .. Len(bytes) |->
            IF i = 0 THEN {Out(f, recs, << >>)}
            ELSE UNION {IF o.f.failed THEN {o} ELSE Stored(o, bytes[i]) : o \in outs[i - 1]}]

LEMMA OutFields ==
  ASSUME NEW f \in Descriptor, NEW w, NEW size \in Nat, NEW o \in Outs(f, w, size)
  PROVE  /\ o.f \in Descriptor /\ o.recs \in Seq(Record) /\ o.moved \in Seq(Byte)
         /\ o = Out(o.f, o.recs, o.moved) /\ Same(f, o.f) /\ size <= Len(o.recs)
         /\ ~ o.f.failed => Buffered(o.f, o.recs, w \o o.moved)
<1>1. o \in [f : Descriptor, recs : Seq(Record), moved : Seq(Byte)]
  BY DEF Outs
<1>2. o = [f |-> o.f, recs |-> o.recs, moved |-> o.moved]
  BY <1>1
<1> QED
  BY <1>1, <1>2 DEF Outs, Out

LEMMA AppendConcat ==
  ASSUME NEW w \in Seq(Byte), NEW m \in Seq(Byte), NEW b \in Byte
  PROVE  w \o m \in Seq(Byte) /\ Append(w \o m, b) = w \o Append(m, b)
<1>1. <<b>> \in Seq(Byte)
  OBVIOUS
<1>2. (w \o m) \o <<b>> = w \o (m \o <<b>>)
  BY <1>1, ConcatAssociative
<1>3. w \o m \in Seq(Byte)
  BY ConcatProperties
<1>4. Append(w \o m, b) = (w \o m) \o <<b>> /\ Append(m, b) = m \o <<b>>
  BY <1>3, AppendIsConcat
<1> QED
  BY <1>2, <1>3, <1>4

LEMMA WroteOK ==
  ASSUME NEW f \in Descriptor, NEW w \in Seq(Byte), NEW size \in Nat,
         NEW S \in SUBSET Outs(f, w, size), NEW b \in Byte
  PROVE  Wrote(S, b) \in SUBSET Outs(f, w, size)
<1> SUFFICES ASSUME NEW o \in S, NEW p \in (IF o.f.failed THEN {o} ELSE Stored(o, b))
             PROVE  p \in Outs(f, w, size)
  BY DEF Wrote
<1>1. CASE o.f.failed
  BY <1>1
<1>2. CASE ~ o.f.failed
  <2>1. /\ o.f \in Descriptor /\ o.recs \in Seq(Record) /\ o.moved \in Seq(Byte)
        /\ o = Out(o.f, o.recs, o.moved) /\ Same(f, o.f) /\ Buffered(o.f, o.recs, w \o o.moved)
        /\ size <= Len(o.recs) /\ Len(o.recs) \in Nat
    BY <1>2, OutFields, BytesOK
  <2> DEFINE v == w \o o.moved
             g == o.f
             recs == o.recs
             moved == o.moved
  <2>2. v \in Seq(Byte)
    BY <2>1, ConcatProperties
  <2>3. p \in Stored(Out(g, recs, moved), b)
    BY <1>2, <2>1
  <2>4. Append(v, b) = w \o Append(o.moved, b)
    <3>1. moved \in Seq(Byte)
      BY <2>1
    <3> HIDE DEF moved
    <3>2. Append(w \o moved, b) = w \o Append(moved, b)
      BY <3>1, AppendConcat
    <3> QED
      BY <3>2 DEF moved
  <2>5. /\ g \in Descriptor /\ recs \in Seq(Record) /\ moved \in Seq(Byte) /\ ~ g.failed
        /\ Buffered(g, recs, v)
    BY <1>2, <2>1
  <2> HIDE DEF v, g, recs, moved
  <2>6. /\ p \in [f : Descriptor, recs : Seq(Record), moved : Seq(Byte)] /\ Same(g, p.f)
        /\ Len(recs) <= Len(p.recs)
        /\ ~ p.f.failed => p.moved = Append(moved, b) /\ Buffered(p.f, p.recs, Append(v, b))
    BY <2>2, <2>3, <2>5, StoredOK
  <2>7. Same(f, p.f)
    BY <2>1, <2>6 DEF Same, g
  <2>8. ~ p.f.failed => Buffered(p.f, p.recs, w \o p.moved)
    BY <2>4, <2>6 DEF moved
  <2>9. size <= Len(p.recs)
    <3>1. p.recs \in Seq(Record)
      BY <2>6
    <3>2. Len(p.recs) \in Nat
      BY <3>1, BytesOK
    <3> QED
      BY <2>1, <2>6, <3>2 DEF recs
  <2> QED
    BY <2>6, <2>7, <2>8, <2>9 DEF Outs
<1> QED
  BY <1>1, <1>2

LEMMA FirstOut ==
  ASSUME NEW f \in Descriptor, NEW recs \in Seq(Record), NEW w \in Seq(Byte), Buffered(f, recs, w)
  PROVE  {Out(f, recs, << >>)} \in SUBSET Outs(f, w, Len(recs))
<1> DEFINE o == Out(f, recs, << >>)
<1>1. o = [f |-> f, recs |-> recs, moved |-> << >>]
  BY DEF Out
<1>2. o \in [f : Descriptor, recs : Seq(Record), moved : Seq(Byte)]
  <2>1. << >> \in Seq(Byte)
    BY EmptySeq
  <2>2. [f |-> f, recs |-> recs, moved |-> << >>] \in [f : Descriptor, recs : Seq(Record), moved : Seq(Byte)]
    BY <2>1
  <2> HIDE DEF o
  <2> QED
    BY <1>1, <2>2
<1>3. o.f = f /\ o.recs = recs /\ o.moved = << >>
  BY <1>1
<1>4. w \o << >> = w
  BY ConcatEmptySeq
<1> HIDE DEF o
<1>5. o \in Outs(f, w, Len(recs))
  <2>1. Len(recs) <= Len(recs)
    BY BytesOK
  <2> QED
    BY <1>2, <1>3, <1>4, <2>1 DEF Outs, Same
<1> QED
  BY <1>5 DEF o

LEMMA WriteLoopOK ==
  ASSUME NEW f \in Descriptor, NEW recs \in Seq(Record), NEW w \in Seq(Byte),
         Buffered(f, recs, w), NEW bytes \in Seq(Byte)
  PROVE  /\ \E outs : WriteLoop(outs, f, recs, bytes)
         /\ \A outs : WriteLoop(outs, f, recs, bytes) => outs[Len(bytes)] \subseteq Outs(f, w, Len(recs))
<1> DEFINE n == Len(bytes)
           size == Len(recs)
           V == SUBSET Outs(f, w, size)
           v0 == {Out(f, recs, << >>)}
           Step == [i \in 1 .. n |-> [S \in V |-> Wrote(S, bytes[i])]]
<1>1. n \in Nat /\ \A i \in 1 .. n : bytes[i] \in Byte
  BY LenProperties, ElementOfSeq
<1>2. v0 \in V
  BY FirstOut
<1>3. ASSUME NEW i \in 1 .. n, NEW S \in V PROVE Wrote(S, bytes[i]) \in V
  <2>1. bytes[i] \in Byte /\ size \in Nat
    BY <1>1, BytesOK
  <2> HIDE DEF size
  <2> QED
    BY <1>3, <2>1, WroteOK
<1> HIDE DEF n, V, v0
<1>4. Steps(Step, n, V)
  BY <1>3 DEF Steps
<1>5. PICK g : Iterates(g, n, V, v0, Step)
  <2> HIDE DEF Step
  <2> QED
    BY <1>1, <1>2, <1>4, Recursion
<1>6. g \in [0 .. n -> V] /\ g[0] = v0 /\ \A i \in 1 .. n : g[i] = Step[i][g[i - 1]]
  BY <1>5 DEF Iterates
<1>7. ASSUME NEW i \in 0 .. n
      PROVE  g[i] = IF i = 0 THEN v0 ELSE Wrote(g[i - 1], bytes[i])
  <2>1. CASE i = 0
    BY <1>6, <2>1
  <2>2. CASE i # 0
    <3>1. i \in 1 .. n /\ i - 1 \in 0 .. n
      BY <1>1, <2>2
    <3>2. g[i] = Step[i][g[i - 1]] /\ g[i - 1] \in V
      BY <1>6, <3>1
    <3> QED
      BY <2>2, <3>1, <3>2
  <2> QED
    BY <2>1, <2>2
<1>8. WriteLoop(g, f, recs, bytes)
  BY <1>6, <1>7 DEF WriteLoop, Wrote, n, v0
<1>9. ASSUME NEW outs, WriteLoop(outs, f, recs, bytes) PROVE outs[n] \subseteq Outs(f, w, Len(recs))
  <2>1. outs = [i \in 0 .. n |-> IF i = 0 THEN v0 ELSE Wrote(outs[i - 1], bytes[i])]
    BY <1>9 DEF WriteLoop, Wrote, n, v0
  <2>2. \A i \in 0 .. n : outs[i] = IF i = 0 THEN v0 ELSE Wrote(outs[i - 1], bytes[i])
    BY <2>1
  <2> DEFINE S == {i \in 0 .. n : outs[i] \in V}
  <2>3. 0 \in S
    BY <1>1, <1>2, <2>2
  <2>4. ASSUME NEW i \in 0 .. n - 1, i \in S PROVE i + 1 \in S
    <3>1. i + 1 \in 1 .. n /\ i + 1 \in 0 .. n /\ i + 1 # 0 /\ (i + 1) - 1 = i
      BY <1>1
    <3>2. outs[i + 1] = Wrote(outs[i], bytes[i + 1])
      BY <2>2, <3>1
    <3> QED
      BY <1>3, <2>4, <3>1, <3>2
  <2>5. n \in S
    <3> HIDE DEF S
    <3> QED
      BY <1>1, <2>3, <2>4, SetInduction
  <2> QED
    BY <2>5 DEF V
<1> QED
  BY <1>8, <1>9 DEF n
-----------------------------------------------------------------------------
(* The calls.                                                              *)
LEMMA UsedOK ==
  ASSUME Kept, NEW fd \in Fd, cpmf[fd].used
  PROVE  LET f == cpmf[fd]
             x == f.name
         IN  /\ f \in Descriptor /\ x \in Name /\ x \in DOMAIN disk /\ disk[x] \in Seq(Record)
             /\ want[x] \in Seq(Byte) /\ DescOK(f, disk[x], want[x], x \in broken, rereads)
             /\ f.writing => Alone(x, fd)
             /\ ~ f.writing => NoWriter(x, fd)
<1> DEFINE f == cpmf[fd]
           x == f.name
<1>1. f \in Descriptor
  <2>1. f \in Descriptor \cup {Idle} /\ Idle.used = FALSE
    BY DEF Kept, Typed, Idle
  <2> QED
    BY <2>1
<1>2. x \in Name /\ Uses(f, x)
  BY <1>1, Fields DEF Uses
<1>3. x \in DOMAIN disk /\ DescOK(f, disk[x], want[x], x \in broken, rereads)
  BY <1>2 DEF Kept, Placed
<1>4. disk[x] \in Seq(Record) /\ want[x] \in Seq(Byte)
  BY <1>2, <1>3 DEF Kept, Typed
<1>5. \A i \in Fd \ {fd} : Uses(cpmf[i], x) => ~ f.writing /\ ~ cpmf[i].writing
  BY <1>2 DEF Kept, OneWriter
<1> QED
  BY <1>1, <1>2, <1>3, <1>4, <1>5 DEF Alone, NoWriter

LEMMA DoneOK ==
  ASSUME NEW r, Done(r)
  PROVE  ret'.op = "none"
  BY DEF Done

LEMMA IdleOK == Idle.used = FALSE
  BY DEF Idle

LEMMA Overwritten ==
  ASSUME NEW w \in Seq(Byte), NEW m \in Seq(Byte)
  PROVE  Overwrite(w, Len(w), m) = w \o m /\ w \o m \in Seq(Byte) /\ Len(w \o m) = Len(w) + Len(m)
<1>1. Len(w) \in Nat /\ Len(m) \in Nat
  BY LenProperties
<1>2. SubSeq(w, 1, Len(w)) = w
  BY SubSeqFull
<1> DEFINE a == Len(w) + Len(m) + 1
           n == Len(w)
<1>3. a \in Int /\ n \in Int /\ n < a
  BY <1>1
<1> HIDE DEF a, n
<1>4. SubSeq(w, a, n) = << >>
  BY <1>3, SubSeqEmpty
<1>5. w \o m \in Seq(Byte) /\ Len(w \o m) = Len(w) + Len(m)
  BY ConcatProperties
<1> DEFINE v == w \o m
<1>6. v \o << >> = v
  <2> HIDE DEF v
  <2> QED
    BY <1>5, ConcatEmptySeq DEF v
<1> QED
  BY <1>2, <1>4, <1>5, <1>6 DEF Overwrite, a, n

(* No file is gone, or shorter.                                            *)
Grown == DOMAIN disk' = DOMAIN disk /\ \A n \in DOMAIN disk : Len(disk[n]) <= Len(disk'[n])

LEMMA GrownOK ==
  ASSUME Kept, NEW x \in DOMAIN disk, DOMAIN disk' = DOMAIN disk, Len(disk[x]) <= Len(disk'[x]),
         \A n \in DOMAIN disk : n # x => disk'[n] = disk[n]
  PROVE  Grown
<1>1. ASSUME NEW n \in DOMAIN disk PROVE Len(disk[n]) <= Len(disk'[n])
  <2>1. disk[n] \in Seq(Record)
    BY DEF Kept, Typed
  <2>2. Len(disk[n]) \in Nat
    BY <2>1, BytesOK
  <2> QED
    BY <2>2
<1> QED
  BY <1>1 DEF Grown

LEMMA SameGrown ==
  ASSUME Kept, disk' = disk
  PROVE  Grown
<1>1. ASSUME NEW n \in DOMAIN disk PROVE Len(disk[n]) <= Len(disk'[n])
  <2>1. disk[n] \in Seq(Record)
    BY DEF Kept, Typed
  <2>2. Len(disk[n]) \in Nat
    BY <2>1, BytesOK
  <2> QED
    BY <2>2
<1> QED
  BY <1>1 DEF Grown

(* What a call that stores bytes leaves.                                   *)
LEMMA WithIs ==
  ASSUME Kept, NEW x \in DOMAIN disk, NEW recs \in Seq(Record), disk' = With(x, recs)
  PROVE  /\ DOMAIN disk' = DOMAIN disk \cup {x} /\ DOMAIN disk' = DOMAIN disk /\ disk'[x] = recs
         /\ disk' \in [DOMAIN disk' -> Seq(Record)]
         /\ \A n \in DOMAIN disk : n # x => disk'[n] = disk[n]
<1>1. disk \in [DOMAIN disk -> Seq(Record)]
  BY DEF Kept, Typed
<1>2. DOMAIN disk' = DOMAIN disk \cup {x} /\ \A n \in DOMAIN disk' : disk'[n] = IF n = x THEN recs ELSE disk[n]
  BY DEF With
<1>3. disk' \in [DOMAIN disk' -> Seq(Record)]
  <2>1. disk' = [n \in DOMAIN disk' |-> disk'[n]]
    BY DEF With
  <2>2. \A n \in DOMAIN disk' : disk'[n] \in Seq(Record)
    BY <1>1, <1>2
  <2> QED
    BY <2>1, <2>2
<1> QED
  BY <1>2, <1>3

LEMMA NotedIs ==
  ASSUME Kept, NEW f \in Descriptor, NEW w \in Seq(Byte), Noted(f, w)
  PROVE  /\ want' \in [Name -> Seq(Byte)] /\ broken' \subseteq Name
         /\ \A n \in Name : n # f.name => want'[n] = want[n] /\ (n \in broken' <=> n \in broken)
         /\ f.failed => f.name \in broken'
         /\ ~ f.failed => want'[f.name] = w /\ (f.name \in broken' <=> f.name \in broken)
<1>1. f.name \in Name /\ want \in [Name -> Seq(Byte)] /\ broken \subseteq Name
  BY Fields DEF Kept, Typed
<1>2. << >> \in Seq(Byte)
  BY EmptySeq
<1>3. CASE f.failed
  <2>1. want' = [want EXCEPT ![f.name] = << >>] /\ broken' = broken \cup {f.name}
    BY <1>3 DEF Noted
  <2> QED
    BY <1>1, <1>2, <1>3, <2>1
<1>4. CASE ~ f.failed
  <2>1. want' = [want EXCEPT ![f.name] = w] /\ broken' = broken
    BY <1>4 DEF Noted
  <2> QED
    BY <1>1, <1>4, <2>1
<1> QED
  BY <1>3, <1>4

MovedTo(f, p) == [f EXCEPT !.pos = p]

Moves(f, g, p) ==
  /\ g \in Descriptor /\ g.used = TRUE /\ g.name = f.name /\ g.writing = f.writing
  /\ g.failed = f.failed /\ g.pos = p /\ g.cr = f.cr /\ g.recpos = f.recpos /\ g.rec = f.rec
  /\ g.reccnt = f.reccnt /\ g.eof = f.eof /\ g.loaded = f.loaded

LEMMA MovedOK ==
  ASSUME NEW f \in Descriptor, NEW p \in Nat
  PROVE  Moves(f, MovedTo(f, p), p)
<1> DEFINE g == MovedTo(f, p)
<1>1. g.name = f.name /\ g.pos = p /\ g.cr = f.cr /\ g.recpos = f.recpos /\ g.rec = f.rec /\ g.reccnt = f.reccnt
  BY DEF Descriptor, MovedTo
<1>2. g.used = TRUE /\ g.writing = f.writing /\ g.failed = f.failed /\ g.eof = f.eof /\ g.loaded = f.loaded
  BY DEF Descriptor, MovedTo
<1>3. g \in Descriptor
  BY DEF Descriptor, MovedTo
<1> HIDE DEF g
<1>4. Moves(f, g, p)
  BY <1>1, <1>2, <1>3 DEF Moves
<1> QED
  BY <1>4 DEF g

LEMMA WriteOK ==
  ASSUME Disciplined, Kept, NEW fd \in Fd, NEW bytes \in Seq(Byte), Write(fd, bytes)
  PROVE  Kept' /\ Grown /\ scan' = scan /\ ret'.op = "none"
<1> DEFINE f == cpmf[fd]
           x == f.name
           w == want[x]
           size == Len(disk[x])
           outs == CHOOSE o : WriteLoop(o, f, disk[x], bytes)
<1>1. /\ f.used /\ f.writing /\ ~ f.failed
      /\ \E o \in outs[Len(bytes)] :
           /\ cpmf' = [cpmf EXCEPT ![fd] = MovedTo(o.f, o.f.pos + Len(o.moved))]
           /\ disk' = With(x, o.recs)
           /\ Noted(o.f, Overwrite(w, f.pos, o.moved))
           /\ ret'.op = "none"
      /\ rereads' = rereads /\ scan' = scan
  <2>1. f.used /\ f.writing /\ ~ f.failed /\ rereads' = rereads /\ scan' = scan
    BY Keeping DEF Write, MayWrite
  <2>2. \E o \in outs[Len(bytes)] :
          /\ cpmf' = [cpmf EXCEPT ![fd] = MovedTo(o.f, o.f.pos + Len(o.moved))]
          /\ disk' = With(x, o.recs)
          /\ Noted(o.f, Overwrite(w, f.pos, o.moved))
          /\ Done(Len(o.moved))
    BY DEF Write, WriteLoop, MovedTo
  <2>3. \A r : Done(r) => ret'.op = "none"
    BY DoneOK
  <2> HIDE DEF outs, f, w, x
  <2> QED
    BY <2>1, <2>2, <2>3
<1>2. /\ f \in Descriptor /\ x \in Name /\ x \in DOMAIN disk /\ disk[x] \in Seq(Record)
      /\ w \in Seq(Byte) /\ DescOK(f, disk[x], w, x \in broken, rereads) /\ Alone(x, fd)
  BY <1>1, UsedOK
<1>3. x \notin broken /\ Buffered(f, disk[x], w) /\ f.pos = Len(w)
  BY <1>1, <1>2 DEF DescOK, Writer
<1>4. outs[Len(bytes)] \subseteq Outs(f, w, size) /\ size \in Nat
  <2> DEFINE recs == disk[x]
  <2>1. f \in Descriptor /\ recs \in Seq(Record) /\ w \in Seq(Byte) /\ Buffered(f, recs, w)
    BY <1>2, <1>3
  <2>2. WriteLoop(outs, f, recs, bytes)
    <3> HIDE DEF f, recs, w
    <3>1. \E o : WriteLoop(o, f, recs, bytes)
      BY <2>1, WriteLoopOK
    <3> QED
      BY <3>1 DEF recs
  <2>3. size = Len(recs)
    OBVIOUS
  <2> HIDE DEF f, recs, w, outs, size
  <2> QED
    BY <2>1, <2>2, <2>3, WriteLoopOK, BytesOK
<1> HIDE DEF f, w, outs, size
<1>5. PICK o \in Outs(f, w, size) :
        /\ cpmf' = [cpmf EXCEPT ![fd] = MovedTo(o.f, o.f.pos + Len(o.moved))]
        /\ disk' = With(x, o.recs)
        /\ Noted(o.f, Overwrite(w, f.pos, o.moved))
        /\ ret'.op = "none"
  BY <1>1, <1>4
<1>6. /\ o.f \in Descriptor /\ o.recs \in Seq(Record) /\ o.moved \in Seq(Byte) /\ Same(f, o.f)
      /\ ~ o.f.failed => Buffered(o.f, o.recs, w \o o.moved)
      /\ size <= Len(o.recs)
  BY <1>2, <1>4, OutFields
<1> DEFINE h == o.f
           recs == o.recs
           m == o.moved
           v == w \o m
           g == MovedTo(h, h.pos + Len(m))
<1>7. h \in Descriptor /\ recs \in Seq(Record) /\ m \in Seq(Byte) /\ Same(f, h)
      /\ cpmf' = [cpmf EXCEPT ![fd] = g] /\ disk' = With(x, recs)
      /\ Noted(h, Overwrite(w, f.pos, m)) /\ (~ h.failed => Buffered(h, recs, v))
      /\ size <= Len(recs)
  BY <1>5, <1>6
<1> HIDE DEF h, recs, m, v
<1>8. Overwrite(w, f.pos, m) = v /\ v \in Seq(Byte) /\ Len(v) = Len(w) + Len(m) /\ Len(m) \in Nat
  BY <1>2, <1>3, <1>7, Overwritten, LenProperties DEF v
<1>9. h.name = x /\ h.writing = TRUE /\ h.pos = Len(w) /\ h.pos \in Nat /\ h.pos + Len(m) = Len(v)
  BY <1>1, <1>2, <1>3, <1>7, <1>8, Fields, Flags DEF Same
<1>10. h.pos + Len(m) \in Nat
  BY <1>8, <1>9
<1>11. /\ g \in Descriptor /\ g.used = TRUE /\ g.name = x /\ g.writing = TRUE /\ g.failed = h.failed
       /\ g.pos = Len(v) /\ g.cr = h.cr /\ g.recpos = h.recpos /\ g.rec = h.rec
  <2> DEFINE q == h.pos + Len(m)
  <2>1. q \in Nat /\ q = Len(v) /\ h \in Descriptor /\ g = MovedTo(h, q)
    BY <1>7, <1>9, <1>10
  <2> HIDE DEF q
  <2>2. Moves(h, g, q)
    BY <2>1, MovedOK
  <2> HIDE DEF g
  <2> QED
    BY <1>9, <2>1, <2>2 DEF Moves
<1> HIDE DEF g, x
<1>12. Sets(fd, g)
  BY <1>7, <1>11, SetsOK DEF Kept
<1>13. /\ want' \in [Name -> Seq(Byte)] /\ broken' \subseteq Name
       /\ \A n \in Name : n # x => want'[n] = want[n] /\ (n \in broken' <=> n \in broken)
       /\ h.failed => x \in broken'
       /\ ~ h.failed => want'[x] = v /\ x \notin broken'
  BY <1>3, <1>7, <1>8, <1>9, NotedIs
<1>14. /\ DOMAIN disk' = DOMAIN disk \cup {x} /\ DOMAIN disk' = DOMAIN disk /\ disk'[x] = recs
       /\ disk' \in [DOMAIN disk' -> Seq(Record)]
       /\ \A n \in DOMAIN disk : n # x => disk'[n] = disk[n]
  BY <1>2, <1>7, WithIs
<1>15. Elsewhere(x)
  BY <1>1, <1>7, <1>13, <1>14 DEF Elsewhere
<1>16. DescOK(g, disk'[x], want'[x], x \in broken', rereads)
  <2>1. CASE h.failed
    BY <1>11, <1>13, <2>1 DEF DescOK, Writer
  <2>2. CASE ~ h.failed
    <3>1. Buffered(g, recs, v)
      BY <1>7, <1>11, <2>2 DEF Buffered
    <3> QED
      BY <1>11, <1>13, <1>14, <2>2, <3>1 DEF DescOK, Writer
  <2> QED
    BY <2>1, <2>2
<1>17. Kept'
  <2>1. cpmf[fd].used => cpmf[fd].name = x
    BY DEF x, f
  <2> QED
    BY <1>2, <1>11, <1>12, <1>15, <1>16, <2>1, DescriptorStep
<1>18. Grown
  <2>1. Len(disk[x]) <= Len(disk'[x])
    BY <1>7, <1>14 DEF size
  <2> QED
    BY <1>2, <1>14, <2>1, GrownOK
<1> QED
  BY <1>1, <1>5, <1>17, <1>18
-----------------------------------------------------------------------------
(* sys_close.                                                              *)
LEMMA PaddedOK ==
  ASSUME NEW f \in Descriptor
  PROVE  /\ Padded(f) \in Descriptor /\ Same(f, Padded(f)) /\ Padded(f).failed = f.failed
         /\ Padded(f).cr = f.cr /\ Padded(f).recpos = f.recpos
         /\ Padded(f).rec = [i \in 1 .. RecSize |-> IF i <= f.recpos THEN f.rec[i] ELSE SUB]
<1> DEFINE rec == [i \in 1 .. RecSize |-> IF i <= f.recpos THEN f.rec[i] ELSE SUB]
           g == Padded(f)
<1>1. rec \in Record
  <2>1. f.rec \in [1 .. RecSize -> Byte] /\ SUB \in Byte
    BY Fields, Constants DEF Record
  <2> QED
    BY <2>1 DEF Record
<1>2. g = [f EXCEPT !.rec = rec]
  BY DEF Padded, Descriptor
<1> HIDE DEF g, rec
<1>3. g \in Descriptor /\ g.rec = rec /\ g.cr = f.cr /\ g.recpos = f.recpos /\ g.name = f.name /\ g.pos = f.pos
  BY <1>1, <1>2 DEF Descriptor
<1>4. g.used = f.used /\ g.writing = f.writing /\ g.failed = f.failed
  BY <1>2 DEF Descriptor
<1> QED
  BY <1>3, <1>4 DEF Same, g, rec

LEMMA ClosedOK ==
  ASSUME NEW f \in Descriptor, NEW recs \in Seq(Record), NEW w \in Seq(Byte), Buffered(f, recs, w)
  PROVE  /\ f.recpos = 0 => FileOK(recs, w)
         /\ f.recpos # 0 => FileOK(PutRec(recs, f.cr, Padded(f).rec), w)
<1> DEFINE B == Bytes(recs)
           n == f.recpos
           rec == Padded(f).rec
           more == PutRec(recs, Len(recs), rec)
<1>1. /\ B \in Nat /\ n \in Nat /\ n < RecSize /\ Len(w) = B + n /\ f.cr = Len(recs)
      /\ \A i \in 0 .. Len(w) - 1 :
           w[i + 1] = IF i < B THEN At(recs, i) ELSE f.rec[i - B + 1]
  BY Fields, BytesOK, Constants DEF Buffered, Contents
<1>2. rec \in Record /\ rec = [i \in 1 .. RecSize |-> IF i <= n THEN f.rec[i] ELSE SUB]
  BY PaddedOK, Fields
<1> HIDE DEF rec, n
<1>3. /\ Bytes(more) = B + RecSize
      /\ \A i \in 0 .. Bytes(more) - 1 : At(more, i) = IF i < B THEN At(recs, i) ELSE rec[i - B + 1]
  BY <1>2, OneMore
<1> HIDE DEF B, more
<1>4. ASSUME n = 0 PROVE FileOK(recs, w)
  <2>1. Len(w) = Bytes(recs) /\ Bytes(recs) \in Nat
    BY <1>1, <1>4 DEF B
  <2>2. \A i \in 0 .. Bytes(recs) - 1 : i < Len(w) /\ At(recs, i) = w[i + 1]
    BY <1>1, <2>1 DEF B
  <2> QED
    BY <2>1, <2>2, Constants DEF FileOK
<1>5. ASSUME n # 0 PROVE FileOK(more, w)
  <2>1. Len(w) <= Bytes(more) /\ Bytes(more) < Len(w) + RecSize
    BY <1>1, <1>3, <1>5, Constants
  <2>2. ASSUME NEW i \in 0 .. Bytes(more) - 1
        PROVE  At(more, i) = IF i < Len(w) THEN w[i + 1] ELSE SUB
    <3>1. i \in Nat /\ i < B + RecSize /\ At(more, i) = IF i < B THEN At(recs, i) ELSE rec[i - B + 1]
      BY <1>1, <1>3, Constants
    <3>2. CASE i < Len(w)
      <4>1. w[i + 1] = IF i < B THEN At(recs, i) ELSE f.rec[i - B + 1]
        BY <1>1, <3>1, <3>2
      <4>2. ~ (i < B) => i - B + 1 \in 1 .. RecSize /\ i - B + 1 <= n
        BY <1>1, <3>1, <3>2, Constants
      <4> QED
        BY <1>2, <3>1, <3>2, <4>1, <4>2
    <3>3. CASE ~ (i < Len(w))
      <4>1. ~ (i < B) /\ i - B + 1 \in 1 .. RecSize /\ ~ (i - B + 1 <= n)
        BY <1>1, <3>1, <3>3, Constants
      <4> QED
        BY <1>2, <3>1, <3>3, <4>1
    <3> QED
      BY <3>2, <3>3
  <2> QED
    BY <2>1, <2>2 DEF FileOK
<1> QED
  BY <1>1, <1>4, <1>5 DEF n, rec, more

LEMMA CloseOK ==
  ASSUME Kept, NEW fd \in Fd, Close(fd)
  PROVE  Kept' /\ Grown /\ scan' = scan /\ ret'.op = "none"
<1> DEFINE f == cpmf[fd]
           x == f.name
           w == want[x]
           recs == disk[x]
<1>1. /\ f.used /\ f.cr <= Len(recs)
      /\ \E o \in IF Flushes(f) THEN RecordWritten(Out(Padded(f), recs, <<SUB>>))
                  ELSE {Out(f, recs, << >>)} :
           disk' = With(x, o.recs) /\ Noted(o.f, w)
      /\ cpmf' = [cpmf EXCEPT ![fd] = Idle] /\ rereads' = rereads /\ scan' = scan
  BY DEF Close, Size
<1>2. ret'.op = "none"
  BY DoneOK DEF Close
<1>3. /\ f \in Descriptor /\ x \in Name /\ x \in DOMAIN disk /\ recs \in Seq(Record)
      /\ w \in Seq(Byte) /\ DescOK(f, recs, w, x \in broken, rereads)
      /\ (f.writing => Alone(x, fd)) /\ (~ f.writing => NoWriter(x, fd))
  BY <1>1, UsedOK
<1>4. Sets(fd, Idle)
  BY <1>1, SetsOK DEF Kept
<1>5. cpmf[fd].used => cpmf[fd].name = x
  OBVIOUS
<1>6. ASSUME NEW h \in Descriptor, NEW more \in Seq(Record), h.name = x,
             disk' = With(x, more), Noted(h, w), Len(recs) <= Len(more)
      PROVE  /\ Elsewhere(x) /\ Grown /\ disk'[x] = more
             /\ h.failed => x \in broken'
             /\ ~ h.failed => want'[x] = w /\ (x \in broken' <=> x \in broken)
  <2> HIDE DEF f, x, w, recs
  <2>1. /\ want' \in [Name -> Seq(Byte)] /\ broken' \subseteq Name
        /\ \A n \in Name : n # x => want'[n] = want[n] /\ (n \in broken' <=> n \in broken)
        /\ h.failed => x \in broken'
        /\ ~ h.failed => want'[x] = w /\ (x \in broken' <=> x \in broken)
    BY <1>3, <1>6, NotedIs
  <2>2. /\ DOMAIN disk' = DOMAIN disk \cup {x} /\ DOMAIN disk' = DOMAIN disk /\ disk'[x] = more
        /\ disk' \in [DOMAIN disk' -> Seq(Record)]
        /\ \A n \in DOMAIN disk : n # x => disk'[n] = disk[n]
    BY <1>3, <1>6, WithIs
  <2>3. Grown
    <3>1. Len(disk[x]) <= Len(disk'[x])
      BY <1>6, <2>2 DEF recs
    <3> QED
      BY <1>3, <2>2, <3>1, GrownOK
  <2> QED
    BY <1>1, <1>6, <2>1, <2>2, <2>3 DEF Elsewhere
<1>7. CASE Flushes(f)
  <2>1. PICK p \in RecordWritten(Out(Padded(f), recs, <<SUB>>)) : disk' = With(x, p.recs) /\ Noted(p.f, w)
    BY <1>1, <1>7
  <2> DEFINE h == Padded(f)
             moved == <<SUB>>
  <2>2. h \in Descriptor /\ Same(f, h) /\ h.failed = f.failed /\ h.cr = f.cr
    BY <1>3, PaddedOK
  <2>3. moved \in Seq(Byte) /\ moved # << >> /\ p \in RecordWritten(Out(h, recs, moved)) /\ h.cr <= Len(recs)
    BY <1>1, <2>1, <2>2, Constants
  <2>4. f.writing /\ f.recpos # 0 /\ Alone(x, fd)
    BY <1>3, <1>7, Fields DEF Flushes
  <2> HIDE DEF h, moved
  <2>5. /\ p.f \in Descriptor /\ Same(h, p.f) /\ p.recs \in Seq(Record)
        /\ f.failed => p.f.failed
        /\ Len(recs) <= Len(p.recs)
        /\ ~ p.f.failed => p.recs = PutRec(recs, f.cr, h.rec)
    <3> HIDE DEF recs, f
    <3> QED
      BY <1>3, <2>2, <2>3, RecordWrittenOK
  <2>6. p.f.name = x
    BY <2>2, <2>5 DEF Same
  <2>7. /\ Elsewhere(x) /\ Grown /\ disk'[x] = p.recs
        /\ p.f.failed => x \in broken'
        /\ ~ p.f.failed => want'[x] = w /\ (x \in broken' <=> x \in broken)
    BY <1>6, <2>1, <2>5, <2>6
  <2>8. ASSUME x \notin broken' PROVE FileOK(disk'[x], want'[x])
    <3>1. ~ p.f.failed /\ ~ f.failed /\ want'[x] = w /\ disk'[x] = PutRec(recs, f.cr, Padded(f).rec)
      BY <2>5, <2>7, <2>8 DEF h
    <3>2. Buffered(f, recs, w)
      BY <1>3, <2>4, <3>1 DEF DescOK, Writer
    <3>3. FileOK(PutRec(recs, f.cr, Padded(f).rec), w)
      <4> HIDE DEF f, recs, w
      <4> QED
        BY <1>3, <2>4, <3>2, ClosedOK
    <3> QED
      BY <3>1, <3>3
  <2>9. Kept'
    <3> HIDE DEF f, x, w, recs
    <3> QED
      BY <1>3, <1>4, <1>5, <2>4, <2>7, <2>8, IdleOK, DescriptorStep
  <2> QED
    BY <1>1, <1>2, <2>7, <2>9
<1>8. CASE ~ Flushes(f)
  <2>1. disk' = With(x, recs) /\ Noted(f, w)
    <3>1. Out(f, recs, << >>).f = f /\ Out(f, recs, << >>).recs = recs
      BY DEF Out
    <3> HIDE DEF f, x, recs, w
    <3> QED
      BY <1>1, <1>8, <3>1
  <2>2. /\ Elsewhere(x) /\ Grown /\ disk'[x] = recs
        /\ f.failed => x \in broken'
        /\ ~ f.failed => want'[x] = w /\ (x \in broken' <=> x \in broken)
    <3>1. Len(recs) <= Len(recs)
      BY <1>3, BytesOK
    <3> QED
      BY <1>3, <1>6, <2>1, <3>1
  <2>3. ASSUME f.writing, x \notin broken' PROVE FileOK(disk'[x], want'[x])
    <3>1. ~ f.failed /\ f.recpos = 0 /\ want'[x] = w /\ disk'[x] = recs
      BY <1>3, <1>8, <2>2, <2>3, Fields DEF Flushes
    <3>2. Buffered(f, recs, w)
      BY <1>3, <2>3, <3>1 DEF DescOK, Writer
    <3>3. FileOK(recs, w)
      <4> HIDE DEF f, recs, w
      <4> QED
        BY <1>3, <3>1, <3>2, ClosedOK
    <3> QED
      BY <3>1, <3>3
  <2>4. ~ f.writing => Still(x)
    <3>1. ~ f.writing => ~ f.failed
      BY <1>3 DEF DescOK, Reader, ReaderAt
    <3> QED
      BY <1>3, <2>2, <3>1 DEF Still
  <2>5. Kept'
    <3>1. CASE f.writing
      <4> HIDE DEF x, w, recs
      <4> QED
        BY <1>3, <1>4, <1>5, <2>2, <2>3, <3>1, IdleOK, DescriptorStep
    <3>2. CASE ~ f.writing
      <4> HIDE DEF x, w, recs
      <4> QED
        BY <1>3, <1>4, <1>5, <2>2, <2>4, <3>2, IdleOK, DescriptorStep
    <3> QED
      BY <3>1, <3>2
  <2> QED
    BY <1>1, <1>2, <2>2, <2>5
<1> QED
  BY <1>7, <1>8
-----------------------------------------------------------------------------
(* The loop of sys_read: a record fetched when the buffer is used up.      *)
Fetches(f, h, p, recs, again) ==
  /\ ReaderAt(h, p, recs, again)
  /\ h.recpos < h.reccnt => p < Bytes(recs) /\ h.rec[h.recpos + 1] = At(recs, p)
  /\ ~ (h.recpos < h.reccnt) => p >= Bytes(recs)
  /\ h.loaded /\ again => h = f

LEMMA FetchedOK ==
  ASSUME NEW f \in Descriptor, NEW recs \in Seq(Record), NEW p \in Nat, NEW again \in BOOLEAN,
         ReaderAt(f, p, recs, again), f.loaded /\ again => f.recpos < f.reccnt
  PROVE  /\ Fetched(f, recs) \in Descriptor /\ Same(f, Fetched(f, recs))
         /\ Fetched(f, recs).failed = f.failed
         /\ Fetches(f, Fetched(f, recs), p, recs, again)
<1> DEFINE h == Fetched(f, recs)
           B == Bytes(recs)
<1>1. /\ B \in Nat /\ Len(recs) \in Nat /\ f.recpos \in Nat /\ f.cr \in Nat /\ f.reccnt \in {0, RecSize}
      /\ \A k \in 1 .. Len(recs) : recs[k] \in Record
  BY BytesOK, Fields
<1>2. f.eof \in BOOLEAN /\ f.failed \in BOOLEAN /\ f.loaded \in BOOLEAN
  BY Flags
<1>3. /\ f.recpos <= f.reccnt /\ ~ f.failed
      /\ f.eof => f.recpos = f.reccnt /\ p >= B
      /\ f.reccnt = 0 /\ ~ f.eof => (p = 0 /\ f.cr = 0) \/ (p >= B /\ f.cr >= Len(recs))
      /\ f.reccnt = RecSize => \E r \in 0 .. Len(recs) - 1 :
           /\ p = r * RecSize + f.recpos /\ f.rec = recs[r + 1]
           /\ ~ f.eof /\ ~ (f.loaded /\ again) => f.cr = r + 1
  BY DEF ReaderAt
<1>4. CASE f.recpos < f.reccnt \/ f.eof
  <2>1. h = f
    BY <1>4 DEF Fetched
  <2>2. ASSUME f.recpos < f.reccnt PROVE p < B /\ f.rec[f.recpos + 1] = At(recs, p)
    <3>1. f.reccnt = RecSize /\ f.recpos \in 0 .. RecSize - 1
      BY <1>1, <2>2, Constants
    <3>2. PICK r \in 0 .. Len(recs) - 1 : p = r * RecSize + f.recpos /\ f.rec = recs[r + 1]
      BY <1>3, <3>1
    <3>3. p \in 0 .. B - 1 /\ At(recs, p) = recs[r + 1][f.recpos + 1]
      <4> HIDE DEF B
      <4> QED
        BY <3>1, <3>2, ByteOf DEF B
    <3> QED
      BY <1>1, <3>2, <3>3
  <2>3. ~ (f.recpos < f.reccnt) => p >= B
    BY <1>3, <1>4
  <2>4. Fetches(f, f, p, recs, again)
    BY <2>2, <2>3 DEF Fetches
  <2> QED
    BY <2>1, <2>4 DEF Same
<1>5. CASE ~ (f.recpos < f.reccnt \/ f.eof) /\ f.cr >= Len(recs)
  <2> DEFINE g == [f EXCEPT !.eof = TRUE]
  <2>1. h = g
    BY <1>5 DEF Fetched
  <2>2. g \in Descriptor /\ g.recpos = f.recpos /\ g.reccnt = f.reccnt /\ g.name = f.name /\ g.pos = f.pos /\ g.rec = f.rec
    BY DEF Descriptor
  <2>3. g.eof = TRUE /\ g.failed = f.failed /\ g.used = f.used /\ g.writing = f.writing /\ g.loaded = f.loaded
    BY DEF Descriptor
  <2>4. f.recpos = f.reccnt /\ ~ f.eof /\ ~ (f.loaded /\ again)
    BY <1>1, <1>3, <1>5, Constants
  <2>5. p >= B
    <3>1. CASE f.reccnt = 0
      <4>1. (p = 0 /\ Len(recs) = 0) \/ p >= B
        BY <1>1, <1>3, <1>5, <2>4, <3>1
      <4>2. Len(recs) = 0 => B = 0
        BY Constants DEF Bytes
      <4> QED
        BY <1>1, <4>1, <4>2
    <3>2. CASE f.reccnt = RecSize
      <4>1. PICK r \in 0 .. Len(recs) - 1 : p = r * RecSize + f.recpos /\ f.cr = r + 1
        BY <1>3, <2>4, <3>2
      <4>2. r \in Nat /\ r + 1 = Len(recs)
        BY <1>1, <1>5, <4>1
      <4>3. p = (r + 1) * RecSize
        BY <2>4, <3>2, <4>1, <4>2, Constants, TimesMono
      <4> QED
        BY <1>1, <4>2, <4>3 DEF Bytes
    <3> QED
      BY <1>1, <3>1, <3>2
  <2> HIDE DEF g, B
  <2>6. ReaderAt(g, p, recs, again)
    <3>1. g.reccnt = RecSize => \E r \in 0 .. Len(recs) - 1 : p = r * RecSize + g.recpos /\ g.rec = recs[r + 1]
      BY <1>3, <2>2
    <3> QED
      BY <1>3, <2>2, <2>3, <2>4, <2>5, <3>1 DEF ReaderAt, B
  <2>7. Fetches(f, g, p, recs, again)
    BY <1>5, <2>2, <2>3, <2>4, <2>5, <2>6 DEF Fetches, B
  <2> QED
    BY <2>1, <2>2, <2>3, <2>7 DEF Same
<1>6. CASE ~ (f.recpos < f.reccnt \/ f.eof) /\ ~ (f.cr >= Len(recs))
  <2> DEFINE g == [f EXCEPT !.rec = recs[f.cr + 1], !.ex = Extent(f.cr), !.cr = @ + 1, !.recpos = 0,
                            !.reccnt = RecSize, !.loaded = FALSE]
  <2>1. h = g
    BY <1>6 DEF Fetched
  <2>2. f.recpos = f.reccnt /\ ~ f.eof /\ ~ (f.loaded /\ again)
    BY <1>1, <1>3, <1>6, Constants
  <2>3. f.cr \in 0 .. Len(recs) - 1 /\ f.cr + 1 \in 1 .. Len(recs) /\ f.cr + 1 \in Nat /\ recs[f.cr + 1] \in Record
    BY <1>1, <1>6
  <2>4. /\ g.recpos = 0 /\ g.reccnt = RecSize /\ g.name = f.name /\ g.pos = f.pos
        /\ g.rec = recs[f.cr + 1] /\ g.cr = f.cr + 1
    BY DEF Descriptor
  <2>5. /\ g.eof = f.eof /\ g.failed = f.failed /\ g.used = f.used /\ g.writing = f.writing
        /\ g.loaded = FALSE
    BY DEF Descriptor
  <2>6. g \in Descriptor
    <3>1. 0 \in 0 .. RecSize /\ RecSize \in {0, RecSize}
      BY Constants
    <3>2. Extent(f.cr) \in Nat
      <4>1. f.cr \in Nat
        BY Fields
      <4> QED
        BY <4>1, ExtentOK
    <3> QED
      BY <2>3, <3>1, <3>2 DEF Descriptor
  <2>7. p = f.cr * RecSize
    <3>1. CASE f.reccnt = 0
      <4>1. p = 0 /\ f.cr = 0
        BY <1>1, <1>3, <1>6, <2>2, <3>1
      <4> QED
        BY <4>1, Constants
    <3>2. CASE f.reccnt = RecSize
      <4>1. PICK r \in 0 .. Len(recs) - 1 : p = r * RecSize + f.recpos /\ f.cr = r + 1
        BY <1>3, <2>2, <3>2
      <4>2. r \in Nat
        BY <1>1, <4>1
      <4> QED
        BY <2>2, <3>2, <4>1, <4>2, Constants, TimesMono
    <3> QED
      BY <1>1, <3>1, <3>2
  <2> HIDE DEF g, B
  <2>8. p = f.cr * RecSize + 0 /\ 0 \in 0 .. RecSize - 1
    BY <2>7, Constants
  <2>9. p < B /\ At(recs, p) = recs[f.cr + 1][1]
    <3>1. p \in 0 .. B - 1 /\ At(recs, p) = recs[f.cr + 1][0 + 1]
      BY <2>3, <2>8, ByteOf DEF B
    <3> QED
      BY <1>1, <3>1
  <2>10. ReaderAt(g, p, recs, again)
    <3>1. \E r \in 0 .. Len(recs) - 1 : p = r * RecSize + g.recpos /\ g.rec = recs[r + 1] /\ g.cr = r + 1
      BY <2>3, <2>4, <2>8
    <3> QED
      BY <1>3, <2>2, <2>4, <2>5, <3>1, Constants DEF ReaderAt
  <2>11. Fetches(f, g, p, recs, again)
    <3>1. g.recpos < g.reccnt /\ g.rec[g.recpos + 1] = recs[f.cr + 1][1]
      BY <2>4, Constants
    <3> QED
      BY <2>5, <2>9, <2>10, <3>1 DEF Fetches, B
  <2> QED
    BY <2>1, <2>4, <2>5, <2>6, <2>11 DEF Same
<1> QED
  BY <1>4, <1>5, <1>6

(* A byte of the record.                                                   *)
NextByte(f) == [f EXCEPT !.recpos = @ + 1]

LEMMA NextByteOK ==
  ASSUME NEW f \in Descriptor, NEW recs \in Seq(Record), NEW p \in Nat, NEW again \in BOOLEAN,
         ReaderAt(f, p, recs, again), f.recpos < f.reccnt
  PROVE  /\ NextByte(f) \in Descriptor /\ Same(f, NextByte(f)) /\ NextByte(f).failed = f.failed
         /\ ReaderAt(NextByte(f), p + 1, recs, again)
         /\ NextByte(f).recpos = f.recpos + 1 /\ NextByte(f).reccnt = f.reccnt
         /\ NextByte(f).loaded = f.loaded
<1> DEFINE g == NextByte(f)
<1>1. f.recpos \in Nat /\ f.reccnt \in {0, RecSize} /\ f.reccnt = RecSize /\ f.recpos + 1 \in 0 .. RecSize
  BY Fields, Constants
<1>2. /\ g.recpos = f.recpos + 1 /\ g.reccnt = f.reccnt /\ g.name = f.name /\ g.pos = f.pos
      /\ g.rec = f.rec /\ g.cr = f.cr
  BY DEF Descriptor, NextByte
<1>3. /\ g.eof = f.eof /\ g.failed = f.failed /\ g.used = f.used /\ g.writing = f.writing
      /\ g.loaded = f.loaded
  BY DEF Descriptor, NextByte
<1>4. g \in Descriptor
  BY <1>1 DEF Descriptor, NextByte
<1> HIDE DEF g
<1>5. ~ f.eof /\ ~ f.failed
  <2>1. f.recpos # f.reccnt
    BY <1>1, Constants
  <2> QED
    BY <2>1 DEF ReaderAt
<1>6. PICK r \in 0 .. Len(recs) - 1 :
        /\ p = r * RecSize + f.recpos /\ f.rec = recs[r + 1]
        /\ ~ (f.loaded /\ again) => f.cr = r + 1
  BY <1>1, <1>5 DEF ReaderAt
<1>7. p + 1 = r * RecSize + g.recpos
  <2>1. r \in Nat
    BY <1>6, BytesOK
  <2>2. r * RecSize \in Nat
    BY <2>1, Constants, TimesMono
  <2> QED
    BY <1>1, <1>2, <1>6, <2>2
<1>8. g.recpos <= g.reccnt /\ ~ g.failed /\ ~ g.eof /\ g.reccnt # 0
  BY <1>1, <1>2, <1>3, <1>5, Constants
<1>9. \E k \in 0 .. Len(recs) - 1 :
        /\ p + 1 = k * RecSize + g.recpos /\ g.rec = recs[k + 1]
        /\ ~ g.eof /\ ~ (g.loaded /\ again) => g.cr = k + 1
  BY <1>2, <1>3, <1>6, <1>7
<1>10. ReaderAt(g, p + 1, recs, again)
  BY <1>8, <1>9 DEF ReaderAt
<1> QED
  BY <1>2, <1>3, <1>4, <1>10 DEF Same, g

(* What the loop has done after i of n rounds.                             *)
Moved(m, recs, pos) == \A k \in 1 .. Len(m) : pos + k - 1 < Bytes(recs) /\ m[k] = At(recs, pos + k - 1)
SoFar(g, m, f, recs, i, n, again) ==
  /\ g \in Descriptor /\ m \in Seq(Byte) /\ Same(f, g)
  /\ Len(m) <= i /\ Moved(m, recs, f.pos)
  /\ Len(m) < i => f.pos + Len(m) >= Bytes(recs)
  /\ ReaderAt(g, f.pos + Len(m), recs, again)
  /\ g.loaded /\ again => g.recpos + (n - i) <= g.reccnt

LEMMA TakenOK ==
  ASSUME NEW f \in Descriptor, NEW recs \in Seq(Record), NEW again \in BOOLEAN,
         NEW n \in Nat, NEW i \in 0 .. n - 1, NEW g, NEW m, SoFar(g, m, f, recs, i, n, again)
  PROVE  \E h, v : Taken(Out(g, recs, m)) = Out(h, recs, v) /\ SoFar(h, v, f, recs, i + 1, n, again)
<1> DEFINE p == f.pos + Len(m)
           h == Fetched(g, recs)
           B == Bytes(recs)
<1>1. /\ g \in Descriptor /\ m \in Seq(Byte) /\ Same(f, g) /\ Len(m) <= i /\ Moved(m, recs, f.pos)
      /\ Len(m) < i => p >= B
      /\ ReaderAt(g, p, recs, again)
      /\ g.loaded /\ again => g.recpos + (n - i) <= g.reccnt
  BY DEF SoFar
<1>2. /\ Len(m) \in Nat /\ f.pos \in Nat /\ p \in Nat /\ B \in Nat /\ i \in Nat /\ i + 1 <= n
      /\ g.recpos \in Nat /\ g.reccnt \in Nat
  <2>1. Len(m) \in Nat
    BY <1>1, LenProperties
  <2>2. f.pos \in Nat /\ g.recpos \in Nat /\ g.reccnt \in {0, RecSize}
    BY <1>1, Fields
  <2> QED
    BY <2>1, <2>2, BytesOK, Constants
<1> HIDE DEF p, B
<1>3. g.loaded /\ again => g.recpos < g.reccnt
  BY <1>1, <1>2
<1>4. /\ h \in Descriptor /\ Same(g, h) /\ h.failed = g.failed /\ Fetches(g, h, p, recs, again)
  BY <1>1, <1>2, <1>3, FetchedOK
<1>5. Taken(Out(g, recs, m)) = IF h.recpos >= h.reccnt THEN Out(h, recs, m)
                               ELSE Out(NextByte(h), recs, Append(m, h.rec[h.recpos + 1]))
  BY DEF Taken, Out, NextByte
<1> HIDE DEF h
<1>6. Same(f, h)
  BY <1>1, <1>4 DEF Same
<1>7. /\ ReaderAt(h, p, recs, again)
      /\ h.recpos < h.reccnt => p < B /\ h.rec[h.recpos + 1] = At(recs, p)
      /\ ~ (h.recpos < h.reccnt) => p >= B
      /\ h.loaded /\ again => h.recpos = g.recpos /\ h.reccnt = g.reccnt /\ g.loaded
  BY <1>4 DEF Fetches, B
<1>8. h.recpos \in Nat /\ h.reccnt \in {0, RecSize} /\ h.reccnt \in Nat /\ h.rec \in [1 .. RecSize -> Byte]
  BY <1>4, Fields, Constants DEF Record
<1>9. CASE h.recpos >= h.reccnt
  <2>1. ~ (h.recpos < h.reccnt) /\ p >= B
    BY <1>7, <1>8, <1>9
  <2>2. ~ (h.loaded /\ again)
    BY <1>3, <1>7, <2>1
  <2>3. Len(m) <= i + 1
    BY <1>1, <1>2
  <2>4. SoFar(h, m, f, recs, i + 1, n, again)
    BY <1>1, <1>4, <1>6, <1>7, <2>1, <2>2, <2>3 DEF SoFar, p, B
  <2> QED
    BY <1>5, <1>9, <2>4
<1>10. CASE ~ (h.recpos >= h.reccnt)
  <2> DEFINE e == NextByte(h)
             b == h.rec[h.recpos + 1]
             v == Append(m, b)
  <2>1. h.recpos < h.reccnt /\ p < B /\ b = At(recs, p) /\ h.recpos + 1 \in 1 .. RecSize
    BY <1>7, <1>8, <1>10, Constants
  <2>2. /\ e \in Descriptor /\ Same(h, e) /\ ReaderAt(e, p + 1, recs, again)
        /\ e.recpos = h.recpos + 1 /\ e.reccnt = h.reccnt /\ e.loaded = h.loaded
    BY <1>2, <1>4, <1>7, <2>1, NextByteOK
  <2>3. b \in Byte
    BY <1>8, <2>1
  <2> HIDE DEF e, b
  <2>4. /\ v \in Seq(Byte) /\ Len(v) = Len(m) + 1 /\ v[Len(m) + 1] = b
        /\ \A k \in 1 .. Len(m) : v[k] = m[k]
    BY <1>1, <2>3, AppendProperties
  <2> HIDE DEF v
  <2>5. Len(m) = i
    BY <1>1, <1>2, <2>1
  <2>6. Len(v) <= i + 1 /\ ~ (Len(v) < i + 1)
    BY <1>2, <2>4, <2>5
  <2>7. f.pos + Len(v) = p + 1
    <3>1. f.pos \in Nat /\ Len(m) \in Nat /\ Len(v) = Len(m) + 1
      BY <1>2, <2>4
    <3>2. f.pos + Len(v) = (f.pos + Len(m)) + 1
      BY <3>1
    <3> QED
      BY <3>2 DEF p
  <2>8. Moved(v, recs, f.pos)
    <3> SUFFICES ASSUME NEW k \in 1 .. Len(v)
                 PROVE  f.pos + k - 1 < Bytes(recs) /\ v[k] = At(recs, f.pos + k - 1)
      BY DEF Moved
    <3>1. CASE k \in 1 .. Len(m)
      <4>1. f.pos + k - 1 < Bytes(recs) /\ m[k] = At(recs, f.pos + k - 1)
        BY <1>1, <3>1 DEF Moved
      <4> QED
        BY <2>4, <3>1, <4>1
    <3>2. CASE k \notin 1 .. Len(m)
      <4>1. k = Len(m) + 1 /\ f.pos + k - 1 = p
        BY <1>2, <2>4, <3>2 DEF p
      <4> QED
        BY <2>1, <2>4, <4>1 DEF B
    <3> QED
      BY <3>1, <3>2
  <2>9. e.loaded /\ again => e.recpos + (n - (i + 1)) <= e.reccnt
    <3>1. ASSUME h.loaded, again PROVE h.recpos + 1 + (n - (i + 1)) <= h.reccnt
      BY <1>1, <1>2, <1>7, <3>1
    <3> QED
      BY <2>2, <3>1
  <2>10. SoFar(e, v, f, recs, i + 1, n, again)
    <3>1. Same(f, e)
      BY <1>6, <2>2 DEF Same
    <3> QED
      BY <2>2, <2>4, <2>6, <2>7, <2>8, <2>9, <3>1 DEF SoFar
  <2> QED
    BY <1>5, <1>10, <2>10 DEF e, v, b
<1> QED
  BY <1>9, <1>10

ReadLoop(taken, f, recs, n) ==
  taken = [i \in 0 .. n |-> IF i = 0 THEN Out(f, recs, << >>) ELSE Taken(taken[i - 1])]
Good(o, f, recs, i, n, again) == \E g, m : o = Out(g, recs, m) /\ SoFar(g, m, f, recs, i, n, again)

LEMMA ReadLoopOK ==
  ASSUME NEW f \in Descriptor, NEW recs \in Seq(Record), NEW again \in BOOLEAN, NEW n \in Nat,
         Reader(f, recs, again), f.loaded /\ again => f.recpos + n <= f.reccnt
  PROVE  /\ \E taken : ReadLoop(taken, f, recs, n)
         /\ \A taken : ReadLoop(taken, f, recs, n) => Good(taken[n], f, recs, n, n, again)
<1> DEFINE V == {Out(g, recs, m) : g \in Descriptor, m \in Seq(Byte)}
           v0 == Out(f, recs, << >>)
           Step == [i \in 1 .. n |-> [o \in V |-> IF Taken(o) \in V THEN Taken(o) ELSE v0]]
<1>1. Good(v0, f, recs, 0, n, again)
  <2>1. << >> \in Seq(Byte) /\ Len(<< >>) = 0
    BY EmptySeq
  <2>2. f.pos \in Nat /\ f.pos + 0 = f.pos /\ n - 0 = n
    BY Fields
  <2>3. ReaderAt(f, f.pos + 0, recs, again)
    BY <2>2 DEF Reader
  <2>4. SoFar(f, << >>, f, recs, 0, n, again)
    BY <2>1, <2>2, <2>3 DEF SoFar, Same, Moved
  <2> QED
    BY <2>4 DEF Good
<1>2. ASSUME NEW i, NEW o, Good(o, f, recs, i, n, again) PROVE o \in V
  BY <1>2 DEF Good, SoFar
<1>3. ASSUME NEW i \in 0 .. n - 1, NEW o, Good(o, f, recs, i, n, again)
      PROVE  Good(Taken(o), f, recs, i + 1, n, again)
  <2>1. PICK g, m : o = Out(g, recs, m) /\ SoFar(g, m, f, recs, i, n, again)
    BY <1>3 DEF Good
  <2>2. \E h, v : Taken(Out(g, recs, m)) = Out(h, recs, v) /\ SoFar(h, v, f, recs, i + 1, n, again)
    BY <2>1, TakenOK
  <2> QED
    BY <2>1, <2>2 DEF Good
<1>4. v0 \in V
  BY <1>1, <1>2
<1> HIDE DEF V, v0
<1>5. Steps(Step, n, V)
  BY <1>4 DEF Steps
<1>6. PICK t : Iterates(t, n, V, v0, Step)
  <2> HIDE DEF Step
  <2> QED
    BY <1>4, <1>5, Recursion
<1>7. t \in [0 .. n -> V] /\ t[0] = v0 /\ \A i \in 1 .. n : t[i] = Step[i][t[i - 1]]
  BY <1>6 DEF Iterates
<1>8. ASSUME NEW s, s[0] = v0,
             \A i \in 1 .. n : Taken(s[i - 1]) \in V => s[i] = Taken(s[i - 1])
      PROVE  \A i \in 0 .. n : Good(s[i], f, recs, i, n, again)
  <2> DEFINE S == {i \in 0 .. n : Good(s[i], f, recs, i, n, again)}
  <2>1. 0 \in S
    BY <1>1, <1>8
  <2>2. ASSUME NEW i \in 0 .. n - 1, i \in S PROVE i + 1 \in S
    <3>1. Good(Taken(s[i]), f, recs, i + 1, n, again)
      BY <1>3, <2>2
    <3>2. Taken(s[i]) \in V
      BY <1>2, <3>1
    <3>3. i + 1 \in 1 .. n /\ (i + 1) - 1 = i /\ i + 1 \in 0 .. n
      OBVIOUS
    <3>4. s[i + 1] = Taken(s[i])
      BY <1>8, <3>2, <3>3
    <3> QED
      BY <3>1, <3>3, <3>4
  <2>3. 0 .. n \subseteq S
    <3> HIDE DEF S
    <3> QED
      BY <2>1, <2>2, SetInduction
  <2> QED
    BY <2>3
<1>9. ASSUME NEW i \in 1 .. n, Taken(t[i - 1]) \in V PROVE t[i] = Taken(t[i - 1])
  <2>1. i - 1 \in 0 .. n
    OBVIOUS
  <2>2. t[i - 1] \in V
    BY <1>7, <2>1
  <2> QED
    BY <1>7, <1>9, <2>2
<1>10. \A i \in 0 .. n : Good(t[i], f, recs, i, n, again)
  BY <1>7, <1>8, <1>9
<1>11. ASSUME NEW i \in 0 .. n PROVE t[i] = IF i = 0 THEN v0 ELSE Taken(t[i - 1])
  <2>1. CASE i = 0
    BY <1>7, <2>1
  <2>2. CASE i # 0
    <3>1. i \in 1 .. n /\ i - 1 \in 0 .. n - 1 /\ i - 1 \in 0 .. n /\ (i - 1) + 1 = i
      BY <2>2
    <3>2. Good(Taken(t[i - 1]), f, recs, i, n, again)
      BY <1>3, <1>10, <3>1
    <3> QED
      BY <1>2, <1>9, <2>2, <3>1, <3>2
  <2> QED
    BY <2>1, <2>2
<1>12. ReadLoop(t, f, recs, n)
  BY <1>7, <1>11 DEF ReadLoop, v0
<1>13. ASSUME NEW taken, ReadLoop(taken, f, recs, n) PROVE Good(taken[n], f, recs, n, n, again)
  <2>1. taken = [i \in 0 .. n |-> IF i = 0 THEN v0 ELSE Taken(taken[i - 1])]
    BY <1>13 DEF ReadLoop, v0
  <2>2. \A i \in 0 .. n : taken[i] = IF i = 0 THEN v0 ELSE Taken(taken[i - 1])
    BY <2>1
  <2>3. taken[0] = v0 /\ \A i \in 1 .. n : taken[i] = Taken(taken[i - 1])
    BY <2>2
  <2>4. \A i \in 0 .. n : Good(taken[i], f, recs, i, n, again)
    BY <1>8, <2>3
  <2> QED
    BY <2>4
<1> QED
  BY <1>12, <1>13

LEMMA FlatIs ==
  ASSUME NEW x, disk[x] \in Seq(Record)
  PROVE  /\ Flat(x) \in Seq(Byte) /\ Len(Flat(x)) = Bytes(disk[x])
         /\ \A i \in 1 .. Bytes(disk[x]) : Flat(x)[i] = At(disk[x], i - 1)
<1> DEFINE recs == disk[x]
           F == Flat(x)
           B == Bytes(recs)
<1>1. B \in Nat
  BY BytesOK
<1>2. F = [i \in 1 .. B |-> recs[(i - 1) \div RecSize + 1][((i - 1) % RecSize) + 1]]
  BY DEF Flat, Size, Bytes
<1>3. F = [i \in 1 .. B |-> At(recs, i - 1)]
  BY <1>2 DEF At
<1> HIDE DEF F, B
<1>4. ASSUME NEW i \in 1 .. B PROVE At(recs, i - 1) \in Byte
  <2> DEFINE k == i - 1
  <2>1. k \in 0 .. Bytes(recs) - 1
    BY <1>1 DEF B
  <2> HIDE DEF k, recs
  <2>2. At(recs, k) \in Byte
    BY <2>1, Position DEF recs
  <2> QED
    BY <2>2 DEF k
<1>5. F \in [1 .. B -> Byte]
  BY <1>3, <1>4
<1>6. F \in Seq(Byte) /\ Len(F) = B
  BY <1>1, <1>5, IsASeq
<1> QED
  BY <1>3, <1>6 DEF F, B

LEMMA ReadIs ==
  ASSUME NEW recs \in Seq(Record), NEW pos \in Nat, NEW n \in Nat, NEW m \in Seq(Byte),
         Moved(m, recs, pos), Len(m) <= n, Len(m) < n => pos + Len(m) >= Bytes(recs),
         NEW F \in Seq(Byte), Len(F) = Bytes(recs), \A i \in 1 .. Bytes(recs) : F[i] = At(recs, i - 1)
  PROVE  m = SubSeq(F, pos + 1, IF pos + n < Len(F) THEN pos + n ELSE Len(F))
<1> DEFINE e == IF pos + n < Len(F) THEN pos + n ELSE Len(F)
           s == SubSeq(F, pos + 1, e)
<1>1. Len(m) \in Nat /\ Len(F) \in Nat /\ e \in Nat /\ e <= Len(F) /\ e <= pos + n
  BY LenProperties
<1>2. \A i \in pos + 1 .. e : i \in 1 .. Len(F) /\ F[i] \in Byte
  <2>1. \A i \in pos + 1 .. e : i \in 1 .. Len(F)
    BY <1>1
  <2> QED
    BY <2>1, ElementOfSeq
<1>3. pos + 1 \in Int /\ e \in Int
  BY <1>1
<1> HIDE DEF e
<1>4. /\ s \in Seq(Byte) /\ Len(s) = IF pos + 1 <= e THEN e - (pos + 1) + 1 ELSE 0
      /\ \A i \in 1 .. e - (pos + 1) + 1 : s[i] = F[(pos + 1) + i - 1]
  BY <1>2, <1>3, SubSeqProperties
<1> HIDE DEF s
<1>5. \A k \in 1 .. Len(m) : pos + k - 1 < Len(F) /\ m[k] = At(recs, pos + k - 1)
  BY DEF Moved
<1>6. Len(s) = Len(m)
  <2>1. CASE Len(m) = 0
    <3>1. ~ (pos + 1 <= e)
      <4>1. CASE n = 0
        BY <1>1, <4>1
      <4>2. CASE n # 0
        <5>1. pos >= Len(F)
          BY <1>1, <2>1, <4>2
        <5> QED
          BY <1>1, <5>1
      <4> QED
        BY <4>1, <4>2
    <3> QED
      BY <1>4, <2>1, <3>1
  <2>2. CASE Len(m) # 0
    <3>1. pos + Len(m) - 1 < Len(F)
      <4>1. Len(m) \in 1 .. Len(m)
        BY <1>1, <2>2
      <4> QED
        BY <1>5, <4>1
    <3>2. e = pos + Len(m)
      <4>1. pos + Len(m) <= Len(F)
        BY <1>1, <3>1
      <4>2. CASE Len(m) = n
        BY <1>1, <4>1, <4>2 DEF e
      <4>3. CASE Len(m) # n
        <5>1. Len(m) < n /\ pos + Len(m) >= Len(F)
          BY <1>1, <4>3
        <5> QED
          BY <1>1, <4>1, <5>1 DEF e
      <4> QED
        BY <4>2, <4>3
    <3> QED
      BY <1>1, <1>4, <2>2, <3>2
  <2> QED
    BY <2>1, <2>2
<1>7. ASSUME NEW k \in 1 .. Len(m) PROVE m[k] = s[k]
  <2>1. k \in 1 .. e - (pos + 1) + 1
    BY <1>1, <1>4, <1>6
  <2>2. s[k] = F[(pos + 1) + k - 1] /\ (pos + 1) + k - 1 = pos + k
    BY <1>1, <1>4, <2>1
  <2>3. pos + k \in 1 .. Bytes(recs) /\ (pos + k) - 1 = pos + k - 1
    BY <1>1, <1>5, SMTT(30)
  <2>4. F[pos + k] = At(recs, pos + k - 1)
    BY <2>3
  <2> QED
    BY <1>5, <2>2, <2>4
<1>8. m = s
  BY <1>4, <1>6, <1>7, SeqEqual
<1> QED
  BY <1>8 DEF s, e

LEMMA Unmoved ==
  ASSUME Kept, NEW x \in DOMAIN disk, disk' = disk, want' = want, broken' = broken, rereads' = rereads
  PROVE  Elsewhere(x) /\ Still(x)
<1>1. DOMAIN disk' = DOMAIN disk \cup {x} /\ disk' \in [DOMAIN disk' -> Seq(Record)] /\ want' \in [Name -> Seq(Byte)]
      /\ broken' \subseteq Name
  BY DEF Kept, Typed
<1> QED
  BY <1>1 DEF Elsewhere, Still

LEMMA ReadOK ==
  ASSUME Disciplined, Kept, NEW fd \in Fd, NEW n \in Nat, Read(fd, n)
  PROVE  Kept' /\ ReadsFile' /\ disk' = disk /\ scan' = scan /\ ret'.op = "read"
<1> DEFINE f == cpmf[fd]
           x == f.name
           recs == disk[x]
           w == want[x]
           taken == CHOOSE t : ReadLoop(t, f, recs, n)
           o == taken[n]
<1>1. /\ f.used /\ ~ f.writing /\ (f.loaded /\ rereads => f.recpos + n <= f.reccnt)
      /\ rereads' = rereads /\ scan' = scan /\ disk' = disk /\ want' = want /\ broken' = broken
  BY Keeping DEF Read, MayRead
<1>2. /\ cpmf' = [cpmf EXCEPT ![fd] = MovedTo(o.f, o.f.pos + Len(o.moved))]
      /\ Returns("read", x, <<f.pos, n>>, o.moved)
  BY DEF Read, ReadLoop, MovedTo
<1>3. ret'.op = "read" /\ ret'.name = x /\ ret'.at = <<f.pos, n>> /\ ret'.r = o.moved
  <2> HIDE DEF x, f, o
  <2> QED
    BY <1>2 DEF Returns
<1>4. /\ f \in Descriptor /\ x \in Name /\ x \in DOMAIN disk /\ recs \in Seq(Record)
      /\ DescOK(f, recs, w, x \in broken, rereads) /\ NoWriter(x, fd) /\ rereads \in BOOLEAN
  BY <1>1, UsedOK DEF Kept, Typed
<1>5. Reader(f, recs, rereads)
  BY <1>1, <1>4 DEF DescOK
<1>6. Good(o, f, recs, n, n, rereads)
  <2>1. ReadLoop(taken, f, recs, n)
    <3> HIDE DEF f, recs
    <3>1. \E t : ReadLoop(t, f, recs, n)
      BY <1>1, <1>4, <1>5, ReadLoopOK
    <3> QED
      BY <3>1
  <2> HIDE DEF f, recs, taken
  <2> QED
    BY <1>1, <1>4, <1>5, <2>1, ReadLoopOK
<1> HIDE DEF f, recs, w, o
<1>7. PICK h, m : o = Out(h, recs, m) /\ SoFar(h, m, f, recs, n, n, rereads)
  BY <1>6 DEF Good
<1>8. o.f = h /\ o.moved = m
  BY <1>7 DEF Out
<1>9. /\ h \in Descriptor /\ m \in Seq(Byte) /\ Same(f, h) /\ Len(m) <= n /\ Moved(m, recs, f.pos)
      /\ Len(m) < n => f.pos + Len(m) >= Bytes(recs)
      /\ ReaderAt(h, f.pos + Len(m), recs, rereads)
  BY <1>7 DEF SoFar
<1>10. h.name = x /\ h.writing = FALSE /\ h.pos = f.pos /\ f.pos \in Nat /\ Len(m) \in Nat
  <2>1. h.writing = f.writing /\ f.writing \in BOOLEAN
    BY <1>4, <1>9, Flags DEF Same
  <2> QED
    BY <1>1, <1>4, <1>9, <2>1, Fields, LenProperties DEF Same
<1> DEFINE q == f.pos + Len(m)
           g == MovedTo(h, q)
<1>11. q \in Nat /\ cpmf' = [cpmf EXCEPT ![fd] = g]
  BY <1>2, <1>8, <1>10
<1>12. Moves(h, g, q)
  <2> HIDE DEF q
  <2> QED
    BY <1>9, <1>11, MovedOK
<1> HIDE DEF g
<1>13. /\ g \in Descriptor /\ g.used = TRUE /\ g.name = x /\ g.writing = FALSE
  BY <1>10, <1>12 DEF Moves
<1>14. Reader(g, recs, rereads)
  <2>1. g.failed = h.failed /\ g.pos = q /\ g.cr = h.cr /\ g.recpos = h.recpos /\ g.rec = h.rec
        /\ g.reccnt = h.reccnt /\ g.eof = h.eof /\ g.loaded = h.loaded
    BY <1>12 DEF Moves
  <2>2. ReaderAt(h, q, recs, rereads)
    BY <1>9
  <2> HIDE DEF q
  <2> QED
    BY <2>1, <2>2 DEF Reader, ReaderAt
<1>15. Kept'
  <2>1. Sets(fd, g)
    BY <1>11, <1>13, SetsOK DEF Kept
  <2>2. Elsewhere(x) /\ Still(x)
    BY <1>1, <1>4, Unmoved
  <2>3. cpmf[fd].used => cpmf[fd].name = x
    BY DEF x, f
  <2>4. DescOK(g, disk'[x], want'[x], x \in broken', rereads)
    BY <1>1, <1>13, <1>14 DEF DescOK, recs
  <2>5. ~ (g.used /\ g.writing) /\ ~ (cpmf[fd].used /\ cpmf[fd].writing)
    BY <1>1, <1>13 DEF f
  <2> HIDE DEF x
  <2> QED
    BY <1>4, <1>13, <2>1, <2>2, <2>3, <2>4, <2>5, DescriptorStep
<1>16. ReadsFile'
  <2> DEFINE F == Flat(x)
  <2>1. /\ F \in Seq(Byte) /\ Len(F) = Bytes(recs)
        /\ \A i \in 1 .. Bytes(recs) : F[i] = At(recs, i - 1)
    BY <1>4, FlatIs DEF recs
  <2>2. m = SubSeq(F, f.pos + 1, IF f.pos + n < Len(F) THEN f.pos + n ELSE Len(F))
    <3> HIDE DEF F
    <3> QED
      BY <1>4, <1>9, <1>10, <2>1, ReadIs
  <2>3. ret'.at[1] = f.pos /\ ret'.at[2] = n /\ ret'.r = m /\ ret'.name = x
    <3>1. <<f.pos, n>>[1] = f.pos /\ <<f.pos, n>>[2] = n
      OBVIOUS
    <3> HIDE DEF x
    <3>2. ret'.at[1] = <<f.pos, n>>[1] /\ ret'.at[2] = <<f.pos, n>>[2]
      BY <1>3
    <3> QED
      BY <1>3, <1>8, <3>1, <3>2
  <2>4. Flat(ret.name)' = F
    BY <1>1, <2>3 DEF Flat, Size
  <2> HIDE DEF F, x
  <2> QED
    BY <2>2, <2>3, <2>4 DEF ReadsFile
<1> QED
  BY <1>1, <1>3, <1>15, <1>16
-----------------------------------------------------------------------------
(* sys_seek: a record of a reader loaded; a writer stays where it is.      *)
LEMMA Unchanged ==
  ASSUME Kept, disk' = disk, cpmf' = cpmf, rereads' = rereads, want' = want, broken' = broken
  PROVE  Kept'
<1>1. Typed'
  BY DEF Kept, Typed
<1>2. Placed' /\ OneWriter'
  BY DEF Kept, Placed, OneWriter
<1>3. FilesOK'
  BY DEF Kept, FilesOK, Written
<1> QED
  BY <1>1, <1>2, <1>3 DEF Kept

(* The descriptor moves, its file and the others do not.                   *)
LEMMA ReaderStep ==
  ASSUME Kept, NEW fd \in Fd, cpmf[fd].used, ~ cpmf[fd].writing, NEW g \in Descriptor,
         g.name = cpmf[fd].name, g.writing = FALSE, cpmf' = [cpmf EXCEPT ![fd] = g],
         disk' = disk, rereads' = rereads, want' = want, broken' = broken,
         Reader(g, disk[g.name], rereads)
  PROVE  Kept'
<1> DEFINE x == cpmf[fd].name
<1>1. x \in Name /\ x \in DOMAIN disk /\ NoWriter(x, fd)
  BY UsedOK
<1>2. Sets(fd, g)
  BY SetsOK DEF Kept
<1>3. Elsewhere(x) /\ Still(x)
  BY <1>1, Unmoved
<1>4. DescOK(g, disk'[x], want'[x], x \in broken', rereads)
  BY DEF DescOK
<1>5. (cpmf[fd].used => cpmf[fd].name = x) /\ g.name = x
  OBVIOUS
<1> HIDE DEF x
<1> QED
  BY <1>1, <1>2, <1>3, <1>4, <1>5, DescriptorStep

Landed(f, recs, target) == Loaded(Out(f, recs, << >>), target)

LEMMA LandedOK ==
  ASSUME NEW f \in Descriptor, NEW recs \in Seq(Record), rereads \in BOOLEAN,
         NEW target \in Nat, ~ f.failed, target = f.pos => Reader(f, recs, rereads)
  PROVE  /\ Landed(f, recs, target) \in Descriptor /\ Landed(f, recs, target).name = f.name
         /\ Landed(f, recs, target).writing = f.writing
         /\ Reader(Landed(f, recs, target), recs, rereads)
<1> DEFINE r == target \div RecSize
           j == target % RecSize
           e == Landed(f, recs, target)
           a == [f EXCEPT !.eof = FALSE, !.pos = target]
           g == AfterRecord([a EXCEPT !.rec = recs[r + 1], !.reccnt = RecSize, !.recpos = j,
                                      !.loaded = TRUE], r)
           h == AtRecord([a EXCEPT !.reccnt = 0, !.recpos = 0], r)
<1>1. r \in Nat /\ j \in 0 .. RecSize - 1 /\ target = r * RecSize + j
  BY Constants, Divided
<1>2. e = IF target = f.pos THEN f ELSE IF r < Len(recs) THEN g ELSE h
  BY DEF Landed, Loaded, LoadedAt, Out
<1>3. Extent(r) \in Nat
  BY <1>1, ExtentOK
<1>4. Len(recs) \in Nat /\ \A k \in 1 .. Len(recs) : recs[k] \in Record
  BY BytesOK
<1> HIDE DEF r, j, e
<1>5. CASE target = f.pos
  BY <1>2, <1>5 DEF e
<1>6. CASE target # f.pos /\ r < Len(recs)
  <2>1. /\ g.rec = recs[r + 1] /\ g.cr = After(r) /\ g.reccnt = RecSize /\ g.recpos = j
        /\ g.pos = target /\ g.name = f.name
    BY DEF Descriptor, AfterRecord
  <2>2. g.loaded = TRUE /\ g.eof = FALSE /\ g.writing = f.writing /\ g.failed = f.failed
    BY DEF Descriptor, AfterRecord
  <2>3. After(r) \in Nat /\ (~ rereads => After(r) = r + 1)
    BY <1>1 DEF After
  <2>4. g \in Descriptor
    <3>1. recs[r + 1] \in Record /\ j \in 0 .. RecSize /\ RecSize \in {0, RecSize}
      BY <1>1, <1>4, <1>6, Constants
    <3> QED
      BY <1>3, <2>3, <3>1 DEF Descriptor, AfterRecord
  <2> HIDE DEF g
  <2>5. \E k \in 0 .. Len(recs) - 1 :
          /\ g.pos = k * RecSize + g.recpos /\ g.rec = recs[k + 1]
          /\ ~ g.eof /\ ~ (g.loaded /\ rereads) => g.cr = k + 1
    <3>1. r \in 0 .. Len(recs) - 1
      BY <1>1, <1>4, <1>6
    <3> QED
      BY <1>1, <2>1, <2>2, <2>3, <3>1
  <2>6. Reader(g, recs, rereads)
    <3>1. g.recpos <= g.reccnt /\ g.reccnt # 0
      BY <1>1, <2>1, Constants
    <3> QED
      BY <2>2, <2>5, <3>1 DEF Reader, ReaderAt
  <2> QED
    BY <1>2, <1>6, <2>1, <2>2, <2>4, <2>6 DEF e
<1>7. CASE target # f.pos /\ ~ (r < Len(recs))
  <2>1. h.cr = r /\ h.reccnt = 0 /\ h.recpos = 0 /\ h.pos = target /\ h.name = f.name
    BY DEF Descriptor, AtRecord
  <2>2. h.eof = FALSE /\ h.writing = f.writing /\ h.failed = f.failed
    BY DEF Descriptor, AtRecord
  <2>3. h \in Descriptor
    <3>1. 0 \in 0 .. RecSize /\ 0 \in {0, RecSize}
      BY Constants
    <3> QED
      BY <1>1, <1>3, <3>1 DEF Descriptor, AtRecord
  <2> HIDE DEF h
  <2>4. target >= Bytes(recs) /\ r >= Len(recs)
    <3>1. Len(recs) <= r
      BY <1>1, <1>4, <1>7
    <3>2. Len(recs) * RecSize <= r * RecSize /\ r * RecSize \in Nat /\ Len(recs) * RecSize \in Nat
      BY <1>1, <1>4, <3>1, Constants, TimesMono
    <3> QED
      BY <1>1, <1>4, <3>1, <3>2, Constants DEF Bytes
  <2>5. Reader(h, recs, rereads)
    <3>1. h.recpos <= h.reccnt /\ h.reccnt # RecSize
      BY <2>1, Constants
    <3> QED
      BY <2>1, <2>2, <2>4, <3>1 DEF Reader, ReaderAt
  <2> QED
    BY <1>2, <1>7, <2>1, <2>2, <2>3, <2>5 DEF e
<1> QED
  BY <1>5, <1>6, <1>7

(* F_SIZE leaves the current record of the FCB where a client without      *)
(* liberties finds it again, or moves from.                                *)
LEMMA RewoundOK ==
  ASSUME NEW f \in Descriptor, NEW whence
  PROVE  LET g == Rewound(f, whence)
         IN  /\ g \in Descriptor /\ g.name = f.name /\ g.writing = f.writing /\ g.failed = f.failed
             /\ g.recpos = f.recpos /\ g.pos = f.pos
             /\ whence # "END" \/ f.cr = ExtRecs * f.ex => g = f
<1> DEFINE cr == ExtRecs * f.ex
           g == [f EXCEPT !.cr = cr]
<1>1. cr \in Nat
  <2>1. ExtRecs \in Nat \ {0} /\ f.ex \in Nat
    BY CpmAssumption, Fields
  <2>2. f.ex * ExtRecs \in Nat /\ ExtRecs * f.ex = f.ex * ExtRecs
    BY <2>1, TimesMono
  <2> QED
    BY <2>2
<1>2. Rewound(f, whence) = IF whence = "END" THEN g ELSE f
  BY DEF Rewound
<1> HIDE DEF cr
<1>3. g \in Descriptor /\ g.name = f.name /\ g.recpos = f.recpos /\ g.pos = f.pos
  BY <1>1 DEF Descriptor
<1>4. g.writing = f.writing /\ g.failed = f.failed
  BY DEF Descriptor
<1>5. f.cr = cr => g = f
  BY DEF Descriptor
<1> HIDE DEF g
<1> QED
  BY <1>2, <1>3, <1>4, <1>5 DEF cr

LEMMA WithSame ==
  ASSUME Kept, NEW x \in DOMAIN disk
  PROVE  With(x, disk[x]) = disk
<1>1. disk = [n \in DOMAIN disk |-> disk[n]]
  BY DEF Kept, Typed
<1>2. With(x, disk[x]) = [n \in DOMAIN disk |-> disk[n]]
  BY DEF With
<1> QED
  BY <1>1, <1>2

LEMMA SeekOK ==
  ASSUME Disciplined, Kept, NEW fd \in Fd, NEW off \in Int, NEW whence \in {"SET", "CUR", "END"},
         Seek(fd, off, whence)
  PROVE  Kept' /\ disk' = disk /\ scan' = scan /\ ret'.op = "none"
<1> DEFINE f == cpmf[fd]
           x == f.name
           recs == disk[x]
           target == Target(f, off, whence)
           h == Rewound(f, whence)
           g == Loaded(Out(h, recs, << >>), target)
<1>1. /\ f.used /\ ~ f.failed /\ (f.writing => f.recpos = 0 /\ target = f.pos)
      /\ whence # "END" \/ f.cr = ExtRecs * f.ex \/ (0 <= target /\ target # f.pos)
      /\ rereads' = rereads /\ scan' = scan /\ want' = want
      /\ IF target < 0
         THEN /\ cpmf' = [cpmf EXCEPT ![fd] = h] /\ Done(-1)
              /\ UNCHANGED <<disk, broken>>
         ELSE /\ \E o \in Persisted(h) :
                   /\ cpmf' = [cpmf EXCEPT ![fd] = Loaded(o, target)]
                   /\ disk' = With(x, o.recs)
                   /\ broken' = Unwritten(f, o)
              /\ Done(0)
  BY Keeping DEF Seek, MaySeek
<1>2. /\ f \in Descriptor /\ x \in DOMAIN disk /\ recs \in Seq(Record)
      /\ DescOK(f, recs, want[x], x \in broken, rereads) /\ rereads \in BOOLEAN
  BY <1>1, UsedOK DEF Kept, Typed
<1>3. target \in Int
  <2>1. f.pos \in Int /\ Len(recs) * RecSize \in Int
    BY <1>2, Fields, BytesOK DEF Bytes
  <2> HIDE DEF f
  <2> QED
    BY <2>1 DEF Target, Size
<1>4. /\ h \in Descriptor /\ h.name = x /\ h.writing = f.writing /\ ~ h.failed /\ h.recpos = f.recpos
      /\ h.pos = f.pos
      /\ whence # "END" \/ f.cr = ExtRecs * f.ex => h = f
  <2> HIDE DEF f
  <2> QED
    BY <1>1, <1>2, RewoundOK
<1> HIDE DEF h
<1>5. Persisted(h) = {Out(h, recs, << >>)} /\ ~ Flushes(f)
  <2>1. ~ Flushes(h) /\ ~ Flushes(f)
    BY <1>1, <1>2, <1>4, Fields DEF Flushes
  <2> QED
    BY <1>4, <2>1 DEF Persisted
<1>6. ret'.op = "none"
  BY <1>1, DoneOK
<1>7. CASE target < 0
  <2>1. disk' = disk /\ broken' = broken /\ cpmf' = [cpmf EXCEPT ![fd] = h]
    BY <1>1, <1>7
  <2>2. h = f
    BY <1>1, <1>3, <1>4, <1>7
  <2>3. cpmf' = cpmf
    BY <2>1, <2>2 DEF Kept, Typed
  <2> QED
    BY <1>1, <1>6, <2>1, <2>3, Unchanged
<1>8. CASE ~ (target < 0)
  <2>1. /\ cpmf' = [cpmf EXCEPT ![fd] = g] /\ disk' = With(x, recs) /\ broken' = broken
    <3> DEFINE o == Out(h, recs, << >>)
    <3>1. /\ cpmf' = [cpmf EXCEPT ![fd] = Loaded(o, target)] /\ disk' = With(x, o.recs)
          /\ broken' = Unwritten(f, o)
      BY <1>1, <1>5, <1>8
    <3>2. o.recs = recs
      BY DEF Out
    <3>3. Unwritten(f, o) = broken
      BY <1>5 DEF Unwritten
    <3> QED
      BY <3>1, <3>2, <3>3
  <2>2. disk' = disk
    BY <1>2, <2>1, WithSame
  <2>3. g = Landed(h, recs, target) /\ (target = f.pos => g = h)
    BY <1>4 DEF Landed, Loaded, LoadedAt, Out
  <2>4. CASE f.writing
    <3>1. g = f
      BY <1>1, <1>4, <2>3, <2>4
    <3>2. cpmf' = cpmf
      BY <2>1, <3>1 DEF Kept, Typed
    <3> QED
      BY <1>1, <1>6, <2>1, <2>2, <3>2, Unchanged
  <2>5. CASE ~ f.writing
    <3>1. Reader(f, recs, rereads) /\ target \in Nat
      BY <1>2, <1>3, <1>8, <2>5 DEF DescOK
    <3>2. target = h.pos => Reader(h, recs, rereads)
      BY <1>1, <1>4, <3>1
    <3>3. g \in Descriptor /\ g.name = x /\ g.writing = h.writing /\ Reader(g, recs, rereads)
      <4> HIDE DEF f, x, recs, target, g
      <4> QED
        BY <1>2, <1>4, <2>3, <3>1, <3>2, LandedOK
    <3>4. g.writing = FALSE
      BY <1>2, <1>4, <2>5, <3>3, Flags
    <3> HIDE DEF g
    <3>5. Kept'
      BY <1>1, <2>1, <2>2, <2>5, <3>3, <3>4, ReaderStep
    <3> QED
      BY <1>1, <1>6, <2>2, <3>5
  <2> QED
    BY <2>4, <2>5
<1> QED
  BY <1>7, <1>8
-----------------------------------------------------------------------------
(* sys_fdsize, which takes the padding off the last record of the extent.  *)
LEMMA CountedOK ==
  ASSUME NEW recs \in Seq(Record), Len(recs) <= ExtRecs
  PROVE  Counted(0, recs) = Len(recs)
<1>1. Len(recs) \in Nat /\ ExtRecs \in Nat \ {0} /\ 0 % ExtMod = 0
  BY BytesOK, ExtentOK
<1>2. ExtRecs * 0 = 0
  BY <1>1
<1>3. InExtent(recs, 0) = Len(recs)
  BY <1>1, <1>2 DEF InExtent
<1>4. Counted(0, recs) = ExtRecs * 0 + Len(recs)
  BY <1>1, <1>3 DEF Counted
<1> QED
  BY <1>1, <1>2, <1>4

LEMMA SizeOK ==
  ASSUME NEW recs \in Seq(Record), NEW w \in Seq(Byte), FileOK(recs, w), Len(recs) <= ExtRecs,
         w # << >>, Last(w) # SUB
  PROVE  FdSize(0, recs) = Len(w)
<1> DEFINE B == Bytes(recs)
           R == Len(recs)
           q == RecSize * (R - 1)
           k == Len(w) - q
           rec == recs[R]
<1>1. /\ R \in Nat /\ B \in Nat /\ Len(w) \in Nat /\ Len(w) # 0
      /\ Len(w) <= B /\ B < Len(w) + RecSize
      /\ \A i \in 0 .. B - 1 : At(recs, i) = IF i < Len(w) THEN w[i + 1] ELSE SUB
  <2>1. Len(w) \in Nat /\ Len(w) # 0
    BY LenProperties, EmptySeq
  <2> QED
    BY <2>1, BytesOK DEF FileOK
<1> HIDE DEF B
<1>2. R # 0
  <2>1. R = 0 => B = 0
    BY Constants DEF B, Bytes
  <2> QED
    BY <1>1, <2>1
<1>3. R - 1 \in Nat /\ R - 1 \in 0 .. R - 1 /\ q \in Nat /\ B = q + RecSize
  <2> DEFINE r == R - 1
  <2>1. r \in Nat /\ R = r + 1 /\ r \in 0 .. R - 1
    BY <1>1, <1>2
  <2> HIDE DEF r
  <2>2. r * RecSize \in Nat /\ (r + 1) * RecSize = r * RecSize + RecSize /\ RecSize * r = r * RecSize
    BY <2>1, Constants, TimesMono
  <2> QED
    BY <2>1, <2>2 DEF r, B, Bytes
<1> HIDE DEF q
<1>4. k \in 1 .. RecSize
  BY <1>1, <1>3, Constants
<1>5. ASSUME NEW j \in 1 .. RecSize
      PROVE  rec[j] = IF j <= k THEN w[q + j] ELSE SUB
  <2> DEFINE i == j - 1
             r == R - 1
  <2>1. i \in 0 .. RecSize - 1 /\ r \in 0 .. R - 1 /\ i + 1 = j /\ r + 1 = R
    BY <1>1, <1>3, Constants
  <2>2. r * RecSize = q
    <3>1. r \in Int /\ RecSize \in Int /\ q = RecSize * r
      BY <1>1, Constants DEF q
    <3> HIDE DEF r
    <3> QED
      BY <3>1
  <2> HIDE DEF i, r
  <2>3. r * RecSize + i \in 0 .. B - 1 /\ At(recs, r * RecSize + i) = recs[r + 1][i + 1]
    BY <2>1, ByteOf DEF B
  <2>4. q + i \in 0 .. B - 1 /\ At(recs, q + i) = rec[j]
    BY <2>1, <2>2, <2>3
  <2>5. rec[j] = IF q + i < Len(w) THEN w[(q + i) + 1] ELSE SUB
    BY <1>1, <2>4
  <2>6. (q + i) + 1 = q + j /\ (q + i < Len(w) <=> j <= k)
    BY <1>1, <1>3, <2>1, Constants
  <2> QED
    BY <2>5, <2>6
<1>6. rec[k] # SUB
  <2>1. q + k = Len(w)
    BY <1>1, <1>3
  <2>2. rec[k] = w[q + k]
    BY <1>4, <1>5
  <2> QED
    BY <2>1, <2>2 DEF Last
<1>7. Trimmed(rec) = k
  <2> DEFINE data == {i \in 1 .. RecSize : rec[i] # SUB}
  <2>1. k \in data
    BY <1>4, <1>6
  <2>2. \A j \in data : j <= k
    BY <1>5
  <2>3. data # {} /\ data \in SUBSET Nat
    BY <2>1
  <2>4. Trimmed(rec) = CHOOSE i \in data : \A j \in data : j <= i
    BY <2>1 DEF Trimmed
  <2> HIDE DEF data
  <2>5. \A i \in data : (\A j \in data : j <= i) => i = k
    <3> SUFFICES ASSUME NEW i \in data, \A j \in data : j <= i PROVE i = k
      OBVIOUS
    <3>1. i <= k /\ k <= i /\ i \in Nat /\ k \in Nat
      BY <2>1, <2>2, <2>3
    <3> QED
      BY <3>1
  <2> QED
    BY <2>1, <2>2, <2>4, <2>5
<1>8. FdSize(0, recs) = q + Trimmed(rec)
  <2>1. Counted(0, recs) = R
    BY CountedOK
  <2>2. R <= Len(recs)
    BY <1>1
  <2> QED
    BY <1>2, <2>1, <2>2 DEF FdSize, q
<1> QED
  BY <1>1, <1>3, <1>7, <1>8

(* The size of a file no descriptor writes.                                *)
LEMMA FdSizeIs ==
  ASSUME Kept, NEW x \in DOMAIN disk, x \notin broken, \A i \in Fd : Uses(cpmf[i], x) => ~ cpmf[i].writing,
         want[x] # << >>, Last(want[x]) # SUB, Size(x) <= ExtRecs
  PROVE  FdSize(0, disk[x]) = Len(want[x])
<1> DEFINE w == want[x]
<1>1. ~ Written(x)
  BY DEF Written
<1>2. FileOK(disk[x], w)
  BY <1>1 DEF Kept, FilesOK
<1>3. disk[x] \in Seq(Record) /\ w \in Seq(Byte)
  BY DEF Kept, Typed
<1> DEFINE recs == disk[x]
<1>4. w # << >> /\ Last(w) # SUB /\ Len(recs) <= ExtRecs
  BY DEF Size
<1> HIDE DEF w, recs
<1>5. FdSize(0, recs) = Len(w)
  BY <1>2, <1>3, <1>4, SizeOK DEF recs
<1> QED
  BY <1>5 DEF w, recs

(* sys_fdsize leaves the FCB at the last record of the extent.             *)
LEMMA SizedOK ==
  ASSUME NEW f \in Descriptor, NEW recs \in Seq(Record), rereads \in BOOLEAN,
         ~ f.writing, f.eof, Reader(f, recs, rereads)
  PROVE  LET g == Sized(f, recs)
         IN  g \in Descriptor /\ g.name = f.name /\ g.writing = FALSE /\ Reader(g, recs, rereads)
<1> DEFINE n == Counted(f.ex, recs)
           r == n - 1
           e == Extent(r)
<1>1. n \in Nat
  <2> DEFINE m == f.ex % ExtMod
             rest == Len(recs) - ExtRecs * f.ex
  <2>1. ExtRecs \in Nat \ {0} /\ ExtMod \in Nat \ {0} /\ f.ex \in Nat
    BY CpmAssumption, Fields
  <2>2. m \in Nat
    BY <2>1, Divided
  <2>3. m * ExtRecs \in Nat /\ f.ex * ExtRecs \in Nat
    <3> HIDE DEF m
    <3> QED
      BY <2>1, <2>2, TimesMono
  <2>4. rest \in Int
    <3>1. ExtRecs * f.ex = f.ex * ExtRecs /\ Len(recs) \in Nat
      BY <2>1, BytesOK
    <3> QED
      BY <2>3, <3>1
  <2>5. InExtent(recs, f.ex) = IF rest < 0 THEN 0 ELSE IF rest < ExtRecs THEN rest ELSE ExtRecs
    BY DEF InExtent
  <2> HIDE DEF m, rest
  <2>6. InExtent(recs, f.ex) \in Nat
    BY <2>1, <2>4, <2>5
  <2>7. n = ExtRecs * m + InExtent(recs, f.ex) /\ ExtRecs * m = m * ExtRecs
    BY <2>1, <2>2 DEF Counted, m
  <2> QED
    BY <2>3, <2>6, <2>7
<1> DEFINE A == AfterRecord(f, r)
           B == AtRecord(f, r)
<1>2. Sized(f, recs) = IF n = 0 THEN f ELSE IF n <= Len(recs) THEN A ELSE B
  BY DEF Sized
<1> HIDE DEF n
<1>3. ASSUME n # 0 PROVE r \in Nat /\ e \in Nat /\ After(r) \in Nat
  <2>1. r \in Nat
    BY <1>1, <1>3
  <2> HIDE DEF r
  <2> QED
    BY <2>1, ExtentOK DEF After
<1> HIDE DEF r, e
<1>4. ASSUME NEW x \in Nat, NEW c \in Nat, NEW g, g = [f EXCEPT !.ex = x, !.cr = c]
      PROVE  g \in Descriptor /\ g.name = f.name /\ g.writing = FALSE /\ Reader(g, recs, rereads)
  <2>1. g \in Descriptor /\ g.name = f.name /\ g.rec = f.rec
    BY <1>4 DEF Descriptor
  <2>2. g.recpos = f.recpos /\ g.reccnt = f.reccnt /\ g.pos = f.pos
    BY <1>4 DEF Descriptor
  <2>3. g.eof = f.eof /\ g.writing = f.writing /\ g.failed = f.failed
    BY <1>4 DEF Descriptor
  <2>4. Reader(g, recs, rereads)
    BY <2>1, <2>2, <2>3 DEF Reader, ReaderAt
  <2> QED
    BY <2>1, <2>3, <2>4, Flags
<1>5. CASE n = 0
  BY <1>2, <1>5, Flags
<1>6. CASE n # 0 /\ n <= Len(recs)
  <2>1. A = [f EXCEPT !.ex = e, !.cr = After(r)]
    BY DEF AfterRecord, e
  <2> HIDE DEF A
  <2> QED
    BY <1>2, <1>3, <1>4, <1>6, <2>1
<1>7. CASE n # 0 /\ ~ (n <= Len(recs))
  <2>1. B = [f EXCEPT !.ex = e, !.cr = r]
    BY DEF AtRecord, e
  <2> HIDE DEF B
  <2> QED
    BY <1>2, <1>3, <1>4, <1>7, <2>1
<1> QED
  BY <1>5, <1>6, <1>7

LEMMA FstatOK ==
  ASSUME Disciplined, Kept, NEW fd \in Fd, Fstat(fd)
  PROVE  Kept' /\ ExactSize' /\ disk' = disk /\ scan' = scan /\ ret'.op = "stat"
<1> DEFINE f == cpmf[fd]
           x == f.name
           recs == disk[x]
           o == Out(f, recs, << >>)
           g == Sized(f, recs)
<1>1. /\ f.used /\ ~ f.writing /\ f.eof /\ (f.ex = 0 \/ ExtRecs * f.ex < Size(x))
      /\ rereads' = rereads /\ scan' = scan /\ want' = want
      /\ \E p \in Persisted(f) :
           /\ cpmf' = [cpmf EXCEPT ![fd] = Sized(p.f, p.recs)]
           /\ disk' = With(x, p.recs)
           /\ broken' = Unwritten(f, p)
           /\ Returns("stat", x, f.pos, FdSize(p.f.ex, p.recs))
  BY Keeping DEF Fstat, MayFstat
<1>2. /\ f \in Descriptor /\ x \in Name /\ x \in DOMAIN disk /\ recs \in Seq(Record)
      /\ DescOK(f, recs, want[x], x \in broken, rereads) /\ NoWriter(x, fd)
  BY <1>1, UsedOK
<1>3. Persisted(f) = {o} /\ ~ Flushes(f)
  <2>1. ~ Flushes(f)
    BY <1>1 DEF Flushes
  <2> QED
    BY <2>1 DEF Persisted
<1>4. /\ cpmf' = [cpmf EXCEPT ![fd] = g] /\ disk' = With(x, recs) /\ broken' = broken
      /\ Returns("stat", x, f.pos, FdSize(f.ex, recs))
  <2>1. /\ cpmf' = [cpmf EXCEPT ![fd] = Sized(o.f, o.recs)] /\ disk' = With(x, o.recs)
        /\ broken' = Unwritten(f, o) /\ Returns("stat", x, f.pos, FdSize(o.f.ex, o.recs))
    BY <1>1, <1>3
  <2>2. o.f = f /\ o.recs = recs
    BY DEF Out
  <2>3. Unwritten(f, o) = broken
    BY <1>3 DEF Unwritten
  <2> QED
    BY <2>1, <2>2, <2>3
<1>5. disk' = disk
  BY <1>2, <1>4, WithSame
<1>6. ret'.op = "stat" /\ ret'.name = x /\ ret'.r = FdSize(f.ex, recs)
  <2> HIDE DEF f, x, g, recs
  <2> QED
    BY <1>4 DEF Returns
<1>7. Kept'
  <2>1. Reader(f, recs, rereads) /\ rereads \in BOOLEAN
    BY <1>1, <1>2 DEF DescOK, Kept, Typed
  <2>2. g \in Descriptor /\ g.name = x /\ g.writing = FALSE /\ Reader(g, recs, rereads)
    <3> HIDE DEF f, recs
    <3> QED
      BY <1>1, <1>2, <2>1, SizedOK DEF x
  <2> HIDE DEF g
  <2> QED
    BY <1>1, <1>4, <1>5, <2>2, ReaderStep
<1>8. ASSUME Size(x) <= ExtRecs PROVE f.ex = 0
  <2> DEFINE e == f.ex
             R == Len(recs)
  <2>1. e \in Nat /\ R \in Nat /\ ExtRecs \in Nat \ {0} /\ (e = 0 \/ ExtRecs * e < R) /\ R <= ExtRecs
    BY <1>1, <1>2, <1>8, CpmAssumption, Fields, BytesOK DEF Size
  <2> HIDE DEF e, R
  <2>2. 1 <= e => 1 * ExtRecs <= e * ExtRecs
    <3>1. 1 \in Nat
      OBVIOUS
    <3> QED
      BY <2>1, <3>1, TimesMono
  <2>3. ExtRecs * e = e * ExtRecs /\ 1 * ExtRecs = ExtRecs /\ e * ExtRecs \in Nat
    <3>1. e * ExtRecs \in Nat
      BY <2>1, TimesMono
    <3> QED
      BY <2>1, <3>1
  <2>4. e = 0
    BY <2>1, <2>2, <2>3
  <2> QED
    BY <2>4 DEF e
<1>9. ExactSize'
  <2> SUFFICES ASSUME x \notin broken, want[x] # << >>, Last(want[x]) # SUB, Size(x) <= ExtRecs
               PROVE  FdSize(f.ex, recs) = Len(want[x])
    <3> HIDE DEF x, f, recs
    <3> QED
      BY <1>1, <1>4, <1>5, <1>6 DEF ExactSize, Size
  <2>1. \A i \in Fd : Uses(cpmf[i], x) => ~ cpmf[i].writing
    BY <1>1, <1>2 DEF NoWriter
  <2>2. FdSize(0, disk[x]) = Len(want[x])
    <3> HIDE DEF x, f
    <3> QED
      BY <1>2, <2>1, FdSizeIs
  <2> QED
    BY <1>8, <2>2
<1> QED
  BY <1>1, <1>5, <1>6, <1>7, <1>9

LEMMA StatOK ==
  ASSUME Kept, NEW x \in Name, Stat(x)
  PROVE  Kept' /\ ExactSize' /\ disk' = disk /\ ret'.op = "stat" /\ TakenOver /\ ~ scan.on
<1>1. /\ ~ scan.on /\ TakenOver
      /\ \A i \in Fd : cpmf[i].used /\ cpmf[i].name = x => ~ cpmf[i].writing
      /\ disk' = disk /\ cpmf' = cpmf /\ rereads' = rereads /\ want' = want /\ broken' = broken
      /\ IF x \notin DOMAIN disk THEN Returns("stat", x, 0, -1)
         ELSE IF Slots # {} THEN Returns("stat", x, 0, FdSize(0, disk[x]))
         ELSE \E e \in Reported(Entries({x})) : Returns("stat", x, 0, EntrySize(e))
  BY DEF Stat, MayLookUp
<1>2. /\ ret'.op = "stat" /\ ret'.name = x
      /\ x \in DOMAIN disk /\ Slots # {} => ret'.r = FdSize(0, disk[x])
  BY <1>1 DEF Returns
<1>3. Kept'
  BY <1>1, Unchanged
<1>4. ExactSize'
  <2> SUFFICES ASSUME x \in DOMAIN disk, x \notin broken, Slots # {}, want[x] # << >>, Last(want[x]) # SUB,
                      Size(x) <= ExtRecs
               PROVE  FdSize(0, disk[x]) = Len(want[x])
    BY <1>1, <1>2 DEF ExactSize, Slots, Size
  <2>1. \A i \in Fd : Uses(cpmf[i], x) => ~ cpmf[i].writing
    BY <1>1 DEF Uses
  <2> QED
    BY <2>1, FdSizeIs
<1> QED
  BY <1>1, <1>2, <1>3, <1>4
-----------------------------------------------------------------------------
(* sys_open, sys_creat and the calls on the directory.                     *)
LEMMA SlotIs ==
  ASSUME Slots # {}
  PROVE  AllocSlot \in Fd /\ ~ cpmf[AllocSlot].used
<1>1. Slots \in SUBSET Nat
  BY DEF Slots, Fd
<1>2. \E i \in Slots : \A j \in Slots : i <= j
  BY <1>1, LeastNat
<1>3. AllocSlot \in Slots
  BY <1>2 DEF AllocSlot
<1> QED
  BY <1>3 DEF Slots

LEMMA OpenedOK ==
  ASSUME NEW x \in Name, NEW writing \in BOOLEAN
  PROVE  LET g == Opened(x, writing)
         IN  /\ g \in Descriptor /\ g.name = x /\ g.used = TRUE /\ g.writing = writing
             /\ \A recs \in Seq(Record) : \A again : Reader(g, recs, again)
             /\ Writer(g, << >>, << >>, FALSE)
<1> DEFINE g == Opened(x, writing)
           rec == [i \in 1 .. RecSize |-> SUB]
<1>1. rec \in Record
  BY Constants DEF Record
<1>2. g = [used |-> TRUE, writing |-> writing, eof |-> FALSE, recpos |-> 0, reccnt |-> 0,
           pos |-> 0, name |-> x, ex |-> 0, cr |-> 0, rec |-> rec, failed |-> FALSE, loaded |-> FALSE]
  BY DEF Opened
<1> HIDE DEF g, rec
<1>3. g \in Descriptor
  <2>1. 0 \in 0 .. RecSize /\ 0 \in {0, RecSize} /\ 0 \in Nat
    BY Constants
  <2> QED
    BY <1>1, <1>2, <2>1 DEF Descriptor
<1>4. /\ g.name = x /\ g.recpos = 0 /\ g.reccnt = 0 /\ g.pos = 0 /\ g.cr = 0
  BY <1>2
<1>5. g.used = TRUE /\ g.writing = writing /\ g.eof = FALSE /\ g.failed = FALSE
  BY <1>2
<1>6. ASSUME NEW recs \in Seq(Record), NEW again PROVE Reader(g, recs, again)
  BY <1>4, <1>5, Constants DEF Reader, ReaderAt
<1>7. Writer(g, << >>, << >>, FALSE)
  <2>1. Len(<< >>) = 0 /\ Bytes(<< >>) = 0 /\ 0 < RecSize
    BY Constants DEF Bytes
  <2>2. Contents(<< >>, << >>, g.rec)
    BY <2>1 DEF Contents
  <2> QED
    BY <1>4, <1>5, <2>1, <2>2 DEF Writer, Buffered
<1> QED
  BY <1>3, <1>4, <1>5, <1>6, <1>7 DEF g

LEMMA OpenOK ==
  ASSUME Kept, NEW x \in Name, Open(x)
  PROVE  Kept' /\ disk' = disk /\ scan' = scan /\ ret'.op = "none"
<1>1. /\ \A i \in Fd : cpmf[i].used /\ cpmf[i].name = x => ~ cpmf[i].writing
      /\ disk' = disk /\ rereads' = rereads /\ scan' = scan /\ want' = want /\ broken' = broken
  BY DEF Open
<1>2. ret'.op = "none"
  BY DoneOK DEF Open
<1>3. CASE Slots = {} \/ x \notin DOMAIN disk
  <2>1. cpmf' = cpmf
    BY <1>3 DEF Open
  <2> QED
    BY <1>1, <1>2, <2>1, Unchanged
<1>4. CASE ~ (Slots = {} \/ x \notin DOMAIN disk)
  <2> DEFINE fd == AllocSlot
             g == Opened(x, FALSE)
  <2>1. fd \in Fd /\ ~ cpmf[fd].used
    BY <1>4, SlotIs
  <2>2. cpmf' = [cpmf EXCEPT ![fd] = g]
    BY <1>4 DEF Open
  <2>3. g \in Descriptor /\ g.name = x /\ g.used = TRUE /\ g.writing = FALSE
        /\ \A recs \in Seq(Record) : \A again : Reader(g, recs, again)
    BY OpenedOK
  <2> HIDE DEF fd, g
  <2>4. Sets(fd, g)
    BY <2>1, <2>2, <2>3, SetsOK DEF Kept
  <2>5. Elsewhere(x) /\ Still(x)
    BY <1>1, <1>4, Unmoved
  <2>6. NoWriter(x, fd)
    BY <1>1 DEF NoWriter, Uses
  <2>7. DescOK(g, disk'[x], want'[x], x \in broken', rereads)
    <3>1. disk'[x] \in Seq(Record)
      BY <1>1, <1>4 DEF Kept, Typed
    <3> QED
      BY <2>3, <3>1 DEF DescOK
  <2>8. Kept'
    BY <2>1, <2>3, <2>4, <2>5, <2>6, <2>7, DescriptorStep
  <2> QED
    BY <1>1, <1>2, <2>8
<1> QED
  BY <1>3, <1>4

(* A step of the directory: the files in use stay.                         *)
InUse(n) == \E i \in Fd : Uses(cpmf[i], n)

LEMMA DirectoryStep ==
  ASSUME Kept, cpmf' = cpmf, rereads' = rereads,
         disk' \in [DOMAIN disk' -> Seq(Record)], DOMAIN disk' \subseteq Name,
         want' \in [Name -> Seq(Byte)], broken' \subseteq Name,
         \A n \in DOMAIN disk : InUse(n) => /\ n \in DOMAIN disk' /\ disk'[n] = disk[n] /\ want'[n] = want[n]
                                            /\ (n \in broken' <=> n \in broken),
         \A n \in DOMAIN disk' : n \notin broken' /\ ~ InUse(n) => FileOK(disk'[n], want'[n])
  PROVE  Kept'
<1>1. Typed'
  BY DEF Kept, Typed
<1>2. OneWriter'
  BY DEF Kept, OneWriter
<1>3. Placed'
  <2> SUFFICES ASSUME NEW i \in Fd, NEW n \in Name, Uses(cpmf[i], n)
               PROVE  n \in DOMAIN disk' /\ DescOK(cpmf[i], disk'[n], want'[n], n \in broken', rereads)
    BY DEF Placed
  <2>1. n \in DOMAIN disk /\ DescOK(cpmf[i], disk[n], want[n], n \in broken, rereads)
    BY DEF Kept, Placed
  <2>2. n \in DOMAIN disk' /\ disk'[n] = disk[n] /\ want'[n] = want[n] /\ (n \in broken') = (n \in broken)
    BY <2>1 DEF InUse
  <2> QED
    BY <2>1, <2>2
<1>4. FilesOK'
  <2> SUFFICES ASSUME NEW n \in DOMAIN disk', n \notin broken', ~ Written(n)
               PROVE  FileOK(disk'[n], want'[n])
    BY DEF FilesOK, Written
  <2>1. CASE InUse(n)
    <3>1. PICK i \in Fd : Uses(cpmf[i], n)
      BY <2>1 DEF InUse
    <3>2. n \in DOMAIN disk
      BY <3>1 DEF Kept, Placed
    <3>3. disk'[n] = disk[n] /\ want'[n] = want[n] /\ n \notin broken
      BY <2>1, <3>2
    <3> QED
      BY <3>2, <3>3 DEF Kept, FilesOK
  <2>2. CASE ~ InUse(n)
    BY <2>2
  <2> QED
    BY <2>1, <2>2
<1> QED
  BY <1>1, <1>2, <1>3, <1>4 DEF Kept

(* A file no descriptor uses.                                              *)
LEMMA FreeFile ==
  ASSUME Kept, NEW n \in DOMAIN disk, n \notin broken, ~ InUse(n)
  PROVE  FileOK(disk[n], want[n])
  BY DEF Kept, FilesOK, Written, InUse

LEMMA DeletedOK ==
  ASSUME Kept, NEW x \in Name, ~ IsOpen(x), disk' = Without(x), want' = [want EXCEPT ![x] = << >>],
         broken' = broken \ {x}, cpmf' = cpmf, rereads' = rereads
  PROVE  Kept'
<1>1. disk' = [n \in DOMAIN disk \ {x} |-> disk[n]]
  BY DEF Without
<1>3. /\ disk \in [DOMAIN disk -> Seq(Record)] /\ want \in [Name -> Seq(Byte)] /\ broken \subseteq Name
      /\ DOMAIN disk \subseteq Name
  BY DEF Kept, Typed
<1>4. ~ InUse(x)
  BY <1>1 DEF InUse, Uses, IsOpen
<1>5. /\ DOMAIN disk' = DOMAIN disk \ {x} /\ disk' \in [DOMAIN disk' -> Seq(Record)]
      /\ \A n \in DOMAIN disk' : disk'[n] = disk[n]
  BY <1>1, <1>3
<1>6. /\ want' \in [Name -> Seq(Byte)] /\ \A n \in Name : n # x => want'[n] = want[n]
  <2>1. << >> \in Seq(Byte)
    BY EmptySeq
  <2> QED
    BY <1>1, <1>3, <2>1
<1>7. ASSUME NEW n \in DOMAIN disk, InUse(n)
      PROVE  n \in DOMAIN disk' /\ disk'[n] = disk[n] /\ want'[n] = want[n] /\ (n \in broken' <=> n \in broken)
  BY <1>1, <1>3, <1>4, <1>5, <1>6, <1>7
<1>8. ASSUME NEW n \in DOMAIN disk', n \notin broken', ~ InUse(n) PROVE FileOK(disk'[n], want'[n])
  <2>1. n \in DOMAIN disk /\ n # x /\ n \notin broken /\ disk'[n] = disk[n] /\ want'[n] = want[n]
    BY <1>1, <1>3, <1>5, <1>6, <1>8
  <2> QED
    BY <1>8, <2>1, FreeFile
<1>9. DOMAIN disk' \subseteq Name /\ broken' \subseteq Name
  BY <1>1, <1>3, <1>5
<1> QED
  BY <1>1, <1>5, <1>6, <1>7, <1>8, <1>9, DirectoryStep

LEMMA CreatOK ==
  ASSUME Kept, NEW x \in Name, Creat(x)
  PROVE  Kept' /\ ((disk' = disk /\ scan' = scan) \/ scan' = NoScan) /\ ret'.op = "none"
<1>0. CASE Slots # {} /\ disk' = Without(x) /\ cpmf' = cpmf
  <2>1. /\ ~ IsOpen(x) /\ rereads' = rereads /\ scan' = NoScan
        /\ want' = [want EXCEPT ![x] = << >>] /\ broken' = broken \ {x}
    BY <1>0 DEF Creat
  <2>2. ret'.op = "none"
    BY DoneOK DEF Creat
  <2> QED
    BY <1>0, <2>1, <2>2, DeletedOK
<1>1. ~ IsOpen(x) /\ rereads' = rereads
  BY DEF Creat
<1>2. ret'.op = "none"
  BY DoneOK DEF Creat
<1>3. CASE Slots = {}
  <2>1. disk' = disk /\ cpmf' = cpmf /\ scan' = scan /\ want' = want /\ broken' = broken
    BY <1>3 DEF Creat
  <2> QED
    BY <1>1, <1>2, <2>1, Unchanged
<1>4. CASE Slots # {} /\ ~ (disk' = Without(x) /\ cpmf' = cpmf)
  <2> DEFINE fd == AllocSlot
             g == Opened(x, TRUE)
  <2>1. fd \in Fd /\ ~ cpmf[fd].used
    BY <1>4, SlotIs
  <2>2. /\ cpmf' = [cpmf EXCEPT ![fd] = g] /\ scan' = NoScan
        /\ disk' = With(x, << >>) /\ want' = [want EXCEPT ![x] = << >>] /\ broken' = broken \ {x}
    BY <1>4 DEF Creat
  <2>3. g \in Descriptor /\ g.name = x /\ g.used = TRUE /\ g.writing = TRUE
        /\ Writer(g, << >>, << >>, FALSE)
    BY OpenedOK
  <2> HIDE DEF fd, g
  <2>4. Sets(fd, g)
    BY <2>1, <2>2, <2>3, SetsOK DEF Kept
  <2>5. << >> \in Seq(Record) /\ << >> \in Seq(Byte)
    BY EmptySeq
  <2>6. /\ disk \in [DOMAIN disk -> Seq(Record)] /\ want \in [Name -> Seq(Byte)] /\ broken \subseteq Name
    BY DEF Kept, Typed
  <2>7. /\ DOMAIN disk' = DOMAIN disk \cup {x} /\ disk' \in [DOMAIN disk' -> Seq(Record)]
        /\ disk'[x] = << >> /\ \A n \in DOMAIN disk : n # x => disk'[n] = disk[n]
    BY <2>2, <2>5, <2>6 DEF With
  <2>8. /\ want' \in [Name -> Seq(Byte)] /\ want'[x] = << >> /\ broken' \subseteq Name /\ x \notin broken'
        /\ \A n \in Name : n # x => want'[n] = want[n] /\ (n \in broken' <=> n \in broken)
    BY <2>2, <2>5, <2>6
  <2>9. Elsewhere(x)
    BY <1>1, <2>7, <2>8 DEF Elsewhere
  <2>10. Alone(x, fd)
    BY <1>1 DEF Alone, Uses, IsOpen
  <2>11. DescOK(g, disk'[x], want'[x], x \in broken', rereads)
    <3>1. (x \in broken') = FALSE
      BY <2>8
    <3> QED
      BY <2>3, <2>7, <2>8, <3>1 DEF DescOK
  <2>12. Kept'
    BY <2>1, <2>3, <2>4, <2>9, <2>10, <2>11, DescriptorStep
  <2> QED
    BY <1>2, <2>2, <2>12
<1> QED
  BY <1>0, <1>3, <1>4

LEMMA UnlinkOK ==
  ASSUME Kept, NEW x \in Name, Unlink(x)
  PROVE  Kept' /\ scan' = NoScan /\ ret'.op = "none"
<1>1. ret'.op = "none"
  BY DoneOK DEF Unlink
<1> QED
  BY <1>1, DeletedOK DEF Unlink

LEMMA RenameOK ==
  ASSUME Kept, NEW old \in Name, NEW new \in Name, Rename(old, new)
  PROVE  Kept' /\ scan' = NoScan /\ ret'.op = "none"
<1>1. ~ IsOpen(old) /\ new \notin DOMAIN disk /\ scan' = NoScan /\ cpmf' = cpmf /\ rereads' = rereads
  BY DEF Rename
<1>2. ret'.op = "none"
  BY DoneOK DEF Rename
<1>3. /\ disk \in [DOMAIN disk -> Seq(Record)] /\ want \in [Name -> Seq(Byte)] /\ broken \subseteq Name
      /\ DOMAIN disk \subseteq Name
  BY DEF Kept, Typed
<1>4. CASE old \notin DOMAIN disk
  <2>1. disk' = disk /\ want' = want /\ broken' = broken
    BY <1>4 DEF Rename
  <2> QED
    BY <1>1, <1>2, <2>1, Unchanged
<1>5. CASE old \in DOMAIN disk
  <2>1. /\ disk' = [n \in (DOMAIN disk \ {old}) \cup {new} |-> disk[IF n = new THEN old ELSE n]]
        /\ want' = [want EXCEPT ![new] = want[old], ![old] = << >>]
        /\ broken' = (broken \ {old}) \cup (IF old \in broken THEN {new} ELSE {})
    BY <1>5 DEF Rename
  <2>2. old # new
    BY <1>1, <1>5
  <2>3. ~ InUse(old)
    BY <1>1 DEF InUse, Uses, IsOpen
  <2>4. /\ DOMAIN disk' = (DOMAIN disk \ {old}) \cup {new} /\ disk' \in [DOMAIN disk' -> Seq(Record)]
        /\ disk'[new] = disk[old] /\ \A n \in DOMAIN disk' : n # new => disk'[n] = disk[n]
    BY <1>3, <1>5, <2>1
  <2>5. /\ want' \in [Name -> Seq(Byte)] /\ want'[new] = want[old]
        /\ \A n \in Name : n # new /\ n # old => want'[n] = want[n]
    <3>1. << >> \in Seq(Byte)
      BY EmptySeq
    <3> QED
      BY <1>3, <2>1, <2>2, <3>1
  <2>6. /\ broken' \subseteq Name
        /\ old \in broken => new \in broken'
        /\ \A n \in Name : n # new /\ n # old => (n \in broken' <=> n \in broken)
    BY <1>3, <2>1
  <2>7. ASSUME NEW n \in DOMAIN disk, InUse(n)
        PROVE  n \in DOMAIN disk' /\ disk'[n] = disk[n] /\ want'[n] = want[n] /\ (n \in broken' <=> n \in broken)
    <3>1. n # old /\ n # new /\ n \in Name
      BY <1>1, <1>3, <2>3, <2>7
    <3> QED
      BY <2>4, <2>5, <2>6, <2>7, <3>1
  <2>8. ASSUME NEW n \in DOMAIN disk', n \notin broken', ~ InUse(n) PROVE FileOK(disk'[n], want'[n])
    <3>1. CASE n = new
      <4>1. old \notin broken
        BY <2>6, <2>8, <3>1
      <4>2. FileOK(disk[old], want[old])
        BY <1>5, <2>3, <4>1, FreeFile
      <4> QED
        BY <2>4, <2>5, <3>1, <4>2
    <3>2. CASE n # new
      <4>1. n \in DOMAIN disk /\ n # old /\ n \in Name
        BY <1>3, <2>4, <3>2
      <4>2. n \notin broken /\ disk'[n] = disk[n] /\ want'[n] = want[n]
        BY <2>4, <2>5, <2>6, <2>8, <3>2, <4>1
      <4> QED
        BY <2>8, <4>1, <4>2, FreeFile
    <3> QED
      BY <3>1, <3>2
  <2>9. /\ cpmf' = cpmf /\ rereads' = rereads /\ DOMAIN disk' \subseteq Name
        /\ disk' \in [DOMAIN disk' -> Seq(Record)] /\ want' \in [Name -> Seq(Byte)] /\ broken' \subseteq Name
    BY <1>1, <1>3, <2>4, <2>5, <2>6
  <2>10. Kept'
    BY <2>7, <2>8, <2>9, DirectoryStep
  <2> QED
    BY <1>1, <1>2, <2>10
<1> QED
  BY <1>4, <1>5
-----------------------------------------------------------------------------
(* cpm_find_report: the entries still to be seen are entries of the disk,  *)
(* the first ones of the files not yet reported among them; a file whose   *)
(* extents fit a module has one entry that is reported.                    *)
Known(left) == \A e \in left : \E n \in DOMAIN disk : \E k \in 0 .. LastExtent(n) : e = <<n, k>>
Ahead(left, seen) == \A n \in DOMAIN disk : n \in ToSet(seen) \/ <<n, 0>> \in left
Small(n) == LastExtent(n) < ExtMod
Behind(left, seen) == \A n \in ToSet(seen) : Small(n) => <<n, 0>> \notin left
OneEach(seen) == \A i, j \in DOMAIN seen : seen[i] = seen[j] /\ Small(seen[i]) => i = j
ScanAt(left, seen) ==
  /\ seen \in Seq(Name) /\ ToSet(seen) \subseteq DOMAIN disk
  /\ Known(left) /\ Ahead(left, seen) /\ Behind(left, seen) /\ OneEach(seen)
ScanOK ==
  /\ scan = [on |-> scan.on, left |-> scan.left, seen |-> scan.seen] /\ scan.on \in BOOLEAN
  /\ scan.on => ScanAt(scan.left, scan.seen)

LEMMA NoScanOK ==
  ASSUME scan' = NoScan
  PROVE  ScanOK'
<1>1. scan' = [on |-> FALSE, left |-> {}, seen |-> << >>]
  BY DEF NoScan
<1>2. scan'.on = FALSE /\ scan'.left = {} /\ scan'.seen = << >>
  BY <1>1
<1> QED
  BY <1>1, <1>2 DEF ScanOK

LEMMA SeenIs ==
  ASSUME NEW seen \in Seq(Name)
  PROVE  /\ Len(seen) \in Nat /\ DOMAIN seen = 1 .. Len(seen)
         /\ \A n : n \in ToSet(seen) <=> \E i \in 1 .. Len(seen) : n = seen[i]
<1>1. Len(seen) \in Nat /\ DOMAIN seen = 1 .. Len(seen)
  BY LenProperties
<1>2. ToSet(seen) = {seen[i] : i \in 1 .. Len(seen)}
  BY <1>1 DEF ToSet
<1> QED
  BY <1>1, <1>2

(* Files that grow have the entries they had.                              *)
LEMMA EntriesStay ==
  ASSUME Typed, Typed', Grown, NEW n \in DOMAIN disk
  PROVE  /\ LastExtent(n) \in Nat /\ LastExtent(n)' \in Nat /\ LastExtent(n) <= LastExtent(n)'
         /\ Small(n)' => Small(n)
<1> DEFINE R == Len(disk[n])
           T == Len(disk'[n])
<1>1. disk[n] \in Seq(Record) /\ disk'[n] \in Seq(Record) /\ R <= T
  BY DEF Typed, Grown
<1>2. R \in Nat /\ T \in Nat
  BY <1>1, BytesOK
<1>3. /\ LastExtent(n) = IF R = 0 THEN 0 ELSE Extent(R - 1)
      /\ LastExtent(n)' = IF T = 0 THEN 0 ELSE Extent(T - 1)
  BY DEF LastExtent, Size, Extent
<1> HIDE DEF R, T
<1>4. /\ R # 0 => Extent(R - 1) \in Nat /\ Extent(T - 1) \in Nat /\ Extent(R - 1) <= Extent(T - 1)
      /\ T # 0 => Extent(T - 1) \in Nat
  <2>1. ASSUME T # 0 PROVE T - 1 \in Nat /\ Extent(T - 1) \in Nat
    <3> DEFINE t == T - 1
    <3>1. t \in Nat
      BY <1>2, <2>1
    <3> HIDE DEF t
    <3>2. Extent(t) \in Nat
      BY <3>1, ExtentOK
    <3> QED
      BY <3>1, <3>2 DEF t
  <2>2. ASSUME R # 0 PROVE Extent(R - 1) \in Nat /\ Extent(T - 1) \in Nat /\ Extent(R - 1) <= Extent(T - 1)
    <3> DEFINE t == T - 1
               r == R - 1
    <3>1. t \in Nat /\ r \in Nat /\ r <= t
      BY <1>1, <1>2, <2>2 DEF R, T
    <3> HIDE DEF t, r
    <3>2. Extent(t) \in Nat /\ Extent(r) \in Nat /\ Extent(r) <= Extent(t)
      BY <3>1, ExtentOK
    <3> QED
      BY <3>2 DEF t, r
  <2> QED
    BY <2>1, <2>2
<1>5. LastExtent(n) \in Nat /\ LastExtent(n)' \in Nat /\ LastExtent(n) <= LastExtent(n)'
  <2>1. CASE R = 0
    <3>1. LastExtent(n) = 0 /\ LastExtent(n)' \in Nat
      BY <1>3, <1>4, <2>1
    <3> QED
      BY <3>1
  <2>2. CASE R # 0
    <3>1. T # 0
      BY <1>1, <1>2, <2>2 DEF R, T
    <3> QED
      BY <1>3, <1>4, <2>2, <3>1
  <2> QED
    BY <2>1, <2>2
<1> DEFINE L == LastExtent(n)
           M == LastExtent(n)'
<1>6. M < ExtMod => L < ExtMod
  <2>1. L \in Nat /\ M \in Nat /\ L <= M /\ ExtMod \in Nat
    BY <1>5, CpmAssumption
  <2> HIDE DEF L, M
  <2> QED
    BY <2>1
<1> QED
  BY <1>5, <1>6 DEF Small

LEMMA ScanStays ==
  ASSUME Typed, Typed', Grown, NEW left, NEW seen, ScanAt(left, seen)
  PROVE  ScanAt(left, seen)'
<1>1. DOMAIN disk' = DOMAIN disk
  BY DEF Grown
<1>2. seen \in Seq(Name) /\ ToSet(seen) \subseteq DOMAIN disk
  BY DEF ScanAt
<1>3. Known(left)'
  <2> SUFFICES ASSUME NEW e \in left
               PROVE  \E n \in DOMAIN disk' : \E k \in 0 .. LastExtent(n)' : e = <<n, k>>
    BY DEF Known
  <2>0. PICK n \in DOMAIN disk : \E k \in 0 .. LastExtent(n) : e = <<n, k>>
    BY DEF ScanAt, Known
  <2>1. PICK k \in 0 .. LastExtent(n) : e = <<n, k>>
    BY <2>0
  <2>2. k \in 0 .. LastExtent(n)'
    <3> DEFINE L == LastExtent(n)
               M == LastExtent(n)'
    <3>1. L \in Nat /\ M \in Nat /\ L <= M /\ k \in 0 .. L
      BY EntriesStay
    <3> HIDE DEF L, M
    <3>2. k \in 0 .. M
      BY <3>1
    <3> QED
      BY <3>2 DEF M
  <2> QED
    BY <1>1, <2>1, <2>2
<1>4. Ahead(left, seen)'
  BY <1>1 DEF ScanAt, Ahead
<1>5. Behind(left, seen)'
  <2> SUFFICES ASSUME NEW n \in ToSet(seen), Small(n)' PROVE <<n, 0>> \notin left
    BY DEF Behind
  <2>1. Small(n)
    BY <1>2, EntriesStay
  <2> QED
    BY <2>1 DEF ScanAt, Behind
<1>6. OneEach(seen)'
  <2> SUFFICES ASSUME NEW i \in DOMAIN seen, NEW j \in DOMAIN seen, seen[i] = seen[j], Small(seen[i])'
               PROVE  i = j
    BY DEF OneEach
  <2>1. seen[i] \in DOMAIN disk
    BY <1>2, SeenIs
  <2>2. Small(seen[i])
    <3> DEFINE n == seen[i]
    <3>1. n \in DOMAIN disk /\ Small(n)'
      BY <2>1
    <3> HIDE DEF n
    <3>2. Small(n)
      BY <3>1, EntriesStay
    <3> QED
      BY <3>2 DEF n
  <2> QED
    BY <2>2 DEF ScanAt, OneEach
<1> QED
  BY <1>1, <1>2, <1>3, <1>4, <1>5, <1>6 DEF ScanAt

LEMMA SameScan ==
  ASSUME ScanOK, scan' = scan, Kept, Kept', Grown
  PROVE  ScanOK'
<1>1. Typed /\ Typed'
  BY DEF Kept
<1>2. ASSUME scan.on PROVE ScanAt(scan.left, scan.seen)'
  <2> DEFINE left == scan.left
             seen == scan.seen
  <2>1. ScanAt(left, seen)
    BY <1>2 DEF ScanOK
  <2>2. scan'.left = left /\ scan'.seen = seen
    OBVIOUS
  <2> HIDE DEF left, seen
  <2>3. left = left' /\ seen = seen'
    BY DEF left, seen
  <2>4. \A l, s : ScanAt(l, s) => ScanAt(l, s)'
    BY <1>1, ScanStays
  <2> QED
    BY <2>1, <2>2, <2>4 DEF ScanAt, Known, Ahead, Behind, OneEach
<1> QED
  BY <1>2 DEF ScanOK

LEMMA TakenOverOK ==
  ASSUME ScanOK, ~ scan.on, TakenOver
  PROVE  ScanOK'
<1> DEFINE on == scan.on
           left == scan.left
           seen == scan.seen
<1>1. scan' = [on |-> FALSE, left |-> {}, seen |-> seen]
  <2>1. scan = [on |-> on, left |-> left, seen |-> seen] /\ on = FALSE
    BY DEF ScanOK
  <2>2. scan' = [scan EXCEPT !.left = {}]
    BY DEF TakenOver
  <2> HIDE DEF on, left, seen
  <2>3. scan = [on |-> FALSE, left |-> left, seen |-> seen]
    BY <2>1
  <2> QED
    BY <2>2, <2>3
<1>2. scan'.on = FALSE /\ scan'.left = {} /\ scan'.seen = seen
  BY <1>1
<1> QED
  BY <1>1, <1>2 DEF ScanOK

LEMMA SeenMore ==
  ASSUME NEW seen \in Seq(Name), NEW n \in Name
  PROVE  /\ Append(seen, n) \in Seq(Name) /\ ToSet(Append(seen, n)) = ToSet(seen) \cup {n}
         /\ DOMAIN Append(seen, n) = DOMAIN seen \cup {Len(seen) + 1}
         /\ Append(seen, n)[Len(seen) + 1] = n
         /\ \A i \in DOMAIN seen : Append(seen, n)[i] = seen[i]
<1> DEFINE more == Append(seen, n)
           z == Len(seen) + 1
<1>1. /\ more \in Seq(Name) /\ Len(more) = z /\ more[z] = n
      /\ \A i \in 1 .. Len(seen) : more[i] = seen[i]
  BY AppendProperties
<1> HIDE DEF more
<1>2. Len(seen) \in Nat /\ DOMAIN seen = 1 .. Len(seen) /\ DOMAIN more = 1 .. z
  BY <1>1, SeenIs
<1>3. 1 .. z = (1 .. Len(seen)) \cup {z} /\ z \in 1 .. z
  BY <1>2
<1>4. \A m : m \in ToSet(more) <=> m \in ToSet(seen) \/ m = n
  <2> SUFFICES ASSUME NEW m PROVE m \in ToSet(more) <=> m \in ToSet(seen) \/ m = n
    OBVIOUS
  <2>1. m \in ToSet(more) <=> \E i \in 1 .. z : m = more[i]
    BY <1>1, SeenIs
  <2>2. m \in ToSet(seen) <=> \E i \in 1 .. Len(seen) : m = seen[i]
    BY SeenIs
  <2> HIDE DEF z
  <2> QED
    BY <1>1, <1>3, <2>1, <2>2
<1> QED
  BY <1>1, <1>2, <1>3, <1>4 DEF more

(* The one entry of a small file that is reported is its first.            *)
LEMMA FirstEntry ==
  ASSUME NEW n, disk[n] \in Seq(Record), NEW k \in 0 .. LastExtent(n), k % ExtMod = 0, Small(n)
  PROVE  k = 0
<1> DEFINE L == LastExtent(n)
<1>1. L \in Nat /\ k \in 0 .. L /\ L < ExtMod /\ ExtMod \in Nat \ {0}
  BY LastExtentOK, CpmAssumption DEF Small
<1> HIDE DEF L
<1>2. k \in Int /\ k \in 0 .. ExtMod - 1 /\ 0 \in Int /\ k = ExtMod * 0 + k
  BY <1>1
<1>3. k % ExtMod = k
  BY <1>1, <1>2, ModUnique
<1> QED
  BY <1>3

LEMMA ReportOK ==
  ASSUME Kept, NEW left, NEW seen, ScanAt(left, seen), Report(left, seen), disk' = disk
  PROVE  ScanOK' /\ ScanComplete' /\ ret'.op \in {"none", "end"}
<1>1. /\ seen \in Seq(Name) /\ ToSet(seen) \subseteq DOMAIN disk
      /\ Known(left) /\ Ahead(left, seen) /\ Behind(left, seen) /\ OneEach(seen)
      /\ DOMAIN disk \subseteq Name /\ 0 % ExtMod = 0
  <2>1. 0 % ExtMod = 0
    <3>1. 0 \in Nat
      OBVIOUS
    <3> QED
      BY <3>1, ExtentOK
  <2> QED
    BY <2>1 DEF ScanAt, Kept, Typed
<1>2. ASSUME NEW n, <<n, 0>> \in left PROVE <<n, 0>> \in Reported(left)
  <2>1. <<n, 0>>[2] = 0
    OBVIOUS
  <2> QED
    BY <1>1, <1>2, <2>1 DEF Reported
<1>3. \A n : Small(n)' <=> Small(n)
  BY DEF Small, LastExtent, Size, Extent
<1>4. CASE Reported(left) = {} /\ scan' = NoScan /\ Returns("end", "", 0, seen)
  <2>1. ToSet(seen) = DOMAIN disk
    BY <1>1, <1>2, <1>4 DEF Ahead
  <2>2. ret'.op = "end" /\ ret'.r = seen
    BY <1>4 DEF Returns
  <2>3. \A i, j \in DOMAIN seen : seen[i] = seen[j] /\ Small(seen[i])' => i = j
    BY <1>1, <1>3 DEF OneEach
  <2>4. ScanComplete'
    BY <2>1, <2>2, <2>3 DEF ScanComplete, Small
  <2> QED
    BY <1>4, <2>2, <2>4, NoScanOK
<1>5. CASE \E e \in Reported(left), passed \in SUBSET (left \ Reported(left)) :
             /\ scan' = [on |-> TRUE, left |-> left \ (passed \cup {e}), seen |-> Append(seen, e[1])]
             /\ Done(0)
  <2>1. PICK e \in Reported(left), passed \in SUBSET (left \ Reported(left)) :
          /\ scan' = [on |-> TRUE, left |-> left \ (passed \cup {e}), seen |-> Append(seen, e[1])]
          /\ Done(0)
    BY <1>5
  <2>2. e \in left /\ e[2] % ExtMod = 0
    BY DEF Reported
  <2>0. PICK n \in DOMAIN disk : \E k \in 0 .. LastExtent(n) : e = <<n, k>>
    BY <1>1, <2>2 DEF Known
  <2>3. PICK k \in 0 .. LastExtent(n) : e = <<n, k>>
    BY <2>0
  <2>4. e[1] = n /\ k % ExtMod = 0 /\ disk[n] \in Seq(Record) /\ n \in Name
    BY <1>1, <2>2, <2>3 DEF Kept, Typed
  <2>5. Small(n) => e = <<n, 0>>
    BY <2>3, <2>4, FirstEntry
  <2> DEFINE more == Append(seen, n)
             rest == left \ (passed \cup {e})
             z == Len(seen) + 1
  <2>6. scan' = [on |-> TRUE, left |-> rest, seen |-> more]
    BY <2>1, <2>4
  <2>7. /\ more \in Seq(Name) /\ ToSet(more) = ToSet(seen) \cup {n}
        /\ DOMAIN more = DOMAIN seen \cup {z} /\ more[z] = n
        /\ \A i \in DOMAIN seen : more[i] = seen[i]
    BY <1>1, <2>4, SeenMore
  <2> HIDE DEF more, z
  <2>8. Known(rest)
    BY <1>1 DEF Known
  <2>9. Ahead(rest, more)
    <3> SUFFICES ASSUME NEW m \in DOMAIN disk, m \notin ToSet(more) PROVE <<m, 0>> \in rest
      BY DEF Ahead
    <3>1. <<m, 0>> \in left /\ m # n
      BY <1>1, <2>7 DEF Ahead
    <3>2. <<m, 0>> \notin passed
      BY <1>2, <3>1
    <3>3. <<m, 0>> # e
      BY <2>4, <3>1
    <3> QED
      BY <3>1, <3>2, <3>3
  <2>10. Behind(rest, more)
    <3> SUFFICES ASSUME NEW m \in ToSet(more), Small(m) PROVE <<m, 0>> \notin rest
      BY DEF Behind
    <3>1. CASE m \in ToSet(seen)
      BY <1>1, <3>1 DEF Behind
    <3>2. CASE m = n
      BY <2>5, <3>2
    <3> QED
      BY <2>7, <3>1, <3>2
  <2>11. OneEach(more)
    <3>1. ASSUME NEW i \in DOMAIN seen, Small(n) PROVE seen[i] # n
      <4>1. <<n, 0>> \in left
        BY <2>2, <2>5, <3>1
      <4>2. seen[i] \in ToSet(seen)
        BY <1>1, SeenIs
      <4> QED
        BY <1>1, <3>1, <4>1, <4>2 DEF Behind
    <3> SUFFICES ASSUME NEW i \in DOMAIN more, NEW j \in DOMAIN more, more[i] = more[j], Small(more[i])
                 PROVE  i = j
      BY DEF OneEach
    <3>2. CASE i \in DOMAIN seen /\ j \in DOMAIN seen
      BY <1>1, <2>7, <3>2 DEF OneEach
    <3>3. CASE i \in DOMAIN seen /\ j = z
      BY <2>7, <3>1, <3>3
    <3>4. CASE i = z /\ j \in DOMAIN seen
      BY <2>7, <3>1, <3>4
    <3> QED
      BY <2>7, <3>2, <3>3, <3>4
  <2>12. ScanAt(rest, more)
    BY <1>1, <2>3, <2>7, <2>8, <2>9, <2>10, <2>11 DEF ScanAt
  <2> HIDE DEF rest
  <2>13. scan'.on = TRUE /\ scan'.left = rest /\ scan'.seen = more
    BY <2>6
  <2>14. ScanAt(scan.left, scan.seen)'
    <3>1. Known(rest) /\ Ahead(rest, more) /\ Behind(rest, more) /\ OneEach(more)
          /\ more \in Seq(Name) /\ ToSet(more) \subseteq DOMAIN disk
      BY <2>12 DEF ScanAt
    <3>2. Known(scan.left)'
      BY <2>13, <3>1 DEF Known, LastExtent, Size, Extent
    <3>3. Ahead(scan.left, scan.seen)'
      BY <2>13, <3>1 DEF Ahead
    <3>4. Behind(scan.left, scan.seen)' /\ OneEach(scan.seen)'
      BY <1>3, <2>13, <3>1 DEF Behind, OneEach
    <3> QED
      BY <2>13, <3>1, <3>2, <3>3, <3>4 DEF ScanAt
  <2>15. ScanOK'
    BY <2>6, <2>13, <2>14 DEF ScanOK
  <2>16. ret'.op = "none"
    BY <2>1, DoneOK
  <2> QED
    BY <2>15, <2>16 DEF ScanComplete
<1> QED
  BY <1>4, <1>5 DEF Report

LEMMA FirstScan ==
  ASSUME Kept
  PROVE  ScanAt(Entries(Name), << >>)
<1>1. << >> \in Seq(Name) /\ Len(<< >>) = 0 /\ DOMAIN << >> = {}
  BY EmptySeq
<1>2. ToSet(<< >>) = {}
  BY <1>1 DEF ToSet
<1>3. Entries(Name) = UNION {{n} \X (0 .. LastExtent(n)) : n \in DOMAIN disk}
  <2>1. Name \cap DOMAIN disk = DOMAIN disk
    BY DEF Kept, Typed
  <2> QED
    BY <2>1 DEF Entries
<1>4. Known(Entries(Name))
  BY <1>3 DEF Known
<1>5. Ahead(Entries(Name), << >>)
  <2> SUFFICES ASSUME NEW n \in DOMAIN disk PROVE <<n, 0>> \in Entries(Name)
    BY DEF Ahead
  <2>1. 0 \in 0 .. LastExtent(n)
    BY LastExtentOK DEF Kept, Typed
  <2> QED
    BY <1>3, <2>1
<1> QED
  BY <1>1, <1>2, <1>4, <1>5 DEF ScanAt, Behind, OneEach

LEMMA AccessOK ==
  ASSUME Disciplined, Kept, ScanOK, NEW x \in Name, Access(x)
  PROVE  Kept' /\ ScanOK' /\ ret'.op = "none"
<1>1. /\ ~ scan.on /\ TakenOver /\ disk' = disk /\ cpmf' = cpmf /\ rereads' = rereads
      /\ want' = want /\ broken' = broken
  BY DEF Access, MayLookUp
<1>2. ret'.op = "none"
  BY DoneOK DEF Access
<1> QED
  BY <1>1, <1>2, Unchanged, TakenOverOK
-----------------------------------------------------------------------------
(* The invariant, by calls.                                                *)
IInv == Kept /\ ScanOK /\ ReadsFile /\ ExactSize /\ ScanComplete

LEMMA InitOK ==
  ASSUME Init
  PROVE  IInv
<1>1. PICK names \in SUBSET Name : disk \in [names -> Before]
  BY DEF Init
<1>2. /\ want = [n \in Name |-> IF n \in DOMAIN disk THEN Flat(n) ELSE << >>]
      /\ cpmf = [i \in Fd |-> Idle] /\ rereads \in BOOLEAN /\ scan = NoScan /\ broken = {}
      /\ ret = [op |-> "none", name |-> "", at |-> 0, r |-> 0]
  BY DEF Init
<1>3. disk \in [DOMAIN disk -> Seq(Record)] /\ DOMAIN disk \subseteq Name
  BY <1>1, CpmAssumption
<1>4. \A i \in Fd : \A n : ~ Uses(cpmf[i], n)
  BY <1>2, IdleOK DEF Uses
<1>5. want \in [Name -> Seq(Byte)]
  <2>1. \A n \in DOMAIN disk : Flat(n) \in Seq(Byte)
    BY <1>3, FlatIs
  <2>2. << >> \in Seq(Byte)
    BY EmptySeq
  <2> QED
    BY <1>2, <2>1, <2>2
<1>6. Typed
  <2>1. cpmf \in [Fd -> Descriptor \cup {Idle}]
    BY <1>2
  <2> QED
    BY <1>2, <1>3, <1>5, <2>1 DEF Typed
<1>7. FilesOK
  <2> SUFFICES ASSUME NEW n \in DOMAIN disk PROVE FileOK(disk[n], want[n])
    BY DEF FilesOK
  <2> DEFINE recs == disk[n]
             w == want[n]
             B == Bytes(recs)
  <2>1. recs \in Seq(Record)
    BY <1>3
  <2>2. w = Flat(n)
    BY <1>2, <1>3
  <2>3. Len(w) = B /\ \A i \in 1 .. B : w[i] = At(recs, i - 1)
    BY <2>1, <2>2, FlatIs
  <2>4. B \in Nat
    BY <2>1, BytesOK
  <2> HIDE DEF recs, w, B
  <2>5. ASSUME NEW i \in 0 .. B - 1 PROVE At(recs, i) = w[i + 1] /\ i < Len(w)
    <3>1. i + 1 \in 1 .. B /\ (i + 1) - 1 = i /\ i < B
      BY <2>4
    <3>2. w[i + 1] = At(recs, (i + 1) - 1)
      BY <2>3, <3>1
    <3> QED
      BY <2>3, <3>1, <3>2
  <2>6. FileOK(recs, w)
    BY <2>3, <2>4, <2>5, Constants DEF FileOK, B
  <2> QED
    BY <2>6 DEF recs, w
<1>8. Kept
  BY <1>4, <1>6, <1>7 DEF Kept, Placed, OneWriter
<1>9. ScanOK
  <2>1. scan = [on |-> FALSE, left |-> {}, seen |-> << >>]
    BY <1>2 DEF NoScan
  <2>2. scan.on = FALSE /\ scan.left = {} /\ scan.seen = << >>
    BY <2>1
  <2> QED
    BY <2>1, <2>2 DEF ScanOK
<1>10. ret.op = "none"
  BY <1>2
<1>11. ReadsFile /\ ExactSize /\ ScanComplete
  BY <1>10 DEF ReadsFile, ExactSize, ScanComplete
<1> QED
  BY <1>8, <1>9, <1>11 DEF IInv

LEMMA Quiet ==
  ASSUME ret'.op = "none"
  PROVE  ReadsFile' /\ ExactSize' /\ ScanComplete'
  BY DEF ReadsFile, ExactSize, ScanComplete

LEMMA StepOK ==
  ASSUME Disciplined, IInv, [Next]_vars
  PROVE  IInv'
<1>1. Kept /\ ScanOK /\ ReadsFile /\ ExactSize /\ ScanComplete
  BY DEF IInv
<1>2. ASSUME ret'.op = "none", Kept', ScanOK' PROVE IInv'
  BY <1>2, Quiet DEF IInv
<1>0. ASSUME Kept', disk' = disk, scan' = scan PROVE ScanOK'
  BY <1>0, <1>1, SameGrown, SameScan
<1>3. ASSUME NEW n \in Name, Open(n) PROVE IInv'
  BY <1>0, <1>1, <1>2, <1>3, OpenOK
<1>4. ASSUME NEW n \in Name, Creat(n) PROVE IInv'
  BY <1>0, <1>1, <1>2, <1>4, CreatOK, NoScanOK
<1>5. ASSUME NEW n \in Name, Access(n) PROVE IInv'
  BY <1>1, <1>2, <1>5, AccessOK
<1>6. ASSUME NEW n \in Name, Stat(n) PROVE IInv'
  <2>1. Kept' /\ ExactSize' /\ disk' = disk /\ ret'.op = "stat" /\ TakenOver /\ ~ scan.on
    BY <1>1, <1>6, StatOK
  <2>2. ScanOK'
    BY <1>1, <2>1, TakenOverOK
  <2>3. ReadsFile' /\ ScanComplete'
    BY <2>1 DEF ReadsFile, ScanComplete
  <2> QED
    BY <2>1, <2>2, <2>3 DEF IInv
<1>7. ASSUME NEW n \in Name, Unlink(n) PROVE IInv'
  BY <1>1, <1>2, <1>7, UnlinkOK, NoScanOK
<1>8. ASSUME NEW old \in Name, NEW new \in Name, Rename(old, new) PROVE IInv'
  BY <1>1, <1>2, <1>8, RenameOK, NoScanOK
<1>9. ASSUME NEW fd \in Fd, Close(fd) PROVE IInv'
  BY <1>1, <1>2, <1>9, CloseOK, SameScan
<1>10. ASSUME NEW fd \in Fd, Fstat(fd) PROVE IInv'
  <2>1. Kept' /\ ExactSize' /\ disk' = disk /\ scan' = scan /\ ret'.op = "stat"
    BY <1>1, <1>10, FstatOK
  <2>2. ScanOK'
    BY <1>0, <2>1
  <2>3. ReadsFile' /\ ScanComplete'
    BY <2>1 DEF ReadsFile, ScanComplete
  <2> QED
    BY <2>1, <2>2, <2>3 DEF IInv
<1>11. ASSUME NEW fd \in Fd, NEW bytes \in Seq(Byte), Write(fd, bytes) PROVE IInv'
  BY <1>1, <1>2, <1>11, WriteOK, SameScan
<1>12. ASSUME NEW fd \in Fd, NEW n \in Nat, Read(fd, n) PROVE IInv'
  <2>1. Kept' /\ ReadsFile' /\ disk' = disk /\ scan' = scan /\ ret'.op = "read"
    BY <1>1, <1>12, ReadOK
  <2>2. ScanOK'
    BY <1>0, <2>1
  <2>3. ExactSize' /\ ScanComplete'
    BY <2>1 DEF ExactSize, ScanComplete
  <2> QED
    BY <2>1, <2>2, <2>3 DEF IInv
<1>13. ASSUME NEW fd \in Fd, NEW off \in Int, NEW whence \in {"SET", "CUR", "END"}, Seek(fd, off, whence)
       PROVE  IInv'
  BY <1>0, <1>1, <1>2, <1>13, SeekOK
<1>14. ASSUME NEW left, NEW seen, ScanAt(left, seen), Report(left, seen),
              UNCHANGED <<disk, cpmf, rereads, want, broken>>
       PROVE  IInv'
  <2>1. disk' = disk /\ cpmf' = cpmf /\ rereads' = rereads /\ want' = want /\ broken' = broken
    BY <1>14
  <2>2. ScanOK' /\ ScanComplete' /\ ret'.op \in {"none", "end"}
    BY <1>1, <1>14, <2>1, ReportOK
  <2>3. Kept'
    BY <1>1, <2>1, Unchanged
  <2>4. ReadsFile' /\ ExactSize'
    BY <2>2 DEF ReadsFile, ExactSize
  <2> QED
    BY <2>2, <2>3, <2>4 DEF IInv
<1>15. CASE FindFirst
  BY <1>1, <1>14, <1>15, FirstScan DEF FindFirst
<1>16. CASE FindNext
  BY <1>1, <1>14, <1>16 DEF FindNext, ScanOK
<1>17. CASE UNCHANGED vars
  <2>1. /\ disk' = disk /\ cpmf' = cpmf /\ rereads' = rereads /\ want' = want /\ broken' = broken
        /\ scan' = scan /\ ret' = ret
    BY <1>17 DEF vars
  <2>2. Kept' /\ ScanOK'
    BY <1>0, <1>1, <2>1, Unchanged
  <2>3. ReadsFile' /\ ExactSize'
    BY <1>1, <2>1 DEF ReadsFile, ExactSize, Flat, Size, Slots
  <2>4. ScanComplete'
    BY <1>1, <2>1 DEF ScanComplete, LastExtent, Extent, Size
  <2> QED
    BY <2>2, <2>3, <2>4 DEF IInv
<1>18. CASE Next
  <2>1. CASE \E n \in Name : Open(n) \/ Creat(n) \/ Access(n) \/ Stat(n) \/ Unlink(n)
    BY <1>3, <1>4, <1>5, <1>6, <1>7, <2>1
  <2>2. CASE \E old, new \in Name : Rename(old, new)
    BY <1>8, <2>2
  <2>3. CASE \E fd \in Fd : \/ Close(fd) \/ Fstat(fd)
                            \/ \E b, c \in Byte : Write(fd, <<b>>) \/ Write(fd, <<b, c>>)
                            \/ \E n \in {1, RecSize + 1} : Read(fd, n)
                            \/ \E off \in {0, RecSize, MaxLen + 1} : Seek(fd, off, "SET")
                            \/ \E off \in {-1, 1} : Seek(fd, off, "CUR")
                            \/ \E off \in -1 .. 1 : Seek(fd, off, "END")
    <3>1. PICK fd \in Fd : \/ Close(fd) \/ Fstat(fd)
                           \/ \E b, c \in Byte : Write(fd, <<b>>) \/ Write(fd, <<b, c>>)
                           \/ \E n \in {1, RecSize + 1} : Read(fd, n)
                           \/ \E off \in {0, RecSize, MaxLen + 1} : Seek(fd, off, "SET")
                           \/ \E off \in {-1, 1} : Seek(fd, off, "CUR")
                           \/ \E off \in -1 .. 1 : Seek(fd, off, "END")
      BY <2>3
    <3>2. CASE Close(fd) \/ Fstat(fd)
      BY <1>9, <1>10, <3>2
    <3>3. CASE \E b, c \in Byte : Write(fd, <<b>>) \/ Write(fd, <<b, c>>)
      <4>1. \A b, c \in Byte : <<b>> \in Seq(Byte) /\ <<b, c>> \in Seq(Byte)
        OBVIOUS
      <4> QED
        BY <1>11, <3>3, <4>1
    <3>4. CASE \E n \in {1, RecSize + 1} : Read(fd, n)
      <4>1. {1, RecSize + 1} \subseteq Nat
        BY Constants
      <4> QED
        BY <1>12, <3>4, <4>1
    <3>5. CASE \E off \in {0, RecSize, MaxLen + 1} : Seek(fd, off, "SET")
      <4>1. {0, RecSize, MaxLen + 1} \subseteq Int
        BY Constants
      <4> QED
        BY <1>13, <3>5, <4>1
    <3>6. CASE \E off \in {-1, 1} : Seek(fd, off, "CUR")
      <4>1. {-1, 1} \subseteq Int
        OBVIOUS
      <4> QED
        BY <1>13, <3>6, <4>1
    <3>7. CASE \E off \in -1 .. 1 : Seek(fd, off, "END")
      <4>1. -1 .. 1 \subseteq Int
        OBVIOUS
      <4> QED
        BY <1>13, <3>7, <4>1
    <3> QED
      BY <3>1, <3>2, <3>3, <3>4, <3>5, <3>6, <3>7
  <2> QED
    BY <1>15, <1>16, <1>18, <2>1, <2>2, <2>3 DEF Next
<1> QED
  BY <1>17, <1>18

LEMMA AlwaysIInv ==
  ASSUME Disciplined
  PROVE  Spec => []IInv
<1>1. Init => IInv
  BY InitOK
<1>2. IInv /\ [Next]_vars => IInv'
  BY StepOK
<1> QED
  BY <1>1, <1>2, PTL DEF Spec

LEMMA BeginsWith ==
  ASSUME NEW x, disk[x] \in Seq(Record), NEW w \in Seq(Byte), FileOK(disk[x], w)
  PROVE  IsPrefix(w, Flat(x))
<1> DEFINE F == Flat(x)
           recs == disk[x]
<1>1. F \in Seq(Byte) /\ Len(F) = Bytes(recs) /\ \A i \in 1 .. Bytes(recs) : F[i] = At(recs, i - 1)
  BY FlatIs
<1>2. Len(w) \in Nat /\ Bytes(recs) \in Nat /\ Len(w) <= Len(F)
  BY <1>1, LenProperties, BytesOK DEF FileOK
<1> HIDE DEF F
<1>3. ASSUME NEW i \in 1 .. Len(w) PROVE F[i] = w[i] /\ F[i] \in Byte /\ w[i] \in Byte
  <2>1. i - 1 \in 0 .. Bytes(recs) - 1 /\ i - 1 < Len(w) /\ (i - 1) + 1 = i /\ i \in 1 .. Bytes(recs)
    BY <1>1, <1>2
  <2>2. At(recs, i - 1) = w[i]
    BY <2>1 DEF FileOK
  <2>3. F[i] = w[i]
    BY <1>1, <2>1, <2>2
  <2>4. w[i] \in Byte
    BY ElementOfSeq
  <2> QED
    BY <2>3, <2>4
<1> DEFINE n == Len(w)
           s == SubSeq(F, 1, n)
<1>4. n \in Int /\ n \in Nat /\ 1 \in Int /\ \A i \in 1 .. n : F[i] \in Byte
  BY <1>2, <1>3
<1> HIDE DEF n
<1>5. s \in Seq(Byte) /\ Len(s) = n /\ \A i \in 1 .. n : s[i] = F[i]
  <2>1. /\ s \in Seq(Byte) /\ Len(s) = IF 1 <= n THEN n - 1 + 1 ELSE 0
        /\ \A i \in 1 .. n - 1 + 1 : s[i] = F[1 + i - 1]
    <3> HIDE DEF s
    <3> QED
      BY <1>4, SubSeqProperties DEF s
  <2>2. n - 1 + 1 = n /\ \A i \in 1 .. n : 1 + i - 1 = i
    BY <1>4
  <2> QED
    BY <1>4, <2>1, <2>2
<1> HIDE DEF s
<1>6. s = w
  BY <1>3, <1>5, SeqEqual DEF n
<1>7. SubSeq(w, 1, Len(w)) = w
  BY SubSeqFull
<1> QED
  BY <1>2, <1>6, <1>7 DEF IsPrefix, s, n, F

(* cpm.c: moving bytes through whole records loses none of them, for       *)
(* records of any size and any number of descriptors: a closed file none   *)
(* of whose records failed to be written begins with the bytes its clients *)
(* put in it, and what follows them is less than a record of padding.      *)
THEOREM ClosedFilesAreWhole ==
  ASSUME Disciplined
  PROVE  Spec => []NothingLost
<1>1. ASSUME IInv PROVE NothingLost
  <2> SUFFICES ASSUME NEW n \in DOMAIN disk, n \notin broken, ~ IsOpen(n)
               PROVE  IsPrefix(want[n], Flat(n))
    BY DEF NothingLost
  <2>1. Kept
    BY <1>1 DEF IInv
  <2>2. FileOK(disk[n], want[n])
    BY <2>1 DEF Kept, FilesOK, Written, Uses, IsOpen
  <2>3. disk[n] \in Seq(Record) /\ want[n] \in Seq(Byte)
    BY <2>1 DEF Kept, Typed
  <2> QED
    BY <2>2, <2>3, BeginsWith
<1>2. IInv => NothingLost
  BY <1>1
<1> QED
  BY <1>2, AlwaysIInv, PTL

(* sys_read returns the bytes of the file at the descriptor's position, as *)
(* many as there are, however opens, seeks, reads and fstats have moved    *)
(* the record buffer and the FCB.                                          *)
THEOREM ReadsAreRight ==
  ASSUME Disciplined
  PROVE  Spec => []ReadsFile
<1>1. IInv => ReadsFile
  BY DEF IInv
<1> QED
  BY <1>1, AlwaysIInv, PTL

(* sys_fdsize: the size of a file of one extent that does not end in a     *)
(* Ctrl-Z of its own is the number of bytes its clients gave it.           *)
THEOREM SizesAreExact ==
  ASSUME Disciplined
  PROVE  Spec => []ExactSize
<1>1. IInv => ExactSize
  BY DEF IInv
<1> QED
  BY <1>1, AlwaysIInv, PTL

(* cpm_find_report: a scan nothing disturbs reports the files of the disk, *)
(* and once each file whose extents fit a module.                          *)
THEOREM ScansAreComplete ==
  ASSUME Disciplined
  PROVE  Spec => []ScanComplete
<1>1. IInv => ScanComplete
  BY DEF IInv
<1> QED
  BY <1>1, AlwaysIInv, PTL
=============================================================================
