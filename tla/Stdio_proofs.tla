---------------------------- MODULE Stdio_proofs ----------------------------
(***************************************************************************)
(* Proofs about Stdio: the buffer of a FILE keeps to its bounds, what a    *)
(* turn-around drops is reported, and where writes succeed the client sees *)
(* the unbuffered stream of module Stream.                                 *)
(***************************************************************************)
EXTENDS Stdio, Induction

Datum == Byte \cup {CR}

(* The inductive invariant: in read orientation the bytes read ahead are   *)
(* the last ones before the descriptor's position, so that going back over *)
(* them stays in the file, and with those already served they fit in the   *)
(* buffer; in write orientation nothing has been served, and as long as no *)
(* write fails a full buffer is flushed before the call returns.           *)
Sound(s) ==
  /\ s \in State /\ s.at <= Len(s.data)
  /\ ~ s.writing => s.served + Len(s.pend) <= BufSize /\ Len(s.pend) <= s.at
  /\ s.writing => s.served = 0 /\ s.mode # "closed"
  /\ s.writing /\ s.good => Len(s.pend) < BufSize
  /\ s.mode = "w" => s.writing
  /\ s.mode = "closed" => s.at = 0 /\ s.pend = << >> /\ ~ s.eof

IInv == Sound(fp) /\ ret \in Nat \cup {EOF}

LEMMA Constants ==
  /\ BufSize \in Nat \ {0} /\ Byte \subseteq Nat /\ Datum \subseteq Nat
  /\ \A good \in BOOLEAN : Bytes(good) \subseteq Byte
  BY StdioAssumption DEF Datum, CR, Bytes

LEMMA FromType ==
  ASSUME NEW A, NEW s \in Seq(A), NEW i \in Nat
  PROVE  /\ From(s, i) \in Seq(A)
         /\ Len(From(s, i)) = IF i <= Len(s) THEN Len(s) - i ELSE 0
         /\ \A k \in 1 .. Len(From(s, i)) : From(s, i)[k] = s[i + k]
<1>1. \A k \in i + 1 .. Len(s) : s[k] \in A
  OBVIOUS
<1>2. /\ From(s, i) \in Seq(A)
      /\ Len(From(s, i)) = IF i + 1 <= Len(s) THEN Len(s) - (i + 1) + 1 ELSE 0
      /\ \A k \in 1 .. Len(s) - (i + 1) + 1 : From(s, i)[k] = s[i + 1 + k - 1]
  BY <1>1, SubSeqProperties DEF From
<1> QED
  BY <1>2, SMTT(30)

LEMMA PrefixType ==
  ASSUME NEW A, NEW s \in Seq(A), NEW i \in 0 .. Len(s)
  PROVE  /\ SubSeq(s, 1, i) \in Seq(A) /\ Len(SubSeq(s, 1, i)) = i
         /\ \A k \in 1 .. i : SubSeq(s, 1, i)[k] = s[k]
<1>1. \A k \in 1 .. i : s[k] \in A
  OBVIOUS
<1>2. /\ SubSeq(s, 1, i) \in Seq(A)
      /\ Len(SubSeq(s, 1, i)) = IF 1 <= i THEN i - 1 + 1 ELSE 0
      /\ \A k \in 1 .. i - 1 + 1 : SubSeq(s, 1, i)[k] = s[1 + k - 1]
  BY <1>1, SubSeqProperties
<1> QED
  BY <1>2

(* Writing the bytes w at position i of the file s, byte by byte.          *)
LEMMA OverwriteBytes ==
  ASSUME NEW A, NEW s \in Seq(A), NEW w \in Seq(A), NEW i \in 0 .. Len(s)
  PROVE  /\ Overwrite(s, i, w) \in Seq(A)
         /\ Len(Overwrite(s, i, w)) = IF i + Len(w) <= Len(s) THEN Len(s) ELSE i + Len(w)
         /\ \A k \in 1 .. Len(Overwrite(s, i, w)) :
              Overwrite(s, i, w)[k] =
                IF i < k /\ k <= i + Len(w) THEN w[k - i] ELSE s[k]
<1> DEFINE p == SubSeq(s, 1, i)
           q == From(s, i + Len(w))
           o == Overwrite(s, i, w)
           x == p \o w
<1>1. Len(s) \in Nat /\ Len(w) \in Nat /\ i \in Nat /\ i + Len(w) \in Nat
  OBVIOUS
<1>2. /\ p \in Seq(A) /\ Len(p) = i /\ \A k \in 1 .. i : p[k] = s[k]
  BY PrefixType
<1>3. /\ q \in Seq(A)
      /\ Len(q) = IF i + Len(w) <= Len(s) THEN Len(s) - (i + Len(w)) ELSE 0
      /\ \A k \in 1 .. Len(q) : q[k] = s[i + Len(w) + k]
  BY <1>1, FromType
<1>4. o = x \o q
  BY DEF Overwrite
<1> HIDE DEF p, q, o
<1>5. /\ x \in Seq(A) /\ Len(x) = i + Len(w)
      /\ \A k \in 1 .. i + Len(w) : x[k] = IF k <= i THEN s[k] ELSE w[k - i]
  <2>1. /\ p \o w \in Seq(A) /\ Len(p \o w) = Len(p) + Len(w)
        /\ \A k \in 1 .. Len(p) + Len(w) : (p \o w)[k] = IF k <= Len(p) THEN p[k] ELSE w[k - Len(p)]
    BY <1>2, ConcatProperties
  <2> QED
    BY <1>1, <1>2, <2>1
<1> HIDE DEF x
<1>6. /\ o \in Seq(A) /\ Len(o) = i + Len(w) + Len(q)
      /\ \A k \in 1 .. i + Len(w) + Len(q) :
           o[k] = IF k <= i + Len(w) THEN x[k] ELSE q[k - (i + Len(w))]
  <2>1. /\ o \in Seq(A) /\ Len(o) = Len(x) + Len(q)
        /\ \A k \in 1 .. Len(x) + Len(q) :
             o[k] = IF k <= Len(x) THEN x[k] ELSE q[k - Len(x)]
    BY <1>3, <1>4, <1>5, ConcatProperties
  <2> QED
    BY <1>5, <2>1
<1>7. Len(o) = IF i + Len(w) <= Len(s) THEN Len(s) ELSE i + Len(w)
  <2>1. CASE i + Len(w) <= Len(s)
    <3>1. Len(q) = Len(s) - (i + Len(w)) /\ Len(o) = i + Len(w) + Len(q)
      BY <1>3, <1>6, <2>1
    <3> QED
      BY <1>1, <2>1, <3>1
  <2>2. CASE ~ (i + Len(w) <= Len(s))
    BY <1>1, <1>3, <1>6, <2>2
  <2> QED
    BY <2>1, <2>2
<1>8. ASSUME NEW k \in 1 .. Len(o)
      PROVE  o[k] = IF i < k /\ k <= i + Len(w) THEN w[k - i] ELSE s[k]
  <2>1. CASE k <= i + Len(w)
    BY <1>1, <1>5, <1>6, <2>1
  <2>2. CASE k > i + Len(w)
    <3>1. Len(q) \in Nat
      BY <1>3
    <3>2. k - (i + Len(w)) \in 1 .. Len(q) /\ i + Len(w) + (k - (i + Len(w))) = k
      BY <1>1, <1>6, <2>2, <3>1
    <3>3. o[k] = q[k - (i + Len(w))]
      BY <1>1, <1>6, <2>2
    <3>4. o[k] = s[k]
      BY <1>3, <3>2, <3>3
    <3> QED
      BY <1>1, <2>2, <3>4
  <2> QED
    BY <1>1, <2>1, <2>2
<1> QED
  BY <1>6, <1>7, <1>8 DEF o
-----------------------------------------------------------------------------
LEMMA WrittenState ==
  ASSUME NEW s \in State, s.at <= Len(s.data), NEW n \in 0 .. Len(s.pend)
  PROVE  LET t == Written(s, n)
         IN  /\ t \in State /\ t.at = s.at + n /\ t.at <= Len(t.data)
             /\ t.data = Overwrite(s.data, s.at, SubSeq(s.pend, 1, n))
             /\ t.pend = s.pend /\ t.served = s.served /\ t.writing = s.writing
             /\ t.eof = s.eof /\ t.err = s.err /\ t.text = s.text
             /\ t.good = s.good /\ t.mode = s.mode
<1> DEFINE w == SubSeq(s.pend, 1, n)
           d == Overwrite(s.data, s.at, w)
<1>1. s.data \in Seq(Datum) /\ s.pend \in Seq(Datum) /\ s.at \in 0 .. Len(s.data)
  BY DEF State, Datum
<1>2. w \in Seq(Datum) /\ Len(w) = n
  BY <1>1, PrefixType
<1>3. d \in Seq(Datum) /\ Len(d) = IF s.at + n <= Len(s.data) THEN Len(s.data) ELSE s.at + n
  <2> HIDE DEF w
  <2>1. /\ d \in Seq(Datum)
        /\ Len(d) = IF s.at + Len(w) <= Len(s.data) THEN Len(s.data) ELSE s.at + Len(w)
    BY <1>1, <1>2, OverwriteBytes
  <2> QED
    BY <1>2, <2>1
<1>4. Written(s, n) = [s EXCEPT !.data = d, !.at = s.at + n]
  BY DEF Written, State
<1>5. s.at + n \in Nat /\ s.at + n <= Len(d)
  BY <1>1, <1>3
<1> HIDE DEF d, w
<1> QED
  BY <1>3, <1>4, <1>5 DEF State, Datum, d, w

LEMMA OverwriteNothing ==
  ASSUME NEW A, NEW s \in Seq(A), NEW i \in 0 .. Len(s)
  PROVE  Overwrite(s, i, << >>) = s
<1>1. << >> \in Seq(A) /\ Len(<< >>) = 0
  OBVIOUS
<1> DEFINE e == << >>
<1> HIDE DEF e
<1>2. /\ Overwrite(s, i, e) \in Seq(A)
      /\ Len(Overwrite(s, i, e)) = IF i + Len(e) <= Len(s) THEN Len(s) ELSE i + Len(e)
      /\ \A k \in 1 .. Len(Overwrite(s, i, e)) :
           Overwrite(s, i, e)[k] = IF i < k /\ k <= i + Len(e) THEN e[k - i] ELSE s[k]
  BY <1>1, OverwriteBytes DEF e
<1>3. Len(e) = 0 /\ Len(s) \in Nat
  BY DEF e
<1>4. Len(Overwrite(s, i, e)) = Len(s)
  BY <1>2, <1>3
<1>5. \A k \in 1 .. Len(s) : Overwrite(s, i, e)[k] = s[k]
  BY <1>2, <1>3, <1>4
<1>6. Overwrite(s, i, e) = s
  BY <1>2, <1>4, <1>5, SeqEqual
<1> QED
  BY <1>6 DEF e

(* fflush, in write orientation: everything pending is written and the     *)
(* buffer is empty, or, on a failing disk, the error indicator is set.     *)
Pending(s) == /\ s \in State /\ s.at <= Len(s.data) /\ s.writing
              /\ s.served = 0 /\ s.mode # "closed"

AllWritten(s) == [s EXCEPT !.data = Overwrite(s.data, s.at, s.pend),
                           !.at = s.at + Len(s.pend), !.pend = << >>]

LEMMA StateEqual ==
  ASSUME NEW s \in State, NEW t \in State,
         s.data = t.data, s.at = t.at, s.pend = t.pend, s.served = t.served,
         s.writing = t.writing, s.eof = t.eof, s.err = t.err, s.text = t.text,
         s.good = t.good, s.mode = t.mode
  PROVE  s = t
  BY DEF State

LEMMA AllWrittenState ==
  ASSUME NEW s, Pending(s)
  PROVE  LET t == AllWritten(s)
         IN  /\ Pending(t) /\ t.pend = << >> /\ t.at = s.at + Len(s.pend)
             /\ t.data = Overwrite(s.data, s.at, s.pend)
             /\ t.eof = s.eof /\ t.err = s.err /\ t.text = s.text
             /\ t.good = s.good /\ t.mode = s.mode
             /\ Emptied(Written(s, Len(s.pend))) = t
<1>1. s \in State /\ s.pend \in Seq(Datum) /\ Len(s.pend) \in Nat
  BY DEF Pending, State, Datum
<1>2. SubSeq(s.pend, 1, Len(s.pend)) = s.pend
  BY <1>1, SubSeqFull
<1> DEFINE w == Written(s, Len(s.pend))
<1>3. /\ w \in State /\ w.at = s.at + Len(s.pend) /\ w.at <= Len(w.data)
      /\ w.data = Overwrite(s.data, s.at, s.pend)
      /\ w.pend = s.pend /\ w.served = s.served /\ w.writing = s.writing
      /\ w.eof = s.eof /\ w.err = s.err /\ w.text = s.text
      /\ w.good = s.good /\ w.mode = s.mode
  <2>1. Len(s.pend) \in 0 .. Len(s.pend) /\ s.at <= Len(s.data)
    BY <1>1 DEF Pending
  <2> QED
    BY <1>1, <1>2, <2>1, WrittenState
<1> HIDE DEF w
<1>4. Emptied(w) = [w EXCEPT !.pend = << >>, !.served = 0]
  BY DEF Emptied
<1>5. /\ AllWritten(s).data = w.data /\ AllWritten(s).at = w.at /\ AllWritten(s).pend = << >>
      /\ AllWritten(s).served = 0 /\ AllWritten(s).writing /\ AllWritten(s).eof = s.eof
      /\ AllWritten(s).err = s.err /\ AllWritten(s).text = s.text
      /\ AllWritten(s).good = s.good /\ AllWritten(s).mode = s.mode
  BY <1>1, <1>3 DEF AllWritten, Pending, State
<1>e. << >> \in Seq(Byte \cup {CR}) /\ 0 \in 0 .. BufSize
  BY Constants
<1>6. AllWritten(s) \in State
  <2>1. /\ Overwrite(s.data, s.at, s.pend) \in Seq(Byte \cup {CR})
        /\ s.at + Len(s.pend) \in Nat
    BY <1>3 DEF State
  <2> QED
    BY <1>1, <1>e, <2>1 DEF AllWritten, State
<1>f. /\ Emptied(w) \in State /\ Emptied(w).data = w.data /\ Emptied(w).at = w.at
      /\ Emptied(w).pend = << >> /\ Emptied(w).served = 0 /\ Emptied(w).writing = w.writing
      /\ Emptied(w).eof = w.eof /\ Emptied(w).err = w.err /\ Emptied(w).text = w.text
      /\ Emptied(w).good = w.good /\ Emptied(w).mode = w.mode
  BY <1>3, <1>e DEF Emptied, State
<1>7. AllWritten(s) = Emptied(w)
  <2>1. s.writing /\ w.writing = s.writing
    BY <1>3 DEF Pending
  <2>2. AllWritten(s).writing = Emptied(w).writing
    BY <1>1, <1>f, <2>1 DEF AllWritten, State
  <2> QED
    BY <1>3, <1>5, <1>6, <1>f, <2>2, StateEqual
<1>8. Pending(AllWritten(s))
  BY <1>3, <1>5, <1>6 DEF Pending
<1> QED
  BY <1>3, <1>5, <1>7, <1>8 DEF w

LEMMA FlushedOK ==
  ASSUME NEW s, Pending(s), NEW o \in Flushed(s)
  PROVE  /\ Pending(o.s) /\ o.s.text = s.text /\ o.s.good = s.good /\ o.s.mode = s.mode
         /\ \/ o.r = 0 /\ o.s = AllWritten(s)
            \/ o.r = EOF /\ ~ s.good /\ o.s.err
<1>1. s \in State /\ s.pend \in Seq(Datum) /\ Len(s.pend) \in Nat /\ s.at \in 0 .. Len(s.data)
      /\ s.data \in Seq(Datum)
  BY DEF Pending, State, Datum
<1>2. CASE s.pend = << >>
  <2>1. o.s = s /\ o.r = 0
    BY <1>2 DEF Flushed, Out
  <2>2. Overwrite(s.data, s.at, s.pend) = s.data /\ s.at + Len(s.pend) = s.at
    BY <1>1, <1>2, OverwriteNothing
  <2>3. AllWritten(s) = s
    BY <1>1, <1>2, <2>2 DEF AllWritten, State
  <2> QED
    BY <2>1, <2>3
<1>3. CASE s.pend # << >>
  <2>1. \/ o = Out(Emptied(Written(s, Len(s.pend))), 0)
        \/ /\ ~ s.good
           /\ \E n \in 0 .. Len(s.pend) - 1 : o = Out(FlushError(Written(s, n)), EOF)
    BY <1>3 DEF Flushed, Pending
  <2>2. CASE o = Out(Emptied(Written(s, Len(s.pend))), 0)
    BY <2>2, AllWrittenState DEF Out
  <2>3. ASSUME ~ s.good, NEW n \in 0 .. Len(s.pend) - 1, o = Out(FlushError(Written(s, n)), EOF)
        PROVE  /\ Pending(o.s) /\ o.s.text = s.text /\ o.s.good = s.good /\ o.s.mode = s.mode
               /\ o.r = EOF /\ o.s.err
    <3> DEFINE w == Written(s, n)
    <3>1. /\ w \in State /\ w.at <= Len(w.data) /\ w.served = s.served /\ w.writing = s.writing
          /\ w.text = s.text /\ w.good = s.good /\ w.mode = s.mode
      <4>1. n \in 0 .. Len(s.pend) /\ s.at <= Len(s.data)
        BY <1>1
      <4> QED
        BY <1>1, <4>1, WrittenState
    <3> HIDE DEF w
    <3>2. o.s = [w EXCEPT !.err = TRUE] /\ o.r = EOF
      BY <2>3 DEF Out, FlushError, w
    <3>3. /\ o.s \in State /\ o.s.err /\ o.s.at = w.at /\ o.s.data = w.data
          /\ o.s.served = w.served /\ o.s.writing = w.writing
          /\ o.s.text = w.text /\ o.s.good = w.good /\ o.s.mode = w.mode
      BY <3>1, <3>2 DEF State
    <3> QED
      BY <3>1, <3>2, <3>3 DEF Pending
  <2> QED
    BY <2>1, <2>2, <2>3
<1> QED
  BY <1>2, <1>3

LEMMA OverwriteTwice ==
  ASSUME NEW A, NEW s \in Seq(A), NEW i \in 0 .. Len(s), NEW w \in Seq(A), NEW v \in Seq(A)
  PROVE  /\ i + Len(w) \in 0 .. Len(Overwrite(s, i, w))
         /\ Overwrite(Overwrite(s, i, w), i + Len(w), v) = Overwrite(s, i, w \o v)
<1> DEFINE o == Overwrite(s, i, w)
           j == i + Len(w)
           l == Overwrite(o, j, v)
           x == w \o v
           r == Overwrite(s, i, x)
<1>0. i \in Nat /\ Len(s) \in Nat /\ Len(w) \in Nat /\ Len(v) \in Nat /\ i <= Len(s)
  OBVIOUS
<1>1. /\ o \in Seq(A) /\ Len(o) = IF j <= Len(s) THEN Len(s) ELSE j
      /\ \A k \in 1 .. Len(o) : o[k] = IF i < k /\ k <= j THEN w[k - i] ELSE s[k]
  BY OverwriteBytes
<1>2. /\ x \in Seq(A) /\ Len(x) = Len(w) + Len(v)
      /\ \A k \in 1 .. Len(w) + Len(v) : x[k] = IF k <= Len(w) THEN w[k] ELSE v[k - Len(w)]
  BY ConcatProperties
<1> HIDE DEF o, x
<1>3. j \in 0 .. Len(o)
  BY <1>0, <1>1
<1>4. /\ l \in Seq(A) /\ Len(l) = IF j + Len(v) <= Len(o) THEN Len(o) ELSE j + Len(v)
      /\ \A k \in 1 .. Len(l) : l[k] = IF j < k /\ k <= j + Len(v) THEN v[k - j] ELSE o[k]
  BY <1>1, <1>3, OverwriteBytes
<1>5. /\ r \in Seq(A) /\ Len(r) = IF i + Len(x) <= Len(s) THEN Len(s) ELSE i + Len(x)
      /\ \A k \in 1 .. Len(r) : r[k] = IF i < k /\ k <= i + Len(x) THEN x[k - i] ELSE s[k]
  BY <1>0, <1>2, OverwriteBytes
<1> HIDE DEF l, r
<1>6. i + Len(x) = j + Len(v) /\ j = i + Len(w) /\ j \in Nat
  BY <1>0, <1>2
<1>7. Len(l) = Len(r)
  <2>1. CASE j + Len(v) <= Len(s)
    BY <1>0, <1>1, <1>4, <1>5, <1>6, <2>1
  <2>2. CASE ~ (j + Len(v) <= Len(s)) /\ j <= Len(s)
    BY <1>0, <1>1, <1>4, <1>5, <1>6, <2>2
  <2>3. CASE ~ (j + Len(v) <= Len(s)) /\ ~ (j <= Len(s))
    <3>1. Len(o) = j /\ Len(r) = j + Len(v)
      BY <1>1, <1>5, <1>6, <2>3
    <3>2. Len(l) = j + Len(v)
      BY <1>0, <1>4, <1>6, <3>1
    <3> QED
      BY <3>1, <3>2
  <2> QED
    BY <2>1, <2>2, <2>3
<1>8. ASSUME NEW k \in 1 .. Len(l) PROVE l[k] = r[k]
  <2>0. k \in 1 .. Len(r) /\ k \in Nat
    BY <1>7
  <2>1. CASE k <= i
    <3>1. k \in 1 .. Len(o)
      BY <1>0, <1>3, <1>6, <2>0, <2>1
    <3>2. ~ (i < k) /\ ~ (j < k)
      BY <1>0, <1>6, <2>0, <2>1
    <3>3. o[k] = s[k]
      BY <1>1, <3>1, <3>2
    <3>4. l[k] = o[k]
      BY <1>4, <3>2
    <3>5. r[k] = s[k]
      BY <1>5, <2>0, <3>2
    <3> QED
      BY <3>3, <3>4, <3>5
  <2>2. CASE i < k /\ k <= j
    <3>1. k \in 1 .. Len(o) /\ k - i \in 1 .. Len(w) + Len(v) /\ k - i <= Len(w)
      BY <1>0, <1>3, <1>6, <2>0, <2>2
    <3>2. l[k] = o[k] /\ o[k] = w[k - i]
      <4>1. ~ (j < k)
        BY <1>6, <2>0, <2>2
      <4>2. l[k] = o[k]
        BY <1>4, <4>1
      <4>3. o[k] = w[k - i]
        BY <1>1, <2>2, <3>1
      <4> QED
        BY <4>2, <4>3
    <3>3. k <= i + Len(x)
      BY <1>0, <1>6, <2>0, <2>2
    <3>4. r[k] = x[k - i]
      BY <1>5, <2>0, <2>2, <3>3
    <3>5. x[k - i] = w[k - i]
      BY <1>2, <3>1
    <3> QED
      BY <3>2, <3>4, <3>5
  <2>3. CASE j < k /\ k <= j + Len(v)
    <3>1. k - i \in 1 .. Len(w) + Len(v) /\ ~ (k - i <= Len(w)) /\ (k - i) - Len(w) = k - j
      BY <1>0, <1>6, <2>0, <2>3
    <3>2. r[k] = x[k - i] /\ l[k] = v[k - j]
      <4>1. i < k /\ k <= i + Len(x)
        BY <1>0, <1>6, <2>0, <2>3
      <4>2. r[k] = x[k - i]
        BY <1>5, <2>0, <4>1
      <4>3. l[k] = v[k - j]
        BY <1>4, <2>3
      <4> QED
        BY <4>2, <4>3
    <3> QED
      BY <1>2, <3>1, <3>2
  <2>4. CASE k > j + Len(v)
    <3>1. k \in 1 .. Len(o)
      BY <1>0, <1>4, <1>6, <2>0, <2>4
    <3>2. ~ (k <= j) /\ ~ (k <= j + Len(v)) /\ ~ (k <= i + Len(x))
      BY <1>0, <1>6, <2>0, <2>4
    <3>3. o[k] = s[k]
      BY <1>1, <3>1, <3>2
    <3>4. l[k] = o[k]
      BY <1>4, <3>2
    <3>5. r[k] = s[k]
      BY <1>5, <2>0, <3>2
    <3> QED
      BY <3>3, <3>4, <3>5
  <2> QED
    BY <1>0, <1>6, <2>0, <2>1, <2>2, <2>3, <2>4
<1>9. l = r
  BY <1>4, <1>5, <1>7, <1>8, SeqEqual
<1> QED
  BY <1>3, <1>9 DEF l, r, o, x

(* What the client of a stream in write orientation sees is not changed by *)
(* a flush that succeeds, and a byte stored is a byte written.             *)
SameStream(s, t) == t.text = s.text /\ t.good = s.good /\ t.mode = s.mode

LEMMA ContentType ==
  ASSUME NEW s, Pending(s)
  PROVE  /\ Content(s) \in Seq(Datum) /\ Position(s) \in 0 .. Len(Content(s))
         /\ Content(s) = Overwrite(s.data, s.at, s.pend) /\ Position(s) = s.at + Len(s.pend)
<1>1. /\ s.data \in Seq(Datum) /\ s.pend \in Seq(Datum) /\ s.at \in 0 .. Len(s.data)
      /\ << >> \in Seq(Datum)
  BY DEF Pending, State, Datum
<1>2. /\ Content(s) = Overwrite(s.data, s.at, s.pend) /\ Position(s) = s.at + Len(s.pend)
  BY DEF Content, Position, Pending
<1>3. Overwrite(s.data, s.at, s.pend) \in Seq(Datum)
  BY <1>1, OverwriteBytes
<1>4. s.at + Len(s.pend) \in 0 .. Len(Overwrite(s.data, s.at, s.pend))
  BY <1>1, OverwriteTwice
<1> QED
  BY <1>2, <1>3, <1>4

LEMMA FlushShowsNothing ==
  ASSUME NEW s, Pending(s)
  PROVE  Content(AllWritten(s)) = Content(s) /\ Position(AllWritten(s)) = Position(s)
<1> DEFINE t == AllWritten(s)
<1>1. /\ Pending(t) /\ t.pend = << >> /\ t.at = s.at + Len(s.pend)
      /\ t.data = Overwrite(s.data, s.at, s.pend)
  BY AllWrittenState
<1> HIDE DEF t
<1>2. /\ Content(s) = Overwrite(s.data, s.at, s.pend) /\ Position(s) = s.at + Len(s.pend)
      /\ Content(t) = Overwrite(t.data, t.at, t.pend) /\ Position(t) = t.at + Len(t.pend)
  BY <1>1, ContentType
<1>3. t.data \in Seq(Datum) /\ t.at \in 0 .. Len(t.data)
  BY <1>1 DEF Pending, State, Datum
<1>4. Content(t) = t.data /\ Position(t) = t.at
  BY <1>1, <1>2, <1>3, OverwriteNothing
<1> QED
  BY <1>1, <1>2, <1>4 DEF t

LEMMA StoredOK ==
  ASSUME NEW s, Pending(s), NEW c \in Datum, NEW o \in Stored(s, c)
  PROVE  /\ Pending(o.s) /\ SameStream(s, o.s)
         /\ s.good /\ Len(s.pend) < BufSize => Len(o.s.pend) < BufSize
         /\ \/ /\ o.r = 0 /\ o.s.eof = s.eof /\ Position(o.s) = Position(s) + 1
               /\ Content(o.s) = Overwrite(Content(s), Position(s), <<c>>)
            \/ o.r = EOF /\ ~ s.good
<1> DEFINE t == [s EXCEPT !.pend = Append(s.pend, c)]
<1>1. s \in State /\ s.pend \in Seq(Datum) /\ s.data \in Seq(Datum) /\ s.at \in 0 .. Len(s.data)
  BY DEF Pending, State, Datum
<1>2. Append(s.pend, c) \in Seq(Byte \cup {CR})
  BY <1>1 DEF Datum
<1>3. /\ t \in State /\ t.data = s.data /\ t.at = s.at /\ t.pend = Append(s.pend, c)
      /\ t.served = s.served /\ t.writing = s.writing /\ t.eof = s.eof /\ SameStream(s, t)
  BY <1>1, <1>2 DEF State, SameStream
<1>4. IF Len(t.pend) = BufSize \/ c = NL THEN o \in Flushed(t) ELSE o = Out(t, 0)
  BY <1>1 DEF Stored, State
<1> HIDE DEF t
<1>5. Pending(t)
  BY <1>3 DEF Pending, SameStream
<1>6. Content(t) = Overwrite(Content(s), Position(s), <<c>>) /\ Position(t) = Position(s) + 1
  <2>1. /\ Content(s) = Overwrite(s.data, s.at, s.pend) /\ Position(s) = s.at + Len(s.pend)
        /\ Content(t) = Overwrite(s.data, s.at, t.pend) /\ Position(t) = s.at + Len(t.pend)
    BY <1>3, <1>5, ContentType
  <2>2. t.pend = s.pend \o <<c>> /\ Len(t.pend) = Len(s.pend) + 1 /\ <<c>> \in Seq(Datum)
    BY <1>1, <1>3, AppendIsConcat, AppendProperties
  <2>3. Overwrite(Overwrite(s.data, s.at, s.pend), s.at + Len(s.pend), <<c>>)
          = Overwrite(s.data, s.at, s.pend \o <<c>>)
    <3> DEFINE v == <<c>>
               d == s.data
               p == s.pend
               i == s.at
    <3>1. v \in Seq(Datum) /\ d \in Seq(Datum) /\ p \in Seq(Datum) /\ i \in 0 .. Len(d)
      BY <1>1, <2>2
    <3> HIDE DEF v, d, p, i
    <3>2. Overwrite(Overwrite(d, i, p), i + Len(p), v) = Overwrite(d, i, p \o v)
      BY <3>1, OverwriteTwice
    <3> QED
      BY <3>2 DEF v, d, p, i
  <2> QED
    BY <1>1, <2>1, <2>2, <2>3
<1>7. CASE o \in Flushed(t)
  <2>1. /\ Pending(o.s) /\ o.s.text = t.text /\ o.s.good = t.good /\ o.s.mode = t.mode
        /\ \/ o.r = 0 /\ o.s = AllWritten(t)
           \/ o.r = EOF /\ ~ t.good /\ o.s.err
    BY <1>5, <1>7, FlushedOK
  <2>2. CASE o.r = 0 /\ o.s = AllWritten(t)
    <3>1. o.s.pend = << >> /\ o.s.eof = t.eof
      BY <1>5, <2>2, AllWrittenState
    <3>2. Content(o.s) = Content(t) /\ Position(o.s) = Position(t)
      BY <1>5, <2>2, FlushShowsNothing
    <3>3. Len(o.s.pend) < BufSize
      BY <3>1, Constants
    <3> QED
      BY <1>3, <1>6, <2>1, <2>2, <3>1, <3>2, <3>3 DEF SameStream
  <2>3. CASE o.r = EOF /\ ~ t.good
    BY <1>3, <2>1, <2>3 DEF SameStream
  <2> QED
    BY <2>1, <2>2, <2>3
<1>8. CASE o = Out(t, 0) /\ Len(t.pend) # BufSize
  <2>1. o.s = t /\ o.r = 0
    BY <1>8 DEF Out
  <2>2. Len(s.pend) < BufSize => Len(t.pend) < BufSize
    BY <1>1, <1>3, <1>8, Constants
  <2> QED
    BY <1>3, <1>5, <1>6, <2>1, <2>2
<1> QED
  BY <1>4, <1>7, <1>8

LEMMA SoundIsPending ==
  ASSUME NEW s, Sound(s), s.writing
  PROVE  Pending(s)
  BY DEF Sound, Pending

LEMMA PendingIsSound ==
  ASSUME NEW s, Pending(s), s.good => Len(s.pend) < BufSize
  PROVE  Sound(s)
  BY DEF Sound, Pending

LEMMA SoundType ==
  ASSUME NEW s, Sound(s)
  PROVE  /\ s \in State /\ s.data \in Seq(Datum) /\ s.pend \in Seq(Datum)
         /\ Len(s.data) \in Nat /\ Len(s.pend) \in Nat /\ s.at \in 0 .. Len(s.data)
         /\ s.served \in 0 .. BufSize /\ s.text \in BOOLEAN /\ s.good \in BOOLEAN
         /\ s.mode \in {"r", "w", "r+", "closed"}
  BY DEF Sound, State, Datum

LEMMA Pair ==
  ASSUME NEW A, NEW a \in A, NEW b \in A
  PROVE  <<a>> \o <<b>> = <<a, b>>
<1> DEFINE u == <<a>>
           v == <<b>>
           w == <<a, b>>
<1>1. u \in Seq(A) /\ v \in Seq(A) /\ w \in Seq(A) 
  OBVIOUS
<1>2. Len(u) = 1 /\ Len(v) = 1 /\ Len(w) = 2 /\ u[1] = a /\ v[1] = b /\ w[1] = a /\ w[2] = b
  OBVIOUS
<1> HIDE DEF u, v, w
<1>3. u \o v \in Seq(A) /\ Len(u \o v) = Len(u) + Len(v)
      /\ \A k \in 1 .. Len(u) + Len(v) : (u \o v)[k] = IF k <= Len(u) THEN u[k] ELSE v[k - Len(u)]
  BY <1>1, ConcatProperties
<1>4. (u \o v)[1] = w[1] /\ (u \o v)[2] = w[2]
  BY <1>2, <1>3
<1>5. \A k \in 1 .. Len(u \o v) : (u \o v)[k] = w[k]
  BY <1>2, <1>3, <1>4
<1>6. u \o v = w
  BY <1>1, <1>2, <1>3, <1>5, SeqEqual
<1> QED
  BY <1>6 DEF u, v, w

(* fputc, once the stream is in write orientation: a newline of a text     *)
(* stream is written as carriage return and newline.                       *)
Translated(s, c) == IF s.text /\ c = NL THEN <<CR, NL>> ELSE <<c>>

LEMMA PutCharOK ==
  ASSUME NEW s, Pending(s), s.good => Len(s.pend) < BufSize, NEW c \in Datum,
         NEW o \in PutChar(s, c)
  PROVE  /\ Sound(o.s) /\ o.s.writing /\ SameStream(s, o.s)
         /\ \/ /\ o.r = 0 /\ o.s.eof = s.eof
               /\ Position(o.s) = Position(s) + Len(Translated(s, c))
               /\ Content(o.s) = Overwrite(Content(s), Position(s), Translated(s, c))
            \/ o.r = EOF /\ ~ s.good
<1>0. CR \in Datum
  BY DEF Datum
<1>1. ASSUME NEW q \in Stored(s, c), o = q, Translated(s, c) = <<c>>
      PROVE  /\ Sound(o.s) /\ o.s.writing /\ SameStream(s, o.s)
             /\ \/ /\ o.r = 0 /\ o.s.eof = s.eof
                   /\ Position(o.s) = Position(s) + Len(Translated(s, c))
                   /\ Content(o.s) = Overwrite(Content(s), Position(s), Translated(s, c))
                \/ o.r = EOF /\ ~ s.good
  <2>1. /\ Pending(o.s) /\ SameStream(s, o.s)
        /\ s.good /\ Len(s.pend) < BufSize => Len(o.s.pend) < BufSize
        /\ \/ /\ o.r = 0 /\ o.s.eof = s.eof /\ Position(o.s) = Position(s) + 1
              /\ Content(o.s) = Overwrite(Content(s), Position(s), <<c>>)
           \/ o.r = EOF /\ ~ s.good
    BY <1>1, StoredOK
  <2>2. Sound(o.s) /\ o.s.writing
    BY <2>1, PendingIsSound DEF SameStream, Pending
  <2>3. Len(<<c>>) = 1
    OBVIOUS
  <2> QED
    BY <1>1, <2>1, <2>2, <2>3
<1>2. CASE ~ (s.text /\ c = NL)
  <2>1. o \in Stored(s, c) /\ Translated(s, c) = <<c>>
    BY <1>2 DEF PutChar, Translated
  <2> QED
    BY <1>1, <2>1
<1>3. CASE s.text /\ c = NL
  <2>1. PICK q \in Stored(s, CR) : IF q.r = EOF THEN o = q ELSE o \in Stored(q.s, c)
    BY <1>3 DEF PutChar
  <2>2. /\ Pending(q.s) /\ SameStream(s, q.s)
        /\ s.good /\ Len(s.pend) < BufSize => Len(q.s.pend) < BufSize
        /\ \/ /\ q.r = 0 /\ q.s.eof = s.eof /\ Position(q.s) = Position(s) + 1
              /\ Content(q.s) = Overwrite(Content(s), Position(s), <<CR>>)
           \/ q.r = EOF /\ ~ s.good
    BY <1>0, <2>1, StoredOK
  <2>3. CASE q.r = EOF
    <3>1. o = q /\ ~ s.good
      BY <2>1, <2>2, <2>3 DEF EOF
    <3>2. Sound(o.s) /\ o.s.writing
      BY <2>2, <3>1, PendingIsSound DEF SameStream, Pending
    <3> QED
      BY <2>2, <2>3, <3>1, <3>2
  <2>4. CASE q.r # EOF
    <3>1. /\ o \in Stored(q.s, c) /\ q.s.eof = s.eof /\ Position(q.s) = Position(s) + 1
          /\ Content(q.s) = Overwrite(Content(s), Position(s), <<CR>>)
      BY <2>1, <2>2, <2>4
    <3>2. /\ Pending(o.s) /\ SameStream(q.s, o.s)
          /\ q.s.good /\ Len(q.s.pend) < BufSize => Len(o.s.pend) < BufSize
          /\ \/ /\ o.r = 0 /\ o.s.eof = q.s.eof /\ Position(o.s) = Position(q.s) + 1
                /\ Content(o.s) = Overwrite(Content(q.s), Position(q.s), <<c>>)
             \/ o.r = EOF /\ ~ q.s.good
      BY <2>2, <3>1, StoredOK
    <3>3. SameStream(s, o.s) /\ q.s.good = s.good
      BY <2>2, <3>2 DEF SameStream
    <3>4. Sound(o.s) /\ o.s.writing
      BY <2>2, <3>2, <3>3, PendingIsSound DEF SameStream, Pending
    <3>5. Overwrite(Overwrite(Content(s), Position(s), <<CR>>), Position(s) + 1, <<c>>)
            = Overwrite(Content(s), Position(s), <<CR, NL>>)
      <4> DEFINE u == <<CR>>
                 v == <<c>>
                 d == Content(s)
                 i == Position(s)
      <4>1. u \in Seq(Datum) /\ v \in Seq(Datum)
        BY <1>0
      <4>2. d \in Seq(Datum) /\ i \in 0 .. Len(d)
        BY ContentType
      <4>3. Len(u) = 1 /\ u \o v = <<CR, NL>>
        BY <1>0, <1>3, Pair
      <4> HIDE DEF u, v, d, i
      <4>4. Overwrite(Overwrite(d, i, u), i + Len(u), v) = Overwrite(d, i, u \o v)
        BY <4>1, <4>2, OverwriteTwice
      <4> QED
        BY <4>3, <4>4 DEF u, v, d, i
    <3>6. Translated(s, c) = <<CR, NL>> /\ Len(<<CR, NL>>) = 2
      BY <1>3 DEF Translated
    <3>7. Position(s) + 1 + 1 = Position(s) + 2
      BY ContentType
    <3> QED
      BY <3>1, <3>2, <3>3, <3>4, <3>5, <3>6, <3>7
  <2> QED
    BY <2>3, <2>4
<1> QED
  BY <1>2, <1>3

(* fputc's turn-around: the descriptor goes back over what was read ahead. *)
LEMMA TurnedToWriteOK ==
  ASSUME NEW s, Sound(s), s.mode # "closed"
  PROVE  LET t == TurnedToWrite(s)
         IN  /\ Pending(t) /\ SameStream(s, t) /\ (t.good => Len(t.pend) < BufSize)
             /\ t.eof = s.eof /\ Content(t) = Content(s) /\ Position(t) = Position(s)
<1> DEFINE t == TurnedToWrite(s)
<1>1. CASE s.writing
  <2>1. t = s /\ Pending(s)
    BY <1>1, SoundIsPending DEF TurnedToWrite
  <2> QED
    BY <1>1, <2>1 DEF SameStream, Sound
<1>2. CASE ~ s.writing
  <2>1. s \in State /\ s.at - Len(s.pend) \in Nat /\ s.at <= Len(s.data)
        /\ s.data \in Seq(Datum) /\ << >> \in Seq(Byte \cup {CR}) /\ 0 \in 0 .. BufSize
    BY <1>2, SoundType, Constants DEF Sound
  <2>2. t = [Emptied(s) EXCEPT !.at = s.at - Len(s.pend), !.writing = TRUE]
    BY <1>2 DEF TurnedToWrite
  <2>3. /\ t \in State /\ t.at = s.at - Len(s.pend) /\ t.writing /\ t.pend = << >>
        /\ t.served = 0 /\ t.data = s.data /\ t.eof = s.eof
        /\ t.text = s.text /\ t.good = s.good /\ t.mode = s.mode
    BY <2>1, <2>2, ZenonT(60) DEF Emptied, State
  <2> HIDE DEF t
  <2>4. t.at <= Len(t.data) /\ t.at \in 0 .. Len(t.data)
    BY <2>1, <2>3, SoundType
  <2>5. Pending(t)
    BY <2>3, <2>4 DEF Pending
  <2>6. Content(t) = s.data /\ Position(t) = s.at - Len(s.pend)
    <3>1. Content(t) = Overwrite(t.data, t.at, << >>) /\ Position(t) = t.at + Len(t.pend)
      BY <2>3, <2>5, ContentType
    <3>2. Len(t.pend) = 0
      BY <2>3
    <3> QED
      BY <2>1, <2>3, <2>4, <3>1, <3>2, OverwriteNothing
  <2>7. Content(s) = s.data /\ Position(s) = s.at - Len(s.pend)
    BY <1>2 DEF Content, Position
  <2>8. Len(t.pend) < BufSize
    BY <2>3, Constants
  <2> QED
    BY <2>3, <2>5, <2>6, <2>7, <2>8 DEF SameStream, t
<1> QED
  BY <1>1, <1>2
-----------------------------------------------------------------------------
(* Input that is partly in the buffer and partly in the file.              *)
LEMMA FromConcat ==
  ASSUME NEW A, NEW p \in Seq(A), NEW q \in Seq(A), NEW m \in 0 .. Len(p)
  PROVE  From(p \o q, m) = From(p, m) \o q
<1> DEFINE x == p \o q
           l == From(x, m)
           f == From(p, m)
           r == f \o q
<1>0. m \in Nat /\ Len(p) \in Nat /\ Len(q) \in Nat /\ m <= Len(p)
  OBVIOUS
<1>1. /\ x \in Seq(A) /\ Len(x) = Len(p) + Len(q)
      /\ \A k \in 1 .. Len(p) + Len(q) : x[k] = IF k <= Len(p) THEN p[k] ELSE q[k - Len(p)]
  BY ConcatProperties
<1>2. /\ f \in Seq(A) /\ Len(f) = Len(p) - m
      /\ \A k \in 1 .. Len(f) : f[k] = p[m + k]
  BY <1>0, FromType
<1> HIDE DEF x, f
<1>3. /\ l \in Seq(A) /\ Len(l) = Len(p) + Len(q) - m
      /\ \A k \in 1 .. Len(l) : l[k] = x[m + k]
  <2>1. /\ l \in Seq(A) /\ Len(l) = IF m <= Len(x) THEN Len(x) - m ELSE 0
        /\ \A k \in 1 .. Len(l) : l[k] = x[m + k]
    BY <1>0, <1>1, FromType
  <2> QED
    BY <1>0, <1>1, <2>1
<1>4. /\ r \in Seq(A) /\ Len(r) = Len(f) + Len(q)
      /\ \A k \in 1 .. Len(f) + Len(q) : r[k] = IF k <= Len(f) THEN f[k] ELSE q[k - Len(f)]
  BY <1>2, ConcatProperties
<1> HIDE DEF l, r
<1>5. Len(l) = Len(r)
  BY <1>0, <1>2, <1>3, <1>4
<1>6. ASSUME NEW k \in 1 .. Len(l) PROVE l[k] = r[k]
  <2>1. /\ k \in 1 .. Len(f) + Len(q) /\ m + k \in 1 .. Len(p) + Len(q) /\ l[k] = x[m + k]
    BY <1>0, <1>2, <1>3
  <2>2. CASE k <= Len(f)
    <3>1. k \in 1 .. Len(f) /\ m + k <= Len(p)
      BY <1>0, <1>2, <2>1, <2>2
    <3> QED
      BY <1>1, <1>2, <1>4, <2>1, <2>2, <3>1
  <2>3. CASE ~ (k <= Len(f))
    <3>1. ~ (m + k <= Len(p)) /\ (m + k) - Len(p) = k - Len(f)
      BY <1>0, <1>2, <2>1, <2>3
    <3> QED
      BY <1>1, <1>4, <2>1, <2>3, <3>1
  <2> QED
    BY <2>2, <2>3
<1>7. l = r
  BY <1>3, <1>4, <1>5, <1>6, SeqEqual
<1> QED
  BY <1>7 DEF l, r, x, f

LEMMA FromBeyond ==
  ASSUME NEW A, NEW p \in Seq(A), NEW q \in Seq(A),
         NEW m \in Len(p) .. Len(p) + Len(q)
  PROVE  From(p \o q, m) = From(q, m - Len(p))
<1> DEFINE x == p \o q
           l == From(x, m)
           i == m - Len(p)
           r == From(q, i)
<1>0. m \in Nat /\ Len(p) \in Nat /\ Len(q) \in Nat /\ i \in Nat /\ i <= Len(q) /\ m = Len(p) + i
  OBVIOUS
<1>1. /\ x \in Seq(A) /\ Len(x) = Len(p) + Len(q)
      /\ \A k \in 1 .. Len(p) + Len(q) : x[k] = IF k <= Len(p) THEN p[k] ELSE q[k - Len(p)]
  BY ConcatProperties
<1> HIDE DEF i, x
<1>2. /\ r \in Seq(A) /\ Len(r) = Len(q) - i
      /\ \A k \in 1 .. Len(r) : r[k] = q[i + k]
  BY <1>0, FromType
<1>3. /\ l \in Seq(A) /\ Len(l) = Len(q) - i
      /\ \A k \in 1 .. Len(l) : l[k] = x[m + k]
  <2>1. /\ l \in Seq(A) /\ Len(l) = IF m <= Len(x) THEN Len(x) - m ELSE 0
        /\ \A k \in 1 .. Len(l) : l[k] = x[m + k]
    BY <1>0, <1>1, FromType
  <2> QED
    BY <1>0, <1>1, <2>1
<1> HIDE DEF l, r
<1>4. ASSUME NEW k \in 1 .. Len(l) PROVE l[k] = r[k]
  <2>1. k \in 1 .. Len(r) /\ m + k \in 1 .. Len(p) + Len(q) /\ ~ (m + k <= Len(p))
    BY <1>0, <1>2, <1>3
  <2>2. (m + k) - Len(p) = i + k
    BY <1>0
  <2> QED
    BY <1>1, <1>2, <1>3, <2>1, <2>2
<1>5. l = r
  BY <1>2, <1>3, <1>4, SeqEqual
<1> QED
  BY <1>5 DEF l, r, x, i

LEMMA FromFrom ==
  ASSUME NEW A, NEW s \in Seq(A), NEW i \in 0 .. Len(s), NEW j \in 0 .. Len(s) - i
  PROVE  From(From(s, i), j) = From(s, i + j)
<1> DEFINE f == From(s, i)
           l == From(f, j)
           r == From(s, i + j)
<1>0. i \in Nat /\ j \in Nat /\ i + j \in Nat /\ Len(s) \in Nat /\ i + j <= Len(s)
  OBVIOUS
<1>1. f \in Seq(A) /\ Len(f) = Len(s) - i /\ \A k \in 1 .. Len(f) : f[k] = s[i + k]
  BY <1>0, FromType
<1>2. r \in Seq(A) /\ Len(r) = Len(s) - (i + j) /\ \A k \in 1 .. Len(r) : r[k] = s[(i + j) + k]
  BY <1>0, FromType
<1> HIDE DEF f
<1>3. l \in Seq(A) /\ Len(l) = (Len(s) - i) - j /\ \A k \in 1 .. Len(l) : l[k] = f[j + k]
  <2>1. /\ l \in Seq(A) /\ Len(l) = IF j <= Len(f) THEN Len(f) - j ELSE 0
        /\ \A k \in 1 .. Len(l) : l[k] = f[j + k]
    BY <1>0, <1>1, FromType
  <2>2. Len(f) = Len(s) - i /\ j <= Len(s) - i
    BY <1>0, <1>1
  <2>3. Len(l) = (Len(s) - i) - j
    BY <2>1, <2>2
  <2> QED
    BY <2>1, <2>3
<1> HIDE DEF l, r
<1>4. ASSUME NEW k \in 1 .. Len(l) PROVE l[k] = r[k]
  <2>1. j + k \in 1 .. Len(f) /\ k \in 1 .. Len(r) /\ i + (j + k) = (i + j) + k
    BY <1>0, <1>1, <1>2, <1>3
  <2> QED
    BY <1>1, <1>2, <1>3, <2>1
<1>5. l = r
  <2>1. Len(l) = Len(r)
    BY <1>0, <1>2, <1>3
  <2> QED
    BY <1>2, <1>3, <1>4, <2>1, SeqEqual
<1> QED
  BY <1>5 DEF l, r, f

LEMMA FromSplit ==
  ASSUME NEW A, NEW s \in Seq(A), NEW i \in 0 .. Len(s), NEW k \in 0 .. Len(s) - i
  PROVE  /\ SubSeq(s, i + 1, i + k) \in Seq(A) /\ Len(SubSeq(s, i + 1, i + k)) = k
         /\ SubSeq(s, i + 1, i + k) \o From(s, i + k) = From(s, i)
<1> DEFINE p == SubSeq(s, i + 1, i + k)
           q == From(s, i + k)
           l == p \o q
           r == From(s, i)
<1>0. i \in Nat /\ k \in Nat /\ i + k \in Nat /\ Len(s) \in Nat /\ i + k <= Len(s)
  OBVIOUS
<1>1. p \in Seq(A) /\ Len(p) = k /\ \A n \in 1 .. k : p[n] = s[i + n]
  <2>1. \A n \in i + 1 .. i + k : s[n] \in A
    BY <1>0
  <2>2. i + 1 \in Int /\ i + k \in Int
    BY <1>0
  <2>3. /\ p \in Seq(A)
        /\ Len(p) = IF i + 1 <= i + k THEN (i + k) - (i + 1) + 1 ELSE 0
        /\ \A n \in 1 .. (i + k) - (i + 1) + 1 : p[n] = s[(i + 1) + n - 1]
    BY <2>1, <2>2, SubSeqProperties
  <2> QED
    BY <1>0, <2>3
<1>2. q \in Seq(A) /\ Len(q) = Len(s) - (i + k) /\ \A n \in 1 .. Len(q) : q[n] = s[(i + k) + n]
  BY <1>0, FromType
<1>3. r \in Seq(A) /\ Len(r) = Len(s) - i /\ \A n \in 1 .. Len(r) : r[n] = s[i + n]
  BY <1>0, FromType
<1> HIDE DEF p, q, r
<1>4. /\ l \in Seq(A) /\ Len(l) = Len(p) + Len(q)
      /\ \A n \in 1 .. Len(p) + Len(q) : l[n] = IF n <= Len(p) THEN p[n] ELSE q[n - Len(p)]
  <2>1. p \in Seq(A) /\ q \in Seq(A)
    BY <1>1, <1>2
  <2> QED
    BY <2>1, ConcatProperties
<1> HIDE DEF l
<1>5. Len(l) = Len(r)
  BY <1>0, <1>1, <1>2, <1>3, <1>4
<1>6. ASSUME NEW n \in 1 .. Len(l) PROVE l[n] = r[n]
  <2>1. n \in 1 .. Len(p) + Len(q) /\ n \in 1 .. Len(r) /\ r[n] = s[i + n]
    BY <1>3, <1>4, <1>5
  <2>2. CASE n <= k
    BY <1>0, <1>1, <1>4, <2>1, <2>2
  <2>3. CASE ~ (n <= k)
    <3>a. Len(p) = k /\ Len(q) \in Nat /\ n \in 1 .. k + Len(q)
      BY <1>1, <1>2, <2>1
    <3>1. n - k \in 1 .. Len(q) /\ (i + k) + (n - k) = i + n
      BY <1>0, <2>3, <3>a
    <3> QED
      BY <1>1, <1>2, <1>4, <2>1, <2>3, <3>1
  <2> QED
    BY <2>2, <2>3
<1>7. l = r
  BY <1>3, <1>4, <1>5, <1>6, SeqEqual
<1> QED
  BY <1>1, <1>7 DEF l, r, p, q
(* The loop of fgetc: however the reads are cut, m bytes are consumed.     *)
LEMMA ConsumeOK ==
  ASSUME NEW s, Sound(s), ~ s.writing, s.mode # "closed",
         NEW m \in 0 .. Len(s.pend) + (Len(s.data) - s.at), NEW t \in Consume(s, m)
  PROVE  /\ Sound(t) /\ ~ t.writing /\ SameStream(s, t)
         /\ t.data = s.data /\ t.err = s.err /\ t.eof = s.eof
         /\ Position(t) = Position(s) + m /\ Ahead(t) = From(Ahead(s), m)
<1> DEFINE to == s.at + (m - Len(s.pend))
           q == From(s.data, s.at)
<1>1. /\ s \in State /\ s.data \in Seq(Datum) /\ s.pend \in Seq(Datum)
      /\ Len(s.data) \in Nat /\ Len(s.pend) \in Nat /\ s.at \in 0 .. Len(s.data)
      /\ s.served \in 0 .. BufSize /\ s.served \in Nat /\ s.at \in Nat /\ m \in Nat
  BY SoundType, Constants
<1>2. s.served + Len(s.pend) <= BufSize /\ Len(s.pend) <= s.at /\ s.mode # "w"
  BY DEF Sound
<1>3. q \in Seq(Datum) /\ Len(q) = Len(s.data) - s.at
  BY <1>1, FromType, SMTT(30)
<1>4. Ahead(s) = s.pend \o q /\ Position(s) = s.at - Len(s.pend)
  BY DEF Ahead, Position
<1>5. CASE m - Len(s.pend) <= 0
  <2>1. t = [s EXCEPT !.pend = From(s.pend, m), !.served = s.served + m]
    BY <1>1, <1>5 DEF Consume, State
  <2>2. From(s.pend, m) \in Seq(Datum) /\ Len(From(s.pend, m)) = Len(s.pend) - m
    <3>1. m <= Len(s.pend)
      BY <1>1, <1>5
    <3>2. /\ From(s.pend, m) \in Seq(Datum)
          /\ Len(From(s.pend, m)) = IF m <= Len(s.pend) THEN Len(s.pend) - m ELSE 0
      BY <1>1, FromType
    <3> QED
      BY <3>1, <3>2
  <2>3. s.served + m \in 0 .. BufSize
    BY <1>1, <1>2, <1>5, Constants
  <2>4. /\ t \in State /\ t.pend = From(s.pend, m) /\ t.served = s.served + m
        /\ t.data = s.data /\ t.at = s.at /\ t.writing = s.writing /\ t.eof = s.eof
        /\ t.err = s.err /\ SameStream(s, t)
    <3> DEFINE f == From(s.pend, m)
               v == s.served + m
    <3>1. f \in Seq(Byte \cup {CR}) /\ v \in 0 .. BufSize
      BY <2>2, <2>3 DEF Datum
    <3>2. t = [s EXCEPT !.pend = f, !.served = v]
      BY <2>1
    <3> HIDE DEF f, v
    <3>3. /\ t \in State /\ t.pend = f /\ t.served = v
          /\ t.data = s.data /\ t.at = s.at /\ t.writing = s.writing /\ t.eof = s.eof
          /\ t.err = s.err /\ SameStream(s, t)
      BY <1>1, <3>1, <3>2 DEF State, SameStream
    <3> QED
      BY <3>3 DEF f, v
  <2>5. Len(t.pend) = Len(s.pend) - m
    BY <2>2, <2>4
  <2>6. Sound(t)
    <3>1. t.served + Len(t.pend) <= BufSize /\ Len(t.pend) <= t.at /\ t.at <= Len(t.data)
      BY <1>1, <1>2, <2>4, <2>5
    <3> QED
      BY <1>2, <2>4, <3>1 DEF Sound, SameStream
  <2>7. Position(t) = Position(s) + m
    <3>1. Position(t) = t.at - Len(t.pend)
      BY <2>4 DEF Position
    <3> QED
      BY <1>1, <1>4, <2>4, <2>5, <3>1
  <2>8. Ahead(t) = From(Ahead(s), m)
    <3>1. Ahead(t) = From(s.pend, m) \o q
      BY <2>4 DEF Ahead, SameStream
    <3>2. m \in 0 .. Len(s.pend)
      BY <1>1, <1>5
    <3> HIDE DEF q
    <3>3. From(s.pend \o q, m) = From(s.pend, m) \o q
      BY <1>1, <1>3, <3>2, FromConcat
    <3> QED
      BY <1>4, <3>1, <3>3
  <2> QED
    BY <2>4, <2>6, <2>7, <2>8
<1>6. CASE ~ (m - Len(s.pend) <= 0)
  <2>1. PICK j \in 1 .. BufSize, k \in 0 .. BufSize :
          /\ j + k <= BufSize /\ to + k <= Len(s.data)
          /\ t = [s EXCEPT !.at = to + k, !.served = j, !.pend = SubSeq(s.data, to + 1, to + k)]
    <3>1. t \in {[s EXCEPT !.at = to + jk[2], !.served = jk[1],
                          !.pend = SubSeq(s.data, to + 1, to + jk[2])] :
              jk \in {p \in (1 .. BufSize) \X (0 .. BufSize) :
                        /\ p[1] <= m - Len(s.pend) /\ p[1] + p[2] <= BufSize
                        /\ to + p[2] <= Len(s.data)}}
      BY <1>6 DEF Consume
    <3>2. PICK p \in (1 .. BufSize) \X (0 .. BufSize) :
             /\ p[1] + p[2] <= BufSize /\ to + p[2] <= Len(s.data)
             /\ t = [s EXCEPT !.at = to + p[2], !.served = p[1],
                              !.pend = SubSeq(s.data, to + 1, to + p[2])]
      BY <3>1
    <3> QED
      BY <3>2
  <2>2. /\ to \in 0 .. Len(s.data) /\ to \in Nat /\ k \in 0 .. Len(s.data) - to /\ to + k \in Nat
        /\ j \in 0 .. BufSize /\ j \in Nat /\ k \in Nat
    <3>1. to \in Nat /\ to <= Len(s.data)
      BY <1>1, <1>6, SMTT(30)
    <3>2. j \in 1 .. BufSize /\ k \in 0 .. BufSize /\ BufSize \in Nat
      BY <2>1, Constants
    <3>3. to + k <= Len(s.data)
      BY <2>1
    <3> HIDE DEF to
    <3> QED
      BY <1>1, <3>1, <3>2, <3>3
  <2> DEFINE f == SubSeq(s.data, to + 1, to + k)
             g == From(s.data, to + k)
             a == to + k
  <2> HIDE DEF to
  <2>3. f \in Seq(Datum) /\ Len(f) = k /\ f \o g = From(s.data, to)
    BY <1>1, <2>2, FromSplit
  <2>4. /\ t \in State /\ t.pend = f /\ t.served = j /\ t.at = a
        /\ t.data = s.data /\ t.writing = s.writing /\ t.eof = s.eof
        /\ t.err = s.err /\ SameStream(s, t)
    <3>1. f \in Seq(Byte \cup {CR}) /\ a \in Nat
      BY <2>2, <2>3 DEF Datum
    <3>2. t = [s EXCEPT !.at = a, !.served = j, !.pend = f]
      BY <2>1
    <3> HIDE DEF f, a
    <3> QED
      BY <1>1, <2>2, <3>1, <3>2 DEF State, SameStream
  <2>5. Len(t.pend) = k
    BY <2>3, <2>4
  <2>6. Sound(t)
    <3>1. t.served + Len(t.pend) <= BufSize /\ Len(t.pend) <= t.at /\ t.at <= Len(t.data)
      <4>1. j + k <= BufSize /\ to + k <= Len(s.data)
        BY <2>1
      <4>2. k <= to + k
        BY <2>2
      <4> QED
        BY <2>4, <2>5, <4>1, <4>2
    <3> QED
      BY <1>2, <2>4, <3>1 DEF Sound, SameStream
  <2>7. Position(t) = Position(s) + m
    <3>1. Position(t) = t.at - Len(t.pend)
      BY <2>4 DEF Position
    <3>2. Position(t) = to
      BY <2>2, <2>4, <2>5, <3>1
    <3> QED
      BY <1>1, <1>4, <3>2 DEF to
  <2>8. Ahead(t) = From(Ahead(s), m)
    <3>1. Ahead(t) = f \o g
      BY <2>4 DEF Ahead, SameStream
    <3>2. From(s.pend \o q, m) = From(q, m - Len(s.pend))
      <4>1. m \in Len(s.pend) .. Len(s.pend) + Len(q)
        BY <1>1, <1>3, <1>6
      <4> HIDE DEF q
      <4> QED
        BY <1>1, <1>3, <4>1, FromBeyond
    <3>3. From(q, m - Len(s.pend)) = From(s.data, to)
      <4>1. m - Len(s.pend) \in 0 .. Len(s.data) - s.at
        BY <1>1, <1>6
      <4> QED
        BY <1>1, <4>1, FromFrom DEF to
    <3> QED
      BY <1>4, <2>3, <3>1, <3>2, <3>3
  <2> QED
    BY <2>4, <2>6, <2>7, <2>8
<1> QED
  BY <1>5, <1>6

(* fgetc's turn-around: what was pending is in the file, or the error      *)
(* indicator is set; where writes succeed the client sees no change.       *)
LEMMA TurnedToReadOK ==
  ASSUME NEW s, Sound(s), CanRead(s), NEW t \in TurnedToRead(s)
  PROVE  /\ Sound(t) /\ ~ t.writing /\ SameStream(s, t)
         /\ s.writing => t.err \/ t.data = Overwrite(s.data, s.at, s.pend)
         /\ s.good => /\ t.eof = s.eof /\ Content(t) = Content(s)
                      /\ Position(t) = Position(s) /\ Ahead(t) = Ahead(s)
<1>0. s.mode # "closed" /\ s.mode # "w"
  BY DEF CanRead
<1>1. CASE ~ s.writing
  <2>1. t = s
    BY <1>1 DEF TurnedToRead
  <2> QED
    BY <1>1, <2>1 DEF SameStream
<1>2. CASE s.writing
  <2>1. PICK o \in Flushed(s) : t = [Emptied(o.s) EXCEPT !.writing = FALSE]
    BY <1>2 DEF TurnedToRead
  <2>2. Pending(s)
    BY <1>2, SoundIsPending
  <2>3. /\ Pending(o.s) /\ o.s.text = s.text /\ o.s.good = s.good /\ o.s.mode = s.mode
        /\ \/ o.r = 0 /\ o.s = AllWritten(s)
           \/ o.r = EOF /\ ~ s.good /\ o.s.err
    BY <2>2, FlushedOK
  <2>4. o.s \in State /\ o.s.at <= Len(o.s.data) /\ o.s.at \in 0 .. Len(o.s.data) /\ o.s.at \in Nat
        /\ o.s.data \in Seq(Datum)
    BY <2>3 DEF Pending, State, Datum
  <2>5. << >> \in Seq(Byte \cup {CR}) /\ 0 \in 0 .. BufSize
    BY Constants
  <2>6. /\ t \in State /\ t.at = o.s.at /\ ~ t.writing /\ t.pend = << >> /\ t.served = 0
        /\ t.data = o.s.data /\ t.eof = o.s.eof /\ t.err = o.s.err
        /\ t.text = s.text /\ t.good = s.good /\ t.mode = s.mode
    BY <2>1, <2>3, <2>4, <2>5 DEF Emptied, State
  <2>7. Len(t.pend) = 0 /\ BufSize \in Nat
    BY <2>6, Constants
  <2>8. Sound(t) /\ SameStream(s, t)
    BY <1>0, <2>4, <2>6, <2>7 DEF Sound, SameStream
  <2>9. /\ Content(t) = o.s.data /\ Position(t) = o.s.at /\ Ahead(t) = From(o.s.data, o.s.at)
    <3>1. Position(t) = o.s.at - 0
      BY <2>6, <2>7 DEF Position
    <3>2. Ahead(t) = << >> \o From(o.s.data, o.s.at)
      BY <1>0, <2>6 DEF Ahead
    <3>3. From(o.s.data, o.s.at) \in Seq(Datum)
      BY <2>4, FromType
    <3>4. << >> \o From(o.s.data, o.s.at) = From(o.s.data, o.s.at)
      BY <3>3, ConcatEmptySeq
    <3> QED
      BY <2>4, <2>6, <3>1, <3>2, <3>4 DEF Content
  <2>10. CASE o.s = AllWritten(s)
    <3>1. /\ o.s.at = s.at + Len(s.pend) /\ o.s.data = Overwrite(s.data, s.at, s.pend)
          /\ o.s.eof = s.eof
      BY <2>2, <2>10, AllWrittenState
    <3>2. Content(s) = Overwrite(s.data, s.at, s.pend) /\ Position(s) = s.at + Len(s.pend)
      BY <2>2, ContentType
    <3>3. Ahead(s) = From(Content(s), Position(s))
      BY <1>0, <1>2 DEF Ahead
    <3> QED
      BY <2>6, <2>8, <2>9, <3>1, <3>2, <3>3
  <2>11. CASE ~ s.good /\ o.s.err
    BY <2>6, <2>8, <2>11
  <2> QED
    BY <2>3, <2>10, <2>11
<1> QED
  BY <1>1, <1>2

(* The next character of the input s stands behind i carriage returns.     *)
IsSkip(text, s, i) ==
  /\ i \in 0 .. Len(s)
  /\ IF text THEN /\ \A j \in 1 .. i : s[j] = CR
                  /\ i = Len(s) \/ s[i + 1] # CR
     ELSE i = 0
NextOf(text, s, i) == IF i = Len(s) \/ (text /\ s[i + 1] = SUB) THEN EOF ELSE s[i + 1]
TakenOf(s, i) == IF i = Len(s) THEN Len(s) ELSE i + 1

LEMMA SkipUnique ==
  ASSUME NEW text, NEW A, NEW s \in Seq(A), NEW i, NEW j, IsSkip(text, s, i), IsSkip(text, s, j)
  PROVE  i = j
<1>1. i \in 0 .. Len(s) /\ j \in 0 .. Len(s) /\ Len(s) \in Nat
  BY DEF IsSkip
<1>2. CASE ~ text
  BY <1>2 DEF IsSkip
<1>3. CASE text
  <2>1. ASSUME NEW x \in 0 .. Len(s), NEW y \in 0 .. Len(s), IsSkip(text, s, x), IsSkip(text, s, y), x < y
        PROVE  FALSE
    <3>1. x + 1 \in 1 .. y /\ x # Len(s)
      BY <1>1, <2>1
    <3>2. s[x + 1] = CR /\ s[x + 1] # CR
      BY <1>3, <2>1, <3>1 DEF IsSkip
    <3> QED
      BY <3>2
  <2>2. ~ (i < j) /\ ~ (j < i)
    BY <1>1, <2>1
  <2> QED
    BY <1>1, <2>2
<1> QED
  BY <1>2, <1>3

LEMMA AheadType ==
  ASSUME NEW s, Sound(s), ~ s.writing, s.mode # "closed"
  PROVE  /\ Ahead(s) = s.pend \o From(s.data, s.at) /\ Ahead(s) \in Seq(Datum)
         /\ Len(Ahead(s)) = Len(s.pend) + (Len(s.data) - s.at) /\ Len(Ahead(s)) \in Nat
<1> DEFINE p == s.pend
           q == From(s.data, s.at)
<1>1. /\ p \in Seq(Datum) /\ s.data \in Seq(Datum) /\ s.at \in 0 .. Len(s.data)
      /\ Len(s.data) \in Nat /\ s.at \in Nat /\ Len(p) \in Nat
  BY SoundType
<1>2. q \in Seq(Datum) /\ Len(q) = Len(s.data) - s.at
  BY <1>1, FromType
<1>3. Ahead(s) = p \o q
  BY DEF Ahead
<1> HIDE DEF p, q
<1>4. p \o q \in Seq(Datum) /\ Len(p \o q) = Len(p) + Len(q)
  BY <1>1, <1>2, ConcatProperties
<1> QED
  BY <1>1, <1>2, <1>3, <1>4 DEF p, q

(* fgetc's loop serves the next character of the input, or reports its end.*)
LEMMA GetCharOK ==
  ASSUME NEW s, Sound(s), ~ s.writing, s.mode # "closed", ~ s.eof, NEW o \in GetChar(s)
  PROVE  /\ Sound(o.s) /\ ~ o.s.writing /\ SameStream(s, o.s)
         /\ o.s.data = s.data /\ o.s.err = s.err
         /\ o.r \in Nat \cup {EOF} /\ o.s.eof = (o.r = EOF)
         /\ \E i \in 0 .. Len(Ahead(s)) :
              /\ IsSkip(s.text, Ahead(s), i) /\ o.r = NextOf(s.text, Ahead(s), i)
              /\ Position(o.s) = Position(s) + TakenOf(Ahead(s), i)
              /\ Ahead(o.s) = From(Ahead(s), TakenOf(Ahead(s), i))
<1> DEFINE input == Ahead(s)
           stops == {k \in DOMAIN input : ~ (s.text /\ input[k] = CR)}
           i == CHOOSE n \in stops : \A l \in stops : n <= l
<1>1. /\ input = s.pend \o From(s.data, s.at) /\ input \in Seq(Datum)
      /\ Len(input) = Len(s.pend) + (Len(s.data) - s.at) /\ Len(input) \in Nat
      /\ DOMAIN input = 1 .. Len(input)
  <2>1. /\ input = s.pend \o From(s.data, s.at) /\ input \in Seq(Datum)
        /\ Len(input) = Len(s.pend) + (Len(s.data) - s.at) /\ Len(input) \in Nat
    BY AheadType
  <2> HIDE DEF input
  <2>2. DOMAIN input = 1 .. Len(input)
    BY <2>1, LenProperties
  <2> QED
    BY <2>1, <2>2
<1>2. ASSUME NEW m \in 0 .. Len(input), NEW t \in Consume(s, m)
      PROVE  /\ Sound(t) /\ ~ t.writing /\ SameStream(s, t)
             /\ t.data = s.data /\ t.err = s.err /\ ~ t.eof
             /\ Position(t) = Position(s) + m /\ Ahead(t) = From(input, m)
  BY <1>1, ConsumeOK
<1>3. ASSUME NEW t, Sound(t), ~ t.writing, SameStream(s, t)
      PROVE  LET e == [t EXCEPT !.eof = TRUE]
             IN  /\ Sound(e) /\ ~ e.writing /\ SameStream(s, e) /\ e.eof
                 /\ e.data = t.data /\ e.err = t.err
                 /\ Position(e) = Position(t) /\ Ahead(e) = Ahead(t)
  <2> DEFINE e == [t EXCEPT !.eof = TRUE]
  <2>1. t \in State
    BY <1>3, SoundType
  <2>2. /\ e \in State /\ e.data = t.data /\ e.at = t.at /\ e.pend = t.pend /\ e.served = t.served
        /\ e.writing = t.writing /\ e.eof /\ e.err = t.err /\ e.text = t.text /\ e.good = t.good
        /\ e.mode = t.mode
    BY <2>1 DEF State
  <2> HIDE DEF e
  <2>3. Sound(e)
    BY <1>3, <2>2 DEF Sound, SameStream
  <2>4. Position(e) = Position(t) /\ Ahead(e) = Ahead(t)
    BY <1>3, <2>2 DEF Position, Ahead
  <2>5. SameStream(s, e) /\ ~ e.writing
    BY <1>3, <2>2 DEF SameStream
  <2> QED
    BY <2>2, <2>3, <2>4, <2>5 DEF e
<1>4. /\ stops = {} => o \in {Out([t EXCEPT !.eof = TRUE], EOF) : t \in Consume(s, Len(input))}
      /\ stops # {} /\ s.text /\ input[i] = SUB
           => o \in {Out([t EXCEPT !.eof = TRUE], EOF) : t \in Consume(s, i)}
      /\ stops # {} /\ ~ (s.text /\ input[i] = SUB)
           => o \in {Out(t, input[i]) : t \in Consume(s, i)}
  <2>1. input = s.pend \o From(s.data, s.at)
    BY <1>1
  <2> DEFINE in == s.pend \o From(s.data, s.at)
             st == {k \in DOMAIN in : ~ (s.text /\ in[k] = CR)}
             n == CHOOSE x \in st : \A y \in st : x <= y
  <2>2. stops = st /\ i = n
    BY <2>1
  <2>3. /\ st = {} => o \in {Out([t EXCEPT !.eof = TRUE], EOF) : t \in Consume(s, Len(in))}
        /\ st # {} /\ s.text /\ in[n] = SUB
             => o \in {Out([t EXCEPT !.eof = TRUE], EOF) : t \in Consume(s, n)}
        /\ st # {} /\ ~ (s.text /\ in[n] = SUB)
             => o \in {Out(t, in[n]) : t \in Consume(s, n)}
    BY DEF GetChar
  <2> HIDE DEF st, n, stops, i, in
  <2> QED
    BY <2>1, <2>2, <2>3 DEF in
<1> HIDE DEF input
<1>i. /\ Len(input) \in Nat /\ DOMAIN input = 1 .. Len(input)
      /\ \A k \in 1 .. Len(input) : input[k] \in Datum
  <2>1. input \in Seq(Datum) /\ Len(input) \in Nat /\ DOMAIN input = 1 .. Len(input)
    BY <1>1
  <2>2. \A k \in 1 .. Len(input) : input[k] \in Datum
    BY <2>1, ElementOfSeq
  <2> QED
    BY <2>1, <2>2
<1>5. CASE stops = {}
  <2> DEFINE n == Len(input)
  <2>1. PICK t \in Consume(s, n) : o = Out([t EXCEPT !.eof = TRUE], EOF)
    BY <1>4, <1>5
  <2>2. n \in 0 .. Len(input) /\ n \in Nat
    BY <1>1
  <2>3. \A k \in 1 .. n : s.text /\ input[k] = CR
    BY <1>1, <1>5
  <2>4. IsSkip(s.text, input, n)
    <3>1. CASE n = 0
      BY <2>2, <3>1 DEF IsSkip
    <3>2. CASE n # 0
      <4>1. 1 \in 1 .. n
        BY <2>2, <3>2
      <4> HIDE DEF stops
      <4>2. s.text
        BY <2>3, <4>1
      <4>3. n \in 0 .. Len(input) /\ n = Len(input)
        BY <2>2
      <4> QED
        BY <2>3, <4>2, <4>3 DEF IsSkip
    <3> QED
      BY <3>1, <3>2
  <2>5. NextOf(s.text, input, n) = EOF /\ TakenOf(input, n) = n
    BY DEF NextOf, TakenOf
  <2> HIDE DEF n
  <2>6. /\ Sound(t) /\ ~ t.writing /\ SameStream(s, t) /\ t.data = s.data /\ t.err = s.err
        /\ Position(t) = Position(s) + n /\ Ahead(t) = From(input, n)
    BY <1>2, <2>2
  <2>7. o.s = [t EXCEPT !.eof = TRUE] /\ o.r = EOF
    BY <2>1 DEF Out
  <2>8. /\ Sound(o.s) /\ ~ o.s.writing /\ SameStream(s, o.s) /\ o.s.eof
        /\ o.s.data = t.data /\ o.s.err = t.err
        /\ Position(o.s) = Position(t) /\ Ahead(o.s) = Ahead(t)
    BY <1>3, <2>6, <2>7
  <2>9. o.s.eof = (o.r = EOF)
    <3>1. o.s.eof \in BOOLEAN
      BY <2>8 DEF Sound, State
    <3> QED
      BY <2>7, <2>8, <3>1
  <2> QED
    BY <2>2, <2>4, <2>5, <2>6, <2>7, <2>8, <2>9 DEF input
<1>6. CASE stops # {}
  <2>1. i \in stops /\ \A l \in stops : i <= l
    <3>1. stops \subseteq Nat
      <4>1. stops \subseteq DOMAIN input
        OBVIOUS
      <4> HIDE DEF stops
      <4> QED
        BY <1>i, <4>1
    <3>2. \E n \in stops : \A l \in stops : n <= l
      <4> HIDE DEF stops
      <4> QED
        BY <1>6, <3>1, LeastNat
    <3> HIDE DEF stops
    <3> QED
      BY <3>2
  <2> HIDE DEF i
  <2>2. /\ i \in 1 .. Len(input) /\ i \in 0 .. Len(input) /\ i - 1 \in 0 .. Len(input)
        /\ i - 1 # Len(input) /\ (i - 1) + 1 = i
    BY <1>1, <2>1
  <2>3. ~ (s.text /\ input[i] = CR)
    BY <2>1
  <2>4. IsSkip(s.text, input, i - 1)
    <3>1. \A j \in 1 .. i - 1 : s.text /\ input[j] = CR
      <4> SUFFICES ASSUME NEW j \in 1 .. i - 1, ~ (s.text /\ input[j] = CR) PROVE FALSE
        OBVIOUS
      <4>1. j \in 1 .. Len(input) /\ j < i
        BY <1>1, <2>2
      <4>2. j \in stops
        BY <1>1, <4>1
      <4> QED
        BY <2>1, <2>2, <4>1, <4>2
    <3>2. CASE s.text
      BY <2>2, <2>3, <3>1, <3>2 DEF IsSkip
    <3>3. CASE ~ s.text
      <4>1. 1 .. i - 1 = {}
        BY <3>1, <3>3
      <4>2. i - 1 = 0
        BY <2>2, <4>1
      <4> QED
        BY <1>1, <3>3, <4>2 DEF IsSkip
    <3> QED
      BY <3>2, <3>3
  <2>5. /\ NextOf(s.text, input, i - 1) = IF s.text /\ input[i] = SUB THEN EOF ELSE input[i]
        /\ TakenOf(input, i - 1) = i
    BY <2>2 DEF NextOf, TakenOf
  <2>6. input[i] \in Nat /\ input[i] # EOF
    <3>1. input[i] \in Datum
      BY <1>i, <2>2
    <3>2. input[i] \in Nat
      BY <3>1, Constants
    <3> QED
      BY <3>2 DEF EOF
  <2>7. CASE s.text /\ input[i] = SUB
    <3>1. PICK t \in Consume(s, i) : o = Out([t EXCEPT !.eof = TRUE], EOF)
      BY <1>4, <1>6, <2>7
    <3> HIDE DEF stops
    <3>2. /\ Sound(t) /\ ~ t.writing /\ SameStream(s, t) /\ t.data = s.data /\ t.err = s.err
          /\ Position(t) = Position(s) + i /\ Ahead(t) = From(input, i)
      BY <1>2, <2>2
    <3>3. o.s = [t EXCEPT !.eof = TRUE] /\ o.r = EOF
      BY <3>1 DEF Out
    <3>4. /\ Sound(o.s) /\ ~ o.s.writing /\ SameStream(s, o.s) /\ o.s.eof
          /\ o.s.data = t.data /\ o.s.err = t.err
          /\ Position(o.s) = Position(t) /\ Ahead(o.s) = Ahead(t)
      BY <1>3, <3>2, <3>3
    <3>5. o.s.eof = (o.r = EOF)
      <4>1. o.s.eof \in BOOLEAN
        BY <3>4 DEF Sound, State
      <4> QED
        BY <3>3, <3>4, <4>1
    <3>6. o.r = NextOf(s.text, input, i - 1)
      BY <2>5, <2>7, <3>3
    <3> QED
      BY <2>2, <2>4, <2>5, <3>2, <3>3, <3>4, <3>5, <3>6 DEF input
  <2>8. CASE ~ (s.text /\ input[i] = SUB)
    <3>1. PICK t \in Consume(s, i) : o = Out(t, input[i])
      BY <1>4, <1>6, <2>8
    <3> HIDE DEF stops
    <3>2. /\ Sound(t) /\ ~ t.writing /\ SameStream(s, t) /\ t.data = s.data /\ t.err = s.err
          /\ ~ t.eof /\ Position(t) = Position(s) + i /\ Ahead(t) = From(input, i)
      BY <1>2, <2>2
    <3>3. o.s = t /\ o.r = input[i]
      BY <3>1 DEF Out
    <3>4. o.s.eof = (o.r = EOF)
      <4>1. t.eof \in BOOLEAN
        BY <3>2 DEF Sound, State
      <4> QED
        BY <2>6, <3>2, <3>3, <4>1
    <3>5. o.r = NextOf(s.text, input, i - 1)
      BY <2>5, <2>8, <3>3
    <3> QED
      BY <2>2, <2>4, <2>5, <2>6, <3>2, <3>3, <3>4, <3>5 DEF input
  <2> QED
    BY <2>7, <2>8
<1> QED
  BY <1>5, <1>6 DEF input
-----------------------------------------------------------------------------
(* What each call does: it keeps the invariant, reports what it drops, and *)
(* where writes succeed shows the client one call of the abstract stream.  *)
SameView(s, t) ==
  Content(t) = Content(s) /\ Position(t) = Position(s) /\ Ahead(t) = Ahead(s)

Drops == fp.writing /\ ~ fp'.writing /\ fp'.mode # "closed" /\ fp.pend # << >>
           => fp'.err \/ fp'.data = Overwrite(fp.data, fp.at, fp.pend)

(* The indicators alone change.                                            *)
LEMMA IndicatorsOK ==
  ASSUME NEW s, Sound(s), NEW t, t \in State,
         t.data = s.data, t.at = s.at, t.pend = s.pend, t.served = s.served,
         t.writing = s.writing, t.text = s.text, t.good = s.good, t.mode = s.mode,
         t.mode = "closed" => ~ t.eof
  PROVE  Sound(t) /\ SameStream(s, t) /\ SameView(s, t)
  BY DEF Sound, SameStream, SameView, Content, Position, Ahead

LEMMA RefusedOK ==
  ASSUME NEW s, Sound(s), NEW t, t = FlushError(s)
  PROVE  /\ Sound(t) /\ SameStream(s, t) /\ SameView(s, t) /\ t.writing = s.writing
         /\ t.data = s.data /\ t.eof = s.eof
<1>1. s \in State /\ (s.mode = "closed" => ~ s.eof)
  BY DEF Sound
<1>2. /\ t \in State /\ t.data = s.data /\ t.at = s.at /\ t.pend = s.pend /\ t.served = s.served
      /\ t.writing = s.writing /\ t.eof = s.eof /\ t.text = s.text /\ t.good = s.good
      /\ t.mode = s.mode
  BY <1>1 DEF State, FlushError
<1> QED
  BY <1>1, <1>2, IndicatorsOK

(* A failed read of fgetc's loop leaves the file alone.                    *)
LEMMA ReadFailedOK ==
  ASSUME NEW s, Sound(s), ~ s.writing, s.mode # "closed", NEW o \in ReadFailed(s)
  PROVE  /\ Sound(o.s) /\ ~ o.s.writing /\ SameStream(s, o.s) /\ ~ s.good
         /\ o.s.data = s.data /\ o.s.err /\ o.r = EOF
<1> DEFINE p == s.pend
           q == From(s.data, s.at)
           input == p \o q
<1>1. /\ p \in Seq(Datum) /\ s.data \in Seq(Datum) /\ s.at \in 0 .. Len(s.data)
      /\ Len(s.data) \in Nat /\ s.at \in Nat /\ Len(p) \in Nat
  BY SoundType
<1>2. Len(input) = Len(p) + (Len(s.data) - s.at) /\ Len(input) \in Nat
  <2>1. q \in Seq(Datum) /\ Len(q) = Len(s.data) - s.at
    BY <1>1, FromType
  <2> HIDE DEF p, q
  <2>2. Len(p \o q) = Len(p) + Len(q)
    BY <1>1, <2>1, ConcatProperties
  <2>3. Len(p) + (Len(s.data) - s.at) \in Nat
    BY <1>1
  <2> QED
    BY <2>1, <2>2, <2>3
<1>3. PICK m \in Len(p) .. Len(input) : \E t \in Consume(s, m) : ~ t.good /\ o = Out(FlushError(t), EOF)
  <2> DEFINE skipped == {m \in Len(p) .. Len(input) : \A k \in 1 .. m : s.text /\ input[k] = CR}
  <2>1. PICK t \in UNION {Consume(s, m) : m \in skipped} : ~ t.good /\ o = Out(FlushError(t), EOF)
    BY DEF ReadFailed
  <2> QED
    BY <2>1
<1>4. PICK t \in Consume(s, m) : ~ t.good /\ o = Out(FlushError(t), EOF)
  BY <1>3
<1>5. m \in 0 .. Len(s.pend) + (Len(s.data) - s.at)
  BY <1>1, <1>2
<1>6. Sound(t) /\ ~ t.writing /\ SameStream(s, t) /\ t.data = s.data
  BY <1>5, ConsumeOK
<1> DEFINE e == FlushError(t)
<1>7. o.s = e /\ o.r = EOF
  BY <1>4 DEF Out
<1>8. e.err
  BY <1>6, SoundType DEF FlushError, State
<1> HIDE DEF e
<1>9. Sound(e) /\ SameStream(t, e) /\ e.writing = t.writing /\ e.data = t.data
  BY <1>6, RefusedOK DEF e
<1> QED
  BY <1>4, <1>6, <1>7, <1>8, <1>9 DEF SameStream

(* The client sees a character read, and what it cost.                     *)
ReadsOne(s, t, r) ==
  \E i \in 0 .. Len(Ahead(s)) :
    /\ IsSkip(s.text, Ahead(s), i) /\ r = NextOf(s.text, Ahead(s), i)
    /\ t.eof = (r = EOF) /\ Content(t) = Content(s)
    /\ Position(t) = Position(s) + TakenOf(Ahead(s), i)
    /\ Ahead(t) = From(Ahead(s), TakenOf(Ahead(s), i))

LEMMA FgetcOK ==
  ASSUME IInv, Fgetc
  PROVE  /\ IInv' /\ Drops /\ SameStream(fp, fp')
         /\ fp.good => \/ /\ fp.mode = "w" \/ fp.eof
                          /\ ret' = EOF /\ SameView(fp, fp') /\ fp'.eof = fp.eof
                       \/ CanRead(fp) /\ ~ fp.eof /\ ReadsOne(fp, fp', ret')
<1>1. Sound(fp) /\ fp.mode # "closed" /\ fp.mode \in {"r", "w", "r+", "closed"}
  BY SoundType DEF IInv, Fgetc
<1>2. CASE ~ CanRead(fp)
  <2>1. fp' = FlushError(fp) /\ ret' = EOF
    BY <1>2 DEF Fgetc, Result, Out
  <2>2. /\ Sound(fp') /\ SameStream(fp, fp') /\ SameView(fp, fp') /\ fp'.writing = fp.writing
        /\ fp'.eof = fp.eof
    BY <1>1, <2>1, RefusedOK
  <2>3. fp.mode = "w"
    BY <1>1, <1>2 DEF CanRead
  <2> QED
    BY <2>1, <2>2, <2>3 DEF IInv, Drops
<1>3. CASE CanRead(fp)
  <2>1. PICK s \in TurnedToRead(fp) :
          \/ s.eof /\ Result(Out(s, EOF))
          \/ ~ s.eof /\ \E o \in GetChar(s) \cup ReadFailed(s) : Result(o)
    BY <1>3 DEF Fgetc
  <2>2. /\ Sound(s) /\ ~ s.writing /\ SameStream(fp, s)
        /\ fp.writing => s.err \/ s.data = Overwrite(fp.data, fp.at, fp.pend)
        /\ fp.good => /\ s.eof = fp.eof /\ Content(s) = Content(fp)
                      /\ Position(s) = Position(fp) /\ Ahead(s) = Ahead(fp)
    BY <1>1, <1>3, TurnedToReadOK
  <2>3. CASE s.eof /\ Result(Out(s, EOF))
    <3>1. fp' = s /\ ret' = EOF
      BY <2>3 DEF Result, Out
    <3> QED
      BY <2>2, <2>3, <3>1 DEF IInv, Drops, SameView
  <2>4. CASE ~ s.eof /\ \E o \in GetChar(s) : Result(o)
    <3>1. PICK o \in GetChar(s) : fp' = o.s /\ ret' = o.r
      BY <2>4 DEF Result
    <3>2. s.mode # "closed" /\ s.text = fp.text /\ s.good = fp.good
      BY <1>1, <2>2 DEF SameStream
    <3>3. /\ Sound(o.s) /\ ~ o.s.writing /\ SameStream(s, o.s)
          /\ o.s.data = s.data /\ o.s.err = s.err
          /\ o.r \in Nat \cup {EOF} /\ o.s.eof = (o.r = EOF)
          /\ \E i \in 0 .. Len(Ahead(s)) :
               /\ IsSkip(s.text, Ahead(s), i) /\ o.r = NextOf(s.text, Ahead(s), i)
               /\ Position(o.s) = Position(s) + TakenOf(Ahead(s), i)
               /\ Ahead(o.s) = From(Ahead(s), TakenOf(Ahead(s), i))
      BY <2>2, <2>4, <3>2, GetCharOK
    <3>4. SameStream(fp, fp')
      BY <2>2, <3>1, <3>3 DEF SameStream
    <3>5. IInv' /\ Drops
      BY <2>2, <3>1, <3>3 DEF IInv, Drops
    <3>6. ASSUME fp.good
          PROVE  ~ fp.eof /\ ReadsOne(fp, fp', ret')
      <4>1. Content(o.s) = Content(s)
        BY <2>2, <3>3 DEF Content
      <4>2. /\ s.eof = fp.eof /\ Content(s) = Content(fp)
            /\ Position(s) = Position(fp) /\ Ahead(s) = Ahead(fp)
        BY <2>2, <3>6
      <4>3. \E i \in 0 .. Len(Ahead(fp)) :
               /\ IsSkip(fp.text, Ahead(fp), i) /\ ret' = NextOf(fp.text, Ahead(fp), i)
               /\ Position(fp') = Position(fp) + TakenOf(Ahead(fp), i)
               /\ Ahead(fp') = From(Ahead(fp), TakenOf(Ahead(fp), i))
        BY <3>1, <3>2, <3>3, <4>2
      <4>4. Content(fp') = Content(fp) /\ fp'.eof = (ret' = EOF)
        BY <3>1, <3>3, <4>1, <4>2
      <4> QED
        BY <2>4, <4>2, <4>3, <4>4 DEF ReadsOne
    <3> QED
      BY <1>3, <3>4, <3>5, <3>6
  <2>5. CASE ~ s.eof /\ \E o \in ReadFailed(s) : Result(o)
    <3>1. PICK o \in ReadFailed(s) : fp' = o.s /\ ret' = o.r
      BY <2>5 DEF Result
    <3>2. s.mode # "closed" /\ s.good = fp.good
      BY <1>1, <2>2 DEF SameStream
    <3>3. /\ Sound(o.s) /\ ~ o.s.writing /\ SameStream(s, o.s) /\ ~ s.good
          /\ o.s.data = s.data /\ o.s.err /\ o.r = EOF
      BY <2>2, <3>2, ReadFailedOK
    <3>4. SameStream(fp, fp')
      BY <2>2, <3>1, <3>3 DEF SameStream
    <3>5. IInv' /\ Drops
      BY <3>1, <3>3 DEF IInv, Drops
    <3> QED
      BY <3>2, <3>3, <3>4, <3>5
  <2> QED
    BY <2>1, <2>3, <2>4, <2>5
<1> QED
  BY <1>2, <1>3

(* A byte, in text mode with its carriage return, replaces what was there. *)
LEMMA FputcOK ==
  ASSUME IInv, NEW c \in Bytes(fp.good), Fputc(c)
  PROVE  /\ IInv' /\ Drops /\ SameStream(fp, fp')
         /\ fp.good =>
              \/ fp.mode = "r" /\ ret' = EOF /\ SameView(fp, fp') /\ fp'.eof = fp.eof
              \/ /\ CanWrite(fp) /\ ret' = c /\ fp'.eof = fp.eof
                 /\ Content(fp') = Overwrite(Content(fp), Position(fp), Translated(fp, c))
                 /\ Position(fp') = Position(fp) + Len(Translated(fp, c))
                 /\ Ahead(fp') = From(Content(fp'), Position(fp'))
<1>1. /\ Sound(fp) /\ fp.mode # "closed" /\ fp.mode \in {"r", "w", "r+", "closed"}
      /\ fp.good \in BOOLEAN
  BY SoundType DEF IInv, Fputc
<1>2. c \in Datum /\ c \in Nat
  BY <1>1, Constants DEF Datum
<1>3. CASE ~ CanWrite(fp)
  <2>1. fp' = FlushError(fp) /\ ret' = EOF
    BY <1>3 DEF Fputc, Result, Out
  <2>2. /\ Sound(fp') /\ SameStream(fp, fp') /\ SameView(fp, fp') /\ fp'.writing = fp.writing
        /\ fp'.eof = fp.eof
    BY <1>1, <2>1, RefusedOK
  <2>3. fp.mode = "r"
    BY <1>1, <1>3 DEF CanWrite
  <2> QED
    BY <2>1, <2>2, <2>3 DEF IInv, Drops
<1>4. CASE CanWrite(fp)
  <2> DEFINE t == TurnedToWrite(fp)
  <2>1. PICK o \in PutChar(t, c) : fp' = o.s /\ ret' = IF o.r = EOF THEN EOF ELSE c
    BY <1>4 DEF Fputc, Result, Out
  <2>2. /\ Pending(t) /\ SameStream(fp, t) /\ (t.good => Len(t.pend) < BufSize)
        /\ t.eof = fp.eof /\ Content(t) = Content(fp) /\ Position(t) = Position(fp)
    BY <1>1, TurnedToWriteOK
  <2> HIDE DEF t
  <2>3. /\ Sound(o.s) /\ o.s.writing /\ SameStream(t, o.s)
        /\ \/ /\ o.r = 0 /\ o.s.eof = t.eof
              /\ Position(o.s) = Position(t) + Len(Translated(t, c))
              /\ Content(o.s) = Overwrite(Content(t), Position(t), Translated(t, c))
           \/ o.r = EOF /\ ~ t.good
    BY <1>2, <2>1, <2>2, PutCharOK
  <2>4. SameStream(fp, fp')
    BY <2>1, <2>2, <2>3 DEF SameStream
  <2>5. IInv' /\ Drops
    BY <1>2, <2>1, <2>3 DEF IInv, Drops
  <2>6. Translated(t, c) = Translated(fp, c)
    BY <2>2 DEF Translated, SameStream
  <2>7. Ahead(fp') = From(Content(fp'), Position(fp'))
    BY <1>1, <2>1, <2>3, <2>4 DEF Ahead, SameStream
  <2>8. ASSUME fp.good
        PROVE  /\ ret' = c /\ fp'.eof = fp.eof
               /\ Content(fp') = Overwrite(Content(fp), Position(fp), Translated(fp, c))
               /\ Position(fp') = Position(fp) + Len(Translated(fp, c))
    <3>1. o.r = 0 /\ o.r # EOF
      BY <2>2, <2>3, <2>8 DEF SameStream, EOF
    <3> QED
      BY <2>1, <2>2, <2>3, <2>6, <3>1
  <2> QED
    BY <1>4, <2>4, <2>5, <2>7, <2>8
<1> QED
  BY <1>3, <1>4

LEMMA UngetcOK ==
  ASSUME IInv, NEW c \in Bytes(fp.good), Ungetc(c)
  PROVE  /\ IInv' /\ Drops /\ SameStream(fp, fp')
         /\ \/ ret' = EOF /\ SameView(fp, fp') /\ fp'.eof = fp.eof
            \/ /\ CanRead(fp) /\ Position(fp) > 0 /\ ret' = c /\ ~ fp'.eof
               /\ Content(fp') = Content(fp) /\ Position(fp') = Position(fp) - 1
               /\ Ahead(fp') = <<c>> \o Ahead(fp)
<1>1. /\ Sound(fp) /\ fp.mode # "closed" /\ fp.mode \in {"r", "w", "r+", "closed"}
      /\ fp.good \in BOOLEAN /\ ~ fp.writing /\ Position(fp) > 0
  BY SoundType DEF IInv, Ungetc
<1>2. c \in Datum /\ c \in Nat
  BY <1>1, Constants DEF Datum
<1>3. CASE fp' = fp /\ ret' = EOF
  BY <1>1, <1>3 DEF IInv, Drops, SameStream, SameView
<1>4. ASSUME NEW n \in 0 .. BufSize, n + Len(fp.pend) + 1 <= BufSize,
             fp' = [fp EXCEPT !.pend = <<c>> \o fp.pend, !.eof = FALSE, !.served = n], ret' = c
      PROVE  /\ IInv' /\ Drops /\ SameStream(fp, fp') /\ CanRead(fp) /\ ret' = c /\ ~ fp'.eof
             /\ Content(fp') = Content(fp) /\ Position(fp') = Position(fp) - 1
             /\ Ahead(fp') = <<c>> \o Ahead(fp)
  <2>1. /\ fp \in State /\ fp.data \in Seq(Datum) /\ fp.pend \in Seq(Datum)
        /\ Len(fp.pend) \in Nat /\ fp.at \in 0 .. Len(fp.data) /\ fp.at \in Nat /\ Len(fp.data) \in Nat
    BY <1>1, SoundType
  <2> DEFINE u == <<c>>
             p == fp.pend
             q == From(fp.data, fp.at)
             x == u \o p
  <2>2. u \in Seq(Datum) /\ Len(u) = 1
    BY <1>2
  <2>3. p \in Seq(Datum) /\ q \in Seq(Datum) /\ Len(p) \in Nat
    BY <2>1, FromType
  <2>4. x \in Seq(Datum) /\ Len(x) = 1 + Len(p) /\ x \o q = u \o (p \o q)
    <3> HIDE DEF u, p, q
    <3>1. u \o p \in Seq(Datum) /\ Len(u \o p) = Len(u) + Len(p)
      BY <2>2, <2>3, ConcatProperties
    <3>2. (u \o p) \o q = u \o (p \o q)
      <4>1. u \in Seq(Datum) /\ p \in Seq(Datum) /\ q \in Seq(Datum)
        BY <2>2, <2>3
      <4> QED
        BY <4>1, ConcatAssociative, SMTT(30)
    <3> QED
      BY <2>2, <2>3, <3>1, <3>2
  <2>5. fp' = [fp EXCEPT !.pend = x, !.eof = FALSE, !.served = n]
    BY <1>4
  <2>6. Position(fp) = fp.at - Len(p) /\ Ahead(fp) = p \o q
    BY <1>1 DEF Position, Ahead
  <2>7. x \in Seq(Byte \cup {CR})
    BY <2>4 DEF Datum
  <2> HIDE DEF x, u, p, q
  <2>8. /\ fp' \in State /\ fp'.data = fp.data /\ fp'.at = fp.at /\ fp'.pend = x /\ fp'.served = n
        /\ fp'.writing = fp.writing /\ ~ fp'.eof /\ fp'.err = fp.err /\ fp'.text = fp.text
        /\ fp'.good = fp.good /\ fp'.mode = fp.mode
    BY <1>4, <2>1, <2>5, <2>7 DEF State
  <2>9. Len(p) + 1 <= fp.at /\ Position(fp) - 1 = fp.at - (1 + Len(p))
    BY <1>1, <2>1, <2>3, <2>6
  <2>10. Sound(fp')
    <3>1. n + Len(fp'.pend) <= BufSize /\ Len(fp'.pend) <= fp'.at /\ fp'.at <= Len(fp'.data)
      <4>1. n + Len(p) + 1 <= BufSize
        BY <1>4 DEF p
      <4>2. n \in Nat /\ Len(p) \in Nat /\ Len(fp'.pend) = 1 + Len(p) /\ BufSize \in Nat
        BY <1>4, <2>3, <2>4, <2>8, Constants, SMTT(30)
      <4>3. n + Len(fp'.pend) <= BufSize
        BY <4>1, <4>2
      <4> QED
        BY <2>1, <2>8, <2>9, <4>2, <4>3
    <3> QED
      BY <1>1, <2>8, <3>1 DEF Sound
  <2>11. Content(fp') = Content(fp)
    BY <1>1, <2>8 DEF Content
  <2>12. Position(fp') = Position(fp) - 1
    BY <1>1, <2>4, <2>8, <2>9 DEF Position
  <2>13. Ahead(fp') = u \o Ahead(fp)
    BY <1>1, <2>4, <2>6, <2>8 DEF Ahead, q
  <2>14. CanRead(fp)
    BY <1>1 DEF CanRead, Sound
  <2> QED
    BY <1>1, <1>2, <1>4, <2>8, <2>10, <2>11, <2>12, <2>13, <2>14 DEF IInv, Drops, SameStream, u
<1>5. \/ fp' = fp /\ ret' = EOF
      \/ \E n \in 0 .. BufSize :
           /\ n + Len(fp.pend) + 1 <= BufSize /\ ret' = c
           /\ fp' = [fp EXCEPT !.pend = <<c>> \o fp.pend, !.eof = FALSE, !.served = n]
  <2> DEFINE x == <<c>> \o fp.pend
             t == [fp EXCEPT !.pend = x, !.eof = FALSE]
  <2>1. /\ fp \in State /\ Len(fp.pend) \in Nat /\ fp.served \in 0 .. BufSize /\ BufSize \in Nat
        /\ fp.served + Len(fp.pend) <= BufSize
    BY <1>1, SoundType, Constants DEF Sound
  <2>2. \/ fp.served > 0 /\ Result(Out([t EXCEPT !.served = @ - 1], c))
        \/ fp.served = 0 /\ Len(fp.pend) < BufSize /\ Result(Out(t, c))
        \/ fp.served = 0 /\ Len(fp.pend) >= BufSize /\ Result(Out(fp, EOF))
    BY <2>1 DEF Ungetc, State
  <2>3. t.served = fp.served
    BY <2>1 DEF State
  <2>4. CASE fp.served > 0 /\ Result(Out([t EXCEPT !.served = @ - 1], c))
    <3>1. fp' = [t EXCEPT !.served = fp.served - 1] /\ ret' = c
      BY <2>3, <2>4 DEF Result, Out
    <3>2. [t EXCEPT !.served = fp.served - 1]
            = [fp EXCEPT !.pend = x, !.eof = FALSE, !.served = fp.served - 1]
      <4> HIDE DEF x
      <4> QED
        BY <2>1 DEF State
    <3>3. fp.served - 1 \in 0 .. BufSize /\ (fp.served - 1) + Len(fp.pend) + 1 <= BufSize
      BY <2>1, <2>4
    <3> QED
      BY <3>1, <3>2, <3>3
  <2>5. CASE fp.served = 0 /\ Len(fp.pend) < BufSize /\ Result(Out(t, c))
    <3>1. fp' = t /\ ret' = c
      BY <2>5 DEF Result, Out
    <3>2. t = [fp EXCEPT !.pend = x, !.eof = FALSE, !.served = 0]
      <4> HIDE DEF x
      <4> QED
        BY <2>1, <2>5 DEF State
    <3>3. 0 \in 0 .. BufSize /\ 0 + Len(fp.pend) + 1 <= BufSize
      BY <2>1, <2>5
    <3> QED
      BY <3>1, <3>2, <3>3
  <2>6. CASE Result(Out(fp, EOF))
    BY <2>6 DEF Result, Out
  <2> QED
    BY <2>2, <2>4, <2>5, <2>6
<1> QED
  BY <1>1, <1>3, <1>4, <1>5

(* What a flush leaves, in either orientation.                             *)
LEMMA AnyFlushOK ==
  ASSUME NEW s, Sound(s), s.mode # "closed", NEW o \in Flushed(s)
  PROVE  /\ Sound(o.s) /\ SameStream(s, o.s) /\ o.s.writing = s.writing
         /\ o.r \in {0, EOF}
         /\ s.writing => o.s.err \/ o.s.data = Overwrite(s.data, s.at, s.pend)
         /\ s.good => /\ o.r = 0 /\ o.s.eof = s.eof /\ SameView(s, o.s)
                      /\ o.s.data = Content(s) /\ (s.writing => o.s.pend = << >>)
<1>1. CASE ~ s.writing
  <2>1. o.s = s /\ o.r = 0
    BY <1>1 DEF Flushed, Out
  <2> QED
    BY <1>1, <2>1 DEF SameStream, SameView, Content
<1>2. CASE s.writing
  <2>1. Pending(s)
    BY <1>2, SoundIsPending
  <2>2. /\ Pending(o.s) /\ o.s.text = s.text /\ o.s.good = s.good /\ o.s.mode = s.mode
        /\ \/ o.r = 0 /\ o.s = AllWritten(s)
           \/ o.r = EOF /\ ~ s.good /\ o.s.err
    BY <2>1, FlushedOK
  <2>3. o.s.writing = s.writing
    <3>1. o.s.writing \in BOOLEAN /\ s.writing \in BOOLEAN /\ o.s.writing
      BY <2>1, <2>2 DEF Pending, State
    <3> QED
      BY <1>2, <3>1
  <2>4. CASE o.r = 0 /\ o.s = AllWritten(s)
    <3>1. o.s.pend = << >> /\ o.s.eof = s.eof /\ o.s.data = Overwrite(s.data, s.at, s.pend)
      BY <2>1, <2>4, AllWrittenState
    <3>2. Content(o.s) = Content(s) /\ Position(o.s) = Position(s)
      BY <2>1, <2>4, FlushShowsNothing
    <3>3. Ahead(o.s) = Ahead(s)
      BY <1>2, <2>2, <2>3, <3>2 DEF Ahead
    <3>4. Sound(o.s)
      <4>1. Len(o.s.pend) < BufSize
        BY <3>1, Constants
      <4> QED
        BY <2>2, <4>1, PendingIsSound
    <3>5. o.s.data = Content(s)
      BY <2>1, <3>1, ContentType
    <3> QED
      BY <2>2, <2>3, <2>4, <3>1, <3>2, <3>3, <3>4, <3>5 DEF SameStream, SameView
  <2>5. CASE o.r = EOF /\ ~ s.good /\ o.s.err
    BY <2>2, <2>3, <2>5, PendingIsSound DEF SameStream
  <2> QED
    BY <2>2, <2>4, <2>5
<1> QED
  BY <1>1, <1>2

LEMMA FseekOK ==
  ASSUME IInv, NEW off \in Int, NEW fromCurrent \in BOOLEAN, Fseek(off, fromCurrent)
  PROVE  /\ IInv' /\ Drops /\ SameStream(fp, fp')
         /\ fp.good => /\ Position(fp') \in 0 .. Len(Content(fp)) /\ ret' = 0 /\ ~ fp'.eof
                       /\ Content(fp') = Content(fp)
                       /\ Ahead(fp') = From(Content(fp), Position(fp'))
<1>1. Sound(fp) /\ fp.mode # "closed"
  BY DEF IInv, Fseek
<1>a. PICK o \in Flushed(fp) : \E to \in 0 .. Len(o.s.data) :
        fp' = [Sought(o.s) EXCEPT !.at = to] /\ ret' = 0
  BY DEF Fseek, Result, Out
<1>2. PICK to \in 0 .. Len(o.s.data) : fp' = [Sought(o.s) EXCEPT !.at = to] /\ ret' = 0
  BY <1>a
<1>3. /\ Sound(o.s) /\ SameStream(fp, o.s) /\ o.s.writing = fp.writing
      /\ fp.writing => o.s.err \/ o.s.data = Overwrite(fp.data, fp.at, fp.pend)
      /\ fp.good => o.s.data = Content(fp)
  BY <1>1, <1>a, AnyFlushOK
<1>4. /\ o.s \in State /\ o.s.data \in Seq(Datum) /\ to \in Nat /\ to <= Len(o.s.data)
      /\ Len(o.s.data) \in Nat
  BY <1>2, <1>3, SoundType
<1>5. << >> \in Seq(Byte \cup {CR}) /\ 0 \in 0 .. BufSize /\ BufSize \in Nat \ {0}
  BY Constants
<1>6. (o.s.writing /\ ~ CanRead(o.s)) \in BOOLEAN
  BY <1>4 DEF State, CanRead
<1>7. /\ fp' \in State /\ fp'.data = o.s.data /\ fp'.at = to /\ fp'.pend = << >> /\ fp'.served = 0
      /\ fp'.writing = (o.s.writing /\ ~ CanRead(o.s)) /\ ~ fp'.eof /\ fp'.err = o.s.err
      /\ SameStream(fp, fp')
  BY <1>2, <1>3, <1>4, <1>5, <1>6 DEF Sought, Emptied, State, SameStream
<1>8. Len(fp'.pend) = 0
  BY <1>7
<1>9. Sound(fp')
  <2>1. fp'.mode = o.s.mode /\ o.s.mode # "closed"
    BY <1>1, <1>3, <1>7 DEF SameStream
  <2>2. fp'.mode = "w" => fp'.writing
    BY <1>3, <1>7, <2>1 DEF Sound, CanRead
  <2> QED
    BY <1>4, <1>5, <1>7, <1>8, <2>1, <2>2 DEF Sound
<1>10. IInv' /\ Drops
  BY <1>2, <1>3, <1>7, <1>9 DEF IInv, Drops
<1>11. Content(fp') = fp'.data /\ Position(fp') = to /\ Ahead(fp') = From(fp'.data, to)
  <2>1. fp'.mode # "closed"
    BY <1>1, <1>7 DEF SameStream
  <2>2. CASE fp'.writing
    <3>1. Pending(fp')
      BY <1>9, <2>2, SoundIsPending
    <3>2. Content(fp') = Overwrite(fp'.data, fp'.at, << >>) /\ Position(fp') = to + 0
      BY <1>7, <1>8, <3>1, ContentType
    <3>3. fp'.data \in Seq(Datum) /\ to \in 0 .. Len(fp'.data)
      BY <1>2, <1>4, <1>7
    <3>4. Overwrite(fp'.data, to, << >>) = fp'.data
      BY <3>3, OverwriteNothing
    <3>5. Content(fp') = fp'.data /\ Position(fp') = to
      BY <1>4, <1>7, <3>2, <3>4
    <3> QED
      BY <2>1, <2>2, <3>5 DEF Ahead
  <2>3. CASE ~ fp'.writing
    <3>1. Content(fp') = fp'.data /\ Position(fp') = to - 0
      BY <1>7, <1>8, <2>3 DEF Content, Position
    <3>2. Ahead(fp') = << >> \o From(fp'.data, to)
      BY <1>7, <2>1, <2>3 DEF Ahead
    <3>3. From(fp'.data, to) \in Seq(Datum)
      BY <1>4, <1>7, FromType
    <3> QED
      BY <1>4, <3>1, <3>2, <3>3, ConcatEmptySeq
  <2> QED
    BY <2>2, <2>3
<1> QED
  BY <1>2, <1>3, <1>7, <1>10, <1>11

LEMMA FtellOK ==
  ASSUME IInv, Ftell
  PROVE  IInv' /\ fp' = fp /\ ret' = Position(fp)
<1>1. Sound(fp) /\ fp' = fp /\ ret' = Position(fp)
  BY DEF IInv, Ftell, Result, Out
<1>2. Position(fp) \in Nat
  <2>1. Len(fp.pend) \in Nat /\ fp.at \in Nat
    BY <1>1, SoundType
  <2> QED
    BY <1>1, <2>1 DEF Position, Sound
<1> QED
  BY <1>1, <1>2 DEF IInv

LEMMA FflushOK ==
  ASSUME IInv, Fflush
  PROVE  /\ IInv' /\ Drops /\ SameStream(fp, fp')
         /\ fp.good => ret' = 0 /\ fp'.eof = fp.eof /\ SameView(fp, fp')
<1>1. Sound(fp) /\ fp.mode # "closed"
  BY DEF IInv, Fflush
<1>2. PICK o \in Flushed(fp) : fp' = o.s /\ ret' = o.r
  BY DEF Fflush, Result
<1>3. /\ Sound(o.s) /\ SameStream(fp, o.s) /\ o.s.writing = fp.writing /\ o.r \in {0, EOF}
      /\ fp.good => o.r = 0 /\ o.s.eof = fp.eof /\ SameView(fp, o.s)
  BY <1>1, <1>2, AnyFlushOK
<1> QED
  BY <1>2, <1>3 DEF IInv, Drops

LEMMA ClearerrOK ==
  ASSUME IInv, Clearerr
  PROVE  /\ IInv' /\ Drops /\ SameStream(fp, fp') /\ SameView(fp, fp')
         /\ ~ fp'.eof /\ UNCHANGED ret
<1>1. Sound(fp) /\ fp \in State /\ fp.mode # "closed"
  BY SoundType DEF IInv, Clearerr
<1>2. /\ fp' \in State /\ fp'.data = fp.data /\ fp'.at = fp.at /\ fp'.pend = fp.pend
      /\ fp'.served = fp.served /\ fp'.writing = fp.writing /\ ~ fp'.eof
      /\ fp'.text = fp.text /\ fp'.good = fp.good /\ fp'.mode = fp.mode
  BY <1>1 DEF Clearerr, State
<1>3. Sound(fp') /\ SameStream(fp, fp') /\ SameView(fp, fp')
  BY <1>1, <1>2, IndicatorsOK
<1> QED
  BY <1>2, <1>3 DEF IInv, Drops, Clearerr

LEMMA FcloseOK ==
  ASSUME IInv, Fclose
  PROVE  /\ IInv' /\ Drops /\ fp'.text = fp.text /\ fp'.good = fp.good /\ fp'.mode = "closed"
         /\ Position(fp') = 0 /\ Ahead(fp') = << >> /\ ~ fp'.eof
         /\ ret' = IF fp.mode = "closed" THEN EOF ELSE 0
         /\ fp.good => Content(fp') = Content(fp)
<1>1. Sound(fp) /\ fp \in State
  BY SoundType DEF IInv
<1>2. CASE fp.mode = "closed"
  <2>1. fp' = fp /\ ret' = EOF
    BY <1>2 DEF Fclose, Result, Out
  <2>2. fp.at = 0 /\ fp.pend = << >> /\ ~ fp.writing /\ ~ fp.eof
    BY <1>1, <1>2 DEF Sound
  <2>3. Position(fp') = 0 - 0
    BY <2>1, <2>2 DEF Position
  <2>4. Ahead(fp') = << >>
    BY <1>2, <2>1 DEF Ahead
  <2>5. IInv' /\ Drops
    BY <1>1, <2>1, <2>2 DEF IInv, Drops
  <2> QED
    BY <1>2, <2>1, <2>2, <2>3, <2>4, <2>5
<1>3. CASE fp.mode # "closed"
  <2>1. PICK o \in Flushed(fp) : fp' = Closed(o.s) /\ ret' = 0
    BY <1>3 DEF Fclose, Result, Out
  <2>2. /\ Sound(o.s) /\ SameStream(fp, o.s) /\ (fp.good => o.s.data = Content(fp))
    BY <1>1, <1>3, <2>1, AnyFlushOK
  <2>3. o.s \in State /\ Len(o.s.data) \in Nat
    BY <2>2, SoundType
  <2>4. << >> \in Seq(Byte \cup {CR}) /\ 0 \in 0 .. BufSize /\ BufSize \in Nat
    BY Constants
  <2>5. /\ fp' \in State /\ fp'.data = o.s.data /\ fp'.at = 0 /\ fp'.pend = << >>
        /\ fp'.served = 0 /\ ~ fp'.writing /\ ~ fp'.eof /\ fp'.mode = "closed"
        /\ fp'.text = fp.text /\ fp'.good = fp.good
    BY <2>1, <2>2, <2>3, <2>4 DEF Closed, Emptied, State, SameStream
  <2>6. Len(fp'.pend) = 0
    BY <2>5
  <2>7. Sound(fp')
    BY <2>3, <2>4, <2>5, <2>6 DEF Sound
  <2>8. Position(fp') = 0 /\ Ahead(fp') = << >> /\ Content(fp') = o.s.data
    <3>1. Position(fp') = 0 - 0
      BY <2>5, <2>6 DEF Position
    <3>2. Ahead(fp') = << >> /\ Content(fp') = o.s.data
      BY <2>5 DEF Ahead, Content
    <3> QED
      BY <3>1, <3>2
  <2> QED
    BY <1>3, <2>1, <2>2, <2>5, <2>7, <2>8 DEF IInv, Drops
<1> QED
  BY <1>2, <1>3
-----------------------------------------------------------------------------
LEMMA InitInv == Init => IInv
<1> SUFFICES ASSUME Init PROVE IInv
  OBVIOUS
<1>1. PICK mode \in {"r", "w", "r+"}, text \in BOOLEAN, good \in Disks, n \in 0 .. 2 :
        \E data \in [1 .. n -> Bytes(good)] :
          /\ mode = "w" => n = 0
          /\ fp = [data |-> data, at |-> 0, pend |-> << >>, served |-> 0,
                   writing |-> mode = "w", eof |-> FALSE, err |-> FALSE,
                   text |-> text, good |-> good, mode |-> mode]
  BY DEF Init
<1>2. PICK data \in [1 .. n -> Bytes(good)] :
        fp = [data |-> data, at |-> 0, pend |-> << >>, served |-> 0,
              writing |-> mode = "w", eof |-> FALSE, err |-> FALSE,
              text |-> text, good |-> good, mode |-> mode]
  BY <1>1
<1>3. good \in BOOLEAN /\ Bytes(good) \subseteq Byte
  BY Constants, StdioAssumption
<1>4. data \in Seq(Byte \cup {CR}) /\ Len(data) = n
  <2>1. data \in [1 .. n -> Byte \cup {CR}] /\ n \in Nat
    BY <1>3
  <2> QED
    BY <2>1, IsASeq, LenProperties
<1>5. << >> \in Seq(Byte \cup {CR}) /\ Len(<< >>) = 0 /\ 0 \in 0 .. BufSize /\ BufSize \in Nat \ {0}
  BY Constants
<1>6. /\ fp \in State /\ fp.data = data /\ fp.at = 0 /\ fp.pend = << >> /\ fp.served = 0
      /\ fp.writing = (mode = "w") /\ ~ fp.eof /\ fp.mode = mode
  BY <1>2, <1>3, <1>4, <1>5 DEF State
<1>7. Sound(fp)
  <2>1. fp.served + Len(fp.pend) = 0 /\ Len(fp.pend) = 0 /\ fp.at <= Len(fp.data)
    BY <1>4, <1>5, <1>6
  <2>2. 0 <= BufSize /\ 0 < BufSize
    BY <1>5
  <2>3. fp.mode # "closed" /\ (fp.mode = "w" => fp.writing)
    BY <1>6
  <2> QED
    BY <1>6, <2>1, <2>2, <2>3 DEF Sound
<1>8. ret \in Nat \cup {EOF}
  BY DEF Init
<1> QED
  BY <1>7, <1>8 DEF IInv

(* One step of the stream, whichever call it is.                           *)
LEMMA StepOK ==
  ASSUME IInv, [Next]_vars
  PROVE  IInv' /\ Drops /\ fp'.text = fp.text /\ fp'.good = fp.good
<1>1. CASE UNCHANGED vars
  BY <1>1 DEF vars, IInv, Drops
<1>2. CASE Fgetc
  BY <1>2, FgetcOK DEF SameStream
<1>3. CASE Ftell
  <2>1. IInv' /\ fp' = fp
    BY <1>3, FtellOK
  <2> QED
    BY <2>1 DEF Drops
<1>4. CASE Fflush
  BY <1>4, FflushOK DEF SameStream
<1>5. CASE Clearerr
  BY <1>5, ClearerrOK DEF SameStream
<1>6. CASE Fclose
  BY <1>6, FcloseOK
<1>7. ASSUME NEW c \in Bytes(fp.good), Fputc(c)
      PROVE  IInv' /\ Drops /\ fp'.text = fp.text /\ fp'.good = fp.good
  BY <1>7, FputcOK DEF SameStream
<1>8. ASSUME NEW c \in Bytes(fp.good), Ungetc(c)
      PROVE  IInv' /\ Drops /\ fp'.text = fp.text /\ fp'.good = fp.good
  BY <1>8, UngetcOK DEF SameStream
<1>9. ASSUME NEW off \in Int, NEW fromCurrent \in BOOLEAN, Fseek(off, fromCurrent)
      PROVE  IInv' /\ Drops /\ fp'.text = fp.text /\ fp'.good = fp.good
  BY <1>9, FseekOK DEF SameStream
<1>10. 0 .. MaxLen \subseteq Int /\ -1 .. 1 \subseteq Int
  BY StdioAssumption
<1> QED
  BY <1>1, <1>2, <1>3, <1>4, <1>5, <1>6, <1>7, <1>8, <1>9, <1>10 DEF Next

LEMMA Invariance == Spec => []IInv
<1>1. IInv /\ [Next]_vars => IInv'
  BY StepOK
<1> QED
  BY InitInv, <1>1, PTL DEF Spec

LEMMA IInvIsTyped == IInv => TypeOK
<1> SUFFICES ASSUME IInv PROVE TypeOK
  OBVIOUS
<1>1. /\ Sound(fp) /\ fp \in State /\ fp.served \in 0 .. BufSize /\ Len(fp.pend) \in Nat
      /\ BufSize \in Nat /\ fp.writing \in BOOLEAN
  <2>1. Sound(fp)
    BY DEF IInv
  <2> QED
    BY <2>1, SoundType, Constants DEF State
<1>2. fp.good => Len(fp.pend) <= BufSize
  BY <1>1 DEF Sound
<1> QED
  BY <1>1, <1>2 DEF IInv, TypeOK, Sound

(* Whatever clients call, in whatever order, and however reads are cut and *)
(* writes fail: the descriptor never leaves the file, and as long as no    *)
(* write fails the buffer holds what was put in it (fputc.c, ungetc.c).    *)
THEOREM BufferIsKept == Spec => []TypeOK
  BY Invariance, IInvIsTyped, PTL

(* fgetc and fseek drop what a failed write left in the buffer; the client *)
(* can tell from ferror() (fgetc.c, fseek.c).                              *)
THEOREM NothingDroppedSilently == Spec => DropsAreReported
<1>1. IInv /\ [Next]_vars
        => [fp.writing /\ ~ fp'.writing /\ fp'.mode # "closed" /\ fp.pend # << >>
              => fp'.err \/ fp'.data = Overwrite(fp.data, fp.at, fp.pend)]_vars
  BY StepOK DEF Drops
<1> QED
  BY Invariance, <1>1, PTL DEF Spec, DropsAreReported
-----------------------------------------------------------------------------
(* The refinement: where writes succeed, each call is the call of the same *)
(* name of the unbuffered stream.                                          *)
LEMMA SkippedIs ==
  ASSUME NEW s \in Seq(Datum), NEW i, IsSkip(fp.text, s, i)
  PROVE  /\ U!Skipped(s) = i /\ U!NextChar(s) = NextOf(fp.text, s, i)
         /\ U!Consumed(s) = TakenOf(s, i)
<1>1. U!Skipped(s) = i
  <2>1. CASE ~ fp.text
    BY <2>1 DEF IsSkip, U!Skipped
  <2>2. CASE fp.text
    <3>1. U!Skipped(s) = CHOOSE k \in 0 .. Len(s) : (\A j \in 1 .. k : s[j] = U!CR)
                                                      /\ (k = Len(s) \/ s[k + 1] # U!CR)
      BY <2>2 DEF U!Skipped
    <3>2. \E k \in 0 .. Len(s) : (\A j \in 1 .. k : s[j] = U!CR) /\ (k = Len(s) \/ s[k + 1] # U!CR)
      BY <2>2 DEF IsSkip, CR, U!CR
    <3>3. IsSkip(fp.text, s, U!Skipped(s))
      <4> DEFINE k == U!Skipped(s)
      <4>1. k \in 0 .. Len(s) /\ (\A j \in 1 .. k : s[j] = U!CR) /\ (k = Len(s) \/ s[k + 1] # U!CR)
        BY <3>1, <3>2
      <4> HIDE DEF k
      <4>2. IsSkip(fp.text, s, k)
        BY <2>2, <4>1 DEF IsSkip, CR, U!CR
      <4> QED
        BY <4>2 DEF k
    <3> QED
      BY <3>3, SkipUnique
  <2> QED
    BY <2>1, <2>2
<1> QED
  BY <1>1 DEF U!NextChar, U!Consumed, NextOf, TakenOf, EOF, U!EOF, SUB, U!SUB

LEMMA ViewType ==
  ASSUME NEW s, Sound(s)
  PROVE  /\ Content(s) \in Seq(Datum) /\ Position(s) \in 0 .. Len(Content(s))
         /\ Ahead(s) \in Seq(Datum)
<1>1. CASE s.writing
  <2>1. Pending(s) /\ s.mode # "closed"
    BY <1>1, SoundIsPending DEF Pending
  <2>2. Content(s) \in Seq(Datum) /\ Position(s) \in 0 .. Len(Content(s)) /\ Position(s) \in Nat
    BY <2>1, ContentType
  <2>3. Ahead(s) = From(Content(s), Position(s))
    BY <1>1, <2>1 DEF Ahead
  <2> QED
    BY <2>2, <2>3, FromType
<1>2. CASE ~ s.writing
  <2>1. Content(s) = s.data /\ Position(s) = s.at - Len(s.pend)
    BY <1>2 DEF Content, Position
  <2>2. /\ s.data \in Seq(Datum) /\ Len(s.pend) \in Nat /\ s.at \in 0 .. Len(s.data)
        /\ Len(s.data) \in Nat /\ Len(s.pend) <= s.at
    BY <1>2, SoundType DEF Sound
  <2>3. Position(s) \in 0 .. Len(Content(s))
    BY <2>1, <2>2
  <2>4. CASE s.mode = "closed"
    <3>1. Ahead(s) = << >>
      BY <2>4 DEF Ahead
    <3> QED
      BY <2>1, <2>2, <2>3, <3>1
  <2>5. CASE s.mode # "closed"
    BY <1>2, <2>1, <2>2, <2>3, <2>5, AheadType
  <2> QED
    BY <2>4, <2>5
<1> QED
  BY <1>1, <1>2

LEMMA GetcShown ==
  ASSUME IInv, Fgetc, fp.good
  PROVE  U!Getc
<1>1. /\ SameStream(fp, fp')
      /\ \/ /\ fp.mode = "w" \/ fp.eof
            /\ ret' = EOF /\ SameView(fp, fp') /\ fp'.eof = fp.eof
         \/ CanRead(fp) /\ ~ fp.eof /\ ReadsOne(fp, fp', ret')
  BY FgetcOK
<1>2. Ahead(fp) \in Seq(Datum)
  BY ViewType DEF IInv
<1>3. fp'.text = fp.text /\ fp'.good /\ fp'.mode = fp.mode
  BY <1>1 DEF SameStream
<1>4. CASE /\ fp.mode = "w" \/ fp.eof
           /\ ret' = EOF /\ SameView(fp, fp') /\ fp'.eof = fp.eof
  BY <1>3, <1>4 DEF U!Getc, U!Refused, Shown, SameView, EOF, U!EOF
<1>5. CASE CanRead(fp) /\ ~ fp.eof /\ ReadsOne(fp, fp', ret')
  <2>1. PICK i \in 0 .. Len(Ahead(fp)) :
          /\ IsSkip(fp.text, Ahead(fp), i) /\ ret' = NextOf(fp.text, Ahead(fp), i)
          /\ fp'.eof = (ret' = EOF) /\ Content(fp') = Content(fp)
          /\ Position(fp') = Position(fp) + TakenOf(Ahead(fp), i)
          /\ Ahead(fp') = From(Ahead(fp), TakenOf(Ahead(fp), i))
    BY <1>5 DEF ReadsOne
  <2>2. /\ U!NextChar(Ahead(fp)) = ret' /\ U!Consumed(Ahead(fp)) = TakenOf(Ahead(fp), i)
    BY <1>2, <2>1, SkippedIs
  <2>3. U!From(Ahead(fp), TakenOf(Ahead(fp), i)) = From(Ahead(fp), TakenOf(Ahead(fp), i))
    BY DEF From, U!From
  <2> QED
    BY <1>3, <1>5, <2>1, <2>2, <2>3 DEF U!Getc, Shown, CanRead, EOF, U!EOF
<1> QED
  BY <1>1, <1>4, <1>5

LEMMA PutcShown ==
  ASSUME IInv, NEW c \in Bytes(fp.good), Fputc(c), fp.good
  PROVE  U!Putc(c)
<1>1. /\ SameStream(fp, fp')
      /\ \/ fp.mode = "r" /\ ret' = EOF /\ SameView(fp, fp') /\ fp'.eof = fp.eof
         \/ /\ CanWrite(fp) /\ ret' = c /\ fp'.eof = fp.eof
            /\ Content(fp') = Overwrite(Content(fp), Position(fp), Translated(fp, c))
            /\ Position(fp') = Position(fp) + Len(Translated(fp, c))
            /\ Ahead(fp') = From(Content(fp'), Position(fp'))
  BY FputcOK
<1>2. fp'.text = fp.text /\ fp'.good /\ fp'.mode = fp.mode
  BY <1>1 DEF SameStream
<1>3. U!Raw(c) = Translated(fp, c)
  BY DEF U!Raw, Translated, NL, U!NL, CR, U!CR
<1>4. /\ \A s, i, w : U!Overwrite(s, i, w) = Overwrite(s, i, w)
      /\ \A s, i : U!From(s, i) = From(s, i)
  BY DEF Overwrite, U!Overwrite, From, U!From
<1>5. CASE fp.mode = "r" /\ ret' = EOF /\ SameView(fp, fp') /\ fp'.eof = fp.eof
  BY <1>2, <1>5 DEF U!Putc, U!Refused, Shown, SameView, EOF, U!EOF
<1>6. CASE /\ CanWrite(fp) /\ ret' = c /\ fp'.eof = fp.eof
           /\ Content(fp') = Overwrite(Content(fp), Position(fp), Translated(fp, c))
           /\ Position(fp') = Position(fp) + Len(Translated(fp, c))
           /\ Ahead(fp') = From(Content(fp'), Position(fp'))
  BY <1>2, <1>3, <1>4, <1>6 DEF U!Putc, Shown, CanWrite
<1> QED
  BY <1>1, <1>5, <1>6

LEMMA UngetcShown ==
  ASSUME IInv, NEW c \in Bytes(fp.good), Ungetc(c), fp.good
  PROVE  U!Ungetc(c)
<1>1. /\ SameStream(fp, fp')
      /\ \/ ret' = EOF /\ SameView(fp, fp') /\ fp'.eof = fp.eof
         \/ /\ CanRead(fp) /\ Position(fp) > 0 /\ ret' = c /\ ~ fp'.eof
            /\ Content(fp') = Content(fp) /\ Position(fp') = Position(fp) - 1
            /\ Ahead(fp') = <<c>> \o Ahead(fp)
  BY UngetcOK
<1>2. fp'.text = fp.text /\ fp'.good /\ fp'.mode = fp.mode /\ fp'.eof \in BOOLEAN
  <2>1. Sound(fp')
    BY UngetcOK DEF IInv
  <2> QED
    BY <1>1, <2>1 DEF SameStream, Sound, State
<1>3. CASE ret' = EOF /\ SameView(fp, fp') /\ fp'.eof = fp.eof
  BY <1>2, <1>3 DEF U!Ungetc, U!Refused, Shown, SameView, EOF, U!EOF
<1>4. CASE /\ CanRead(fp) /\ Position(fp) > 0 /\ ret' = c /\ ~ fp'.eof
           /\ Content(fp') = Content(fp) /\ Position(fp') = Position(fp) - 1
           /\ Ahead(fp') = <<c>> \o Ahead(fp)
  BY <1>2, <1>4 DEF U!Ungetc, Shown, CanRead
<1> QED
  BY <1>1, <1>3, <1>4

LEMMA SeekShown ==
  ASSUME IInv, NEW off \in Int, NEW fromCurrent \in BOOLEAN, Fseek(off, fromCurrent), fp.good
  PROVE  \E to \in 0 .. Len(Content(fp)) : U!Seek(to)
<1> DEFINE to == Position(fp')
<1>1. /\ SameStream(fp, fp') /\ IInv' /\ to \in 0 .. Len(Content(fp)) /\ ret' = 0 /\ ~ fp'.eof
      /\ Content(fp') = Content(fp) /\ Ahead(fp') = From(Content(fp), to)
  BY FseekOK
<1>2. /\ fp'.text = fp.text /\ fp'.good /\ fp'.mode = fp.mode /\ fp.mode # "closed"
      /\ fp'.eof = FALSE
  BY <1>1 DEF SameStream, Fseek, IInv, Sound, State
<1>3. U!From(Content(fp), to) = From(Content(fp), to)
  BY DEF From, U!From
<1>4. U!Seek(to)
  BY <1>1, <1>2, <1>3 DEF U!Seek, Shown
<1> QED
  BY <1>1, <1>4

LEMMA StepShown ==
  ASSUME IInv, [Next]_vars
  PROVE  [U!Next]_(U!streamVars)
<1>1. fp'.text = fp.text /\ fp'.good = fp.good /\ fp.good \in BOOLEAN /\ IInv'
  BY StepOK, SoundType DEF IInv
<1>2. CASE ~ fp.good
  BY <1>1, <1>2 DEF U!streamVars, Shown
<1>3. CASE fp.good
  <2> USE <1>1, <1>3
  <2>1. CASE UNCHANGED vars
    BY <2>1 DEF vars, U!streamVars, Shown
  <2>2. CASE Fgetc
    BY <2>2, GetcShown DEF U!Next
  <2>3. CASE Ftell
    <3>1. fp' = fp /\ ret' = Position(fp)
      BY <2>3, FtellOK
    <3>2. U!Tell
      BY <3>1 DEF U!Tell, Shown
    <3> QED
      BY <3>2 DEF U!Next
  <2>4. CASE Fflush
    <3>1. SameStream(fp, fp') /\ ret' = 0 /\ fp'.eof = fp.eof /\ SameView(fp, fp')
      BY <2>4, FflushOK
    <3>2. U!Flush
      BY <3>1 DEF U!Flush, Shown, SameStream, SameView
    <3> QED
      BY <3>2 DEF U!Next
  <2>5. CASE Clearerr
    <3>1. SameStream(fp, fp') /\ SameView(fp, fp') /\ ~ fp'.eof /\ UNCHANGED ret
      BY <2>5, ClearerrOK
    <3>2. fp'.eof = FALSE
      BY <3>1 DEF IInv, Sound, State
    <3>3. U!Clear
      BY <3>1, <3>2 DEF U!Clear, Shown, SameStream, SameView
    <3> QED
      BY <3>3 DEF U!Next
  <2>6. CASE Fclose
    <3>1. /\ fp'.mode = "closed" /\ Position(fp') = 0 /\ Ahead(fp') = << >> /\ ~ fp'.eof
          /\ ret' = (IF fp.mode = "closed" THEN EOF ELSE 0) /\ Content(fp') = Content(fp)
      BY <2>6, FcloseOK
    <3>2. fp'.eof = FALSE
      BY <3>1 DEF IInv, Sound, State
    <3>3. U!Close
      BY <3>1, <3>2 DEF U!Close, Shown, EOF, U!EOF
    <3> QED
      BY <3>3 DEF U!Next
  <2>7. ASSUME NEW c \in Bytes(fp.good), Fputc(c) PROVE U!Next
    <3>1. c \in Byte
      BY Constants
    <3> QED
      BY <2>7, <3>1, PutcShown DEF U!Next
  <2>8. ASSUME NEW c \in Bytes(fp.good), Ungetc(c) PROVE U!Next
    <3>1. c \in Byte
      BY Constants
    <3> QED
      BY <2>8, <3>1, UngetcShown DEF U!Next
  <2>9. ASSUME NEW off \in Int, NEW fromCurrent \in BOOLEAN, Fseek(off, fromCurrent) PROVE U!Next
    <3>1. \E to \in 0 .. Len(Content(fp)) : U!Seek(to)
      BY <2>9, SeekShown
    <3>2. Shown(Content(fp), << >>) = Content(fp)
      BY DEF Shown
    <3> QED
      BY <3>1, <3>2 DEF U!Next
  <2>10. 0 .. MaxLen \subseteq Int /\ -1 .. 1 \subseteq Int
    BY StdioAssumption
  <2> QED
    BY <2>1, <2>2, <2>3, <2>4, <2>5, <2>6, <2>7, <2>8, <2>9, <2>10 DEF Next
<1> QED
  BY <1>1, <1>2, <1>3

LEMMA InitShown == Init => U!Init
<1> SUFFICES ASSUME Init PROVE U!Init
  OBVIOUS
<1>1. PICK mode \in {"r", "w", "r+"}, text \in BOOLEAN, good \in Disks, n \in 0 .. 2 :
        \E data \in [1 .. n -> Bytes(good)] :
          /\ mode = "w" => n = 0
          /\ fp = [data |-> data, at |-> 0, pend |-> << >>, served |-> 0,
                   writing |-> mode = "w", eof |-> FALSE, err |-> FALSE,
                   text |-> text, good |-> good, mode |-> mode]
  BY DEF Init
<1>2. PICK data \in [1 .. n -> Bytes(good)] :
        /\ mode = "w" => n = 0
        /\ fp = [data |-> data, at |-> 0, pend |-> << >>, served |-> 0,
                 writing |-> mode = "w", eof |-> FALSE, err |-> FALSE,
                 text |-> text, good |-> good, mode |-> mode]
  BY <1>1
<1>3. good \in BOOLEAN /\ Bytes(good) \subseteq Byte
  BY Constants, StdioAssumption
<1>4. data \in Seq(Byte) /\ Len(data) = n /\ n \in Nat
  <2>1. data \in [1 .. n -> Byte] /\ n \in Nat
    BY <1>3
  <2> QED
    BY <2>1, IsASeq, LenProperties
<1>5. /\ fp.data = data /\ fp.at = 0 /\ fp.pend = << >> /\ fp.writing = (mode = "w") /\ fp.eof = FALSE
      /\ fp.mode = mode /\ fp.text = text /\ fp.good = good
  BY <1>2
<1>6. From(data, 0) = data
  <2>1. From(data, 0) = SubSeq(data, 1, Len(data))
    BY DEF From
  <2> QED
    BY <1>4, <2>1, SubSeqFull
<1>7. Content(fp) = data /\ Position(fp) = 0 /\ Ahead(fp) = data
  <2>1. Len(<< >>) = 0 /\ 0 + 0 = 0 /\ 0 - 0 = 0
    OBVIOUS
  <2>2. CASE mode = "w"
    <3>1. Overwrite(data, 0, << >>) = data
      BY <1>4, OverwriteNothing
    <3>2. Content(fp) = data /\ Position(fp) = 0
      BY <1>5, <2>1, <2>2, <3>1 DEF Content, Position
    <3> QED
      BY <1>5, <1>6, <2>2, <3>2 DEF Ahead
  <2>3. CASE mode # "w"
    <3>1. Content(fp) = data /\ Position(fp) = 0
      BY <1>5, <2>1, <2>3 DEF Content, Position
    <3>2. << >> \o data = data
      BY <1>4, ConcatEmptySeq
    <3> QED
      BY <1>5, <1>6, <2>3, <3>1, <3>2 DEF Ahead
  <2> QED
    BY <2>2, <2>3
<1>8. ret = 0
  BY DEF Init
<1> QED
  BY <1>3, <1>4, <1>5, <1>7, <1>8 DEF U!Init, Shown

(* Whatever the size of the buffer, and however the system cuts its reads: *)
(* on a disk that takes what is written, a client that reads, writes,      *)
(* pushes back, seeks and flushes in any order cannot tell the buffered    *)
(* stream of libc/core from one without a buffer.                          *)
THEOREM BufferingIsInvisible == Spec => Unbuffered
<1>1. IInv /\ [Next]_vars => [U!Next]_(U!streamVars)
  BY StepShown
<1> QED
  BY Invariance, InitShown, <1>1, PTL DEF Spec, Unbuffered, U!Spec
=============================================================================
