---------------------------- MODULE HashMap_proofs ----------------------------
(***************************************************************************)
(* Proofs about HashMap, for every hash function, every set of names and   *)
(* every initial capacity that leaves the watermark room: probe loops end, *)
(* a put is seen by the next lookup, and for clients that do not redefine  *)
(* a present name the table is the dictionary of module Dict.              *)
(***************************************************************************)
EXTENDS HashMap, Induction

Entry == [key : Key \cup {Nil, Tombstone}, val : Val \cup {Nil}]

(* A table of n buckets, u of them not NULL and so at least one NULL: the  *)
(* live entries have values, and a probe for a live key meets no NULL      *)
(* before it.                                                              *)
Occupied(b) == {i \in DOMAIN b : b[i].key # Nil}
Slot(k, i, n) == (Hash[k] + i) % n
Filled(b, n, u) ==
  /\ n \in Nat /\ n >= 4 /\ b \in [0 .. n - 1 -> Entry]
  /\ u = Cardinality(Occupied(b)) /\ u < n
  /\ \A i \in 0 .. n - 1 : b[i].key \in Key => b[i].val \in Val
  /\ \A p \in 0 .. n - 1, k \in Key :
       b[Slot(k, p, n)].key = k => \A q \in 0 .. p - 1 : b[Slot(k, q, n)].key # Nil

(* No name is in the table twice; a deleted entry is; w is stored under j. *)
Unique(b) == \A i, j \in DOMAIN b : b[i].key = b[j].key /\ b[i].key \in Key => i = j
NoTombs(b) == \A i \in DOMAIN b : b[i].key # Tombstone
Absent(b, k) == \A i \in DOMAIN b : b[i].key # k
Has(b, j, w) == \E i \in DOMAIN b : b[i].key = j /\ b[i].val = w

LEMMA Constants ==
  /\ InitSize \in Nat /\ InitSize >= 4 /\ Hash \in [Key -> Nat] /\ Clients \subseteq BOOLEAN
  /\ Nil \notin Key /\ Nil \notin Val /\ Tombstone \notin Key /\ Tombstone # Nil
  BY HashMapAssumption
-----------------------------------------------------------------------------
(* The probe sequence.                                                     *)
(* A probe goes up from the hash's bucket and wraps around once.           *)
LEMMA SlotShift ==
  ASSUME NEW k \in Key, NEW n \in Nat \ {0}, NEW i \in 0 .. n - 1
  PROVE  LET h == Hash[k] % n
         IN  /\ h \in 0 .. n - 1
             /\ Slot(k, i, n) = IF h + i < n THEN h + i ELSE h + i - n
<1> DEFINE h == Hash[k] % n
<1>1. Hash[k] \in Nat
  BY Constants
<1>2. PICK q \in Int : Hash[k] = n * q + h
  BY <1>1, ModFact
<1>3. h \in 0 .. n - 1
  BY <1>1, ModFact
<1> HIDE DEF h
<1>4. CASE h + i < n
  <2>1. Hash[k] + i = n * q + (h + i) /\ h + i \in 0 .. n - 1 /\ Hash[k] + i \in Int
    BY <1>1, <1>2, <1>3, <1>4
  <2>2. (Hash[k] + i) % n = h + i
    BY <2>1, ModUnique
  <2> QED
    BY <1>3, <1>4, <2>2 DEF Slot, h
<1>5. CASE ~ (h + i < n)
  <2>1. Hash[k] + i = n * (q + 1) + (h + i - n)
    BY <1>1, <1>2, <1>3, <1>5
  <2>2. h + i - n \in 0 .. n - 1 /\ Hash[k] + i \in Int /\ q + 1 \in Int
    BY <1>1, <1>3, <1>5
  <2>3. (Hash[k] + i) % n = h + i - n
    BY <2>1, <2>2, ModUnique
  <2> QED
    BY <1>3, <1>5, <2>3 DEF Slot, h
<1> QED
  BY <1>4, <1>5

(* The probe sequence visits every bucket, and none twice.                 *)
LEMMA Probes ==
  ASSUME NEW k \in Key, NEW n \in Nat \ {0}
  PROVE  /\ \A i \in 0 .. n - 1 : Slot(k, i, n) \in 0 .. n - 1
         /\ \A i, j \in 0 .. n - 1 : Slot(k, i, n) = Slot(k, j, n) => i = j
         /\ \A l \in 0 .. n - 1 : \E i \in 0 .. n - 1 : Slot(k, i, n) = l
<1> DEFINE h == Hash[k] % n
<1>1. \A i \in 0 .. n - 1 : Slot(k, i, n) = IF h + i < n THEN h + i ELSE h + i - n
  BY SlotShift
<1>2. h \in 0 .. n - 1
  <2>1. 0 \in 0 .. n - 1
    OBVIOUS
  <2> QED
    BY <2>1, SlotShift
<1> HIDE DEF h
<1>3. \A i \in 0 .. n - 1 : Slot(k, i, n) \in 0 .. n - 1
  BY <1>1, <1>2
<1>4. \A i, j \in 0 .. n - 1 : Slot(k, i, n) = Slot(k, j, n) => i = j
  BY <1>1, <1>2
<1>5. ASSUME NEW l \in 0 .. n - 1 PROVE \E i \in 0 .. n - 1 : Slot(k, i, n) = l
  <2>1. CASE h <= l
    <3>1. l - h \in 0 .. n - 1 /\ h + (l - h) < n /\ h + (l - h) = l
      BY <1>2, <2>1
    <3> QED
      BY <1>1, <3>1
  <2>2. CASE ~ (h <= l)
    <3>1. l + n - h \in 0 .. n - 1 /\ ~ (h + (l + n - h) < n) /\ h + (l + n - h) - n = l
      BY <1>2, <2>2
    <3> QED
      BY <1>1, <3>1
  <2> QED
    BY <2>1, <2>2
<1> QED
  BY <1>3, <1>4, <1>5

LEMMA CapacityIs ==
  ASSUME NEW n \in Nat, NEW b, DOMAIN b = 0 .. n - 1
  PROVE  /\ Capacity(b) = n
         /\ \A k, i : ProbeAt(b, k, i) = Slot(k, i, n)
<1>1. Cardinality(0 .. n - 1) = IF 0 > n - 1 THEN 0 ELSE (n - 1) - 0 + 1
  BY FS_Interval
<1>2. Capacity(b) = n
  BY <1>1 DEF Capacity
<1> QED
  BY <1>2 DEF ProbeAt, Slot

(* The first position whose key is in S, if there is one.                  *)
Stops(b, n, k, S, p) ==
  /\ p \in 0 .. n - 1 /\ b[Slot(k, p, n)].key \in S
  /\ \A q \in 0 .. p - 1 : b[Slot(k, q, n)].key \notin S

LEMMA StopUnique ==
  ASSUME NEW b, NEW n \in Nat, NEW k, NEW S, NEW p, NEW q,
         Stops(b, n, k, S, p), Stops(b, n, k, S, q)
  PROVE  p = q
<1>1. p \in Nat /\ q \in Nat /\ ~ (p < q) /\ ~ (q < p)
  BY DEF Stops
<1> QED
  BY <1>1

LEMMA FirstProbeOK ==
  ASSUME NEW n \in Nat \ {0}, NEW b, DOMAIN b = 0 .. n - 1, NEW k \in Key, NEW S
  PROVE  /\ (\E i \in 0 .. n - 1 : b[i].key \in S) => Stops(b, n, k, S, FirstProbe(b, k, S))
         /\ (\A i \in 0 .. n - 1 : b[i].key \notin S) => FirstProbe(b, k, S) = n
<1> DEFINE hits == {i \in DOMAIN b : b[ProbeAt(b, k, i)].key \in S}
           first == CHOOSE i \in hits : \A j \in hits : i <= j
<1>1. FirstProbe(b, k, S) = IF hits = {} THEN n ELSE first
  BY CapacityIs DEF FirstProbe
<1>2. hits = {i \in 0 .. n - 1 : b[Slot(k, i, n)].key \in S}
  BY CapacityIs
<1> HIDE DEF hits
<1>3. ASSUME NEW i \in 0 .. n - 1, b[i].key \in S PROVE Stops(b, n, k, S, FirstProbe(b, k, S))
  <2>1. PICK p \in 0 .. n - 1 : Slot(k, p, n) = i
    BY Probes
  <2>2. p \in hits /\ hits \subseteq Nat
    BY <1>2, <1>3, <2>1
  <2>3. \E m \in hits : \A j \in hits : m <= j
    BY <2>2, LeastNat
  <2>4. first \in hits /\ \A j \in hits : first <= j
    BY <2>3
  <2>5. FirstProbe(b, k, S) = first
    BY <1>1, <2>2
  <2> HIDE DEF first
  <2>6. ASSUME NEW q \in 0 .. first - 1 PROVE b[Slot(k, q, n)].key \notin S
    <3>1. first \in 0 .. n - 1
      BY <1>2, <2>4
    <3>2. q \in 0 .. n - 1 /\ ~ (first <= q)
      BY <3>1
    <3> QED
      BY <1>2, <2>4, <3>2
  <2> QED
    BY <1>2, <2>4, <2>5, <2>6 DEF Stops
<1>4. ASSUME \A i \in 0 .. n - 1 : b[i].key \notin S PROVE FirstProbe(b, k, S) = n
  <2>1. hits = {}
    BY <1>2, <1>4, Probes
  <2> QED
    BY <1>1, <2>1
<1> QED
  BY <1>3, <1>4
-----------------------------------------------------------------------------
(* A table that is not full has an unused bucket, so every probe stops.    *)
LEMMA OccupiedFinite ==
  ASSUME NEW n \in Nat, NEW b, DOMAIN b = 0 .. n - 1
  PROVE  /\ IsFiniteSet(0 .. n - 1) /\ Cardinality(0 .. n - 1) = n
         /\ \A T : T \subseteq 0 .. n - 1 => /\ IsFiniteSet(T) /\ Cardinality(T) \in Nat
                                             /\ Cardinality(T) <= n
         /\ Occupied(b) \subseteq 0 .. n - 1
<1>1. IsFiniteSet(0 .. n - 1) /\ Cardinality(0 .. n - 1) = IF 0 > n - 1 THEN 0 ELSE (n - 1) - 0 + 1
  BY FS_Interval
<1>2. IsFiniteSet(0 .. n - 1) /\ Cardinality(0 .. n - 1) = n
  BY <1>1
<1>3. ASSUME NEW T, T \subseteq 0 .. n - 1
      PROVE  IsFiniteSet(T) /\ Cardinality(T) \in Nat /\ Cardinality(T) <= n
  <2> DEFINE I == 0 .. n - 1
  <2>1. IsFiniteSet(I) /\ Cardinality(I) = n /\ T \in SUBSET I
    BY <1>2, <1>3
  <2> HIDE DEF I
  <2>2. IsFiniteSet(T) /\ Cardinality(T) <= n
    BY <2>1, FS_Subset
  <2> QED
    BY <2>2, FS_CardinalityType
<1> QED
  BY <1>2, <1>3 DEF Occupied

LEMMA HasUnused ==
  ASSUME NEW b, NEW n, NEW u, Filled(b, n, u)
  PROVE  /\ DOMAIN b = 0 .. n - 1 /\ n \in Nat \ {0} /\ u \in Nat /\ b # << >>
         /\ \E i \in 0 .. n - 1 : b[i].key = Nil
<1>1. /\ n \in Nat /\ n \in Nat \ {0} /\ b \in [0 .. n - 1 -> Entry] /\ DOMAIN b = 0 .. n - 1
      /\ u = Cardinality(Occupied(b)) /\ u < n
  BY DEF Filled
<1>2. u \in Nat
  BY <1>1, OccupiedFinite
<1>3. \E i \in 0 .. n - 1 : b[i].key = Nil
  <2> SUFFICES ASSUME \A i \in 0 .. n - 1 : b[i].key # Nil PROVE FALSE
    OBVIOUS
  <2>1. Occupied(b) = 0 .. n - 1
    BY <1>1 DEF Occupied
  <2>2. Cardinality(0 .. n - 1) = n
    BY <1>1, OccupiedFinite
  <2> QED
    BY <1>1, <2>1, <2>2
<1>4. b # << >>
  <2>1. 0 \in DOMAIN b
    BY <1>1
  <2>2. DOMAIN << >> = {}
    OBVIOUS
  <2> QED
    BY <2>1, <2>2
<1> QED
  BY <1>1, <1>2, <1>3, <1>4

(* get_entry: it stops, at the name or at the unused bucket that shows the *)
(* name is not in the table.                                               *)
LEMMA LookupAt ==
  ASSUME NEW b, NEW n, NEW u, Filled(b, n, u), NEW k \in Key
  PROVE  /\ Stops(b, n, k, {k, Nil}, GetStop(b, k)) /\ GetStop(b, k) # Capacity(b)
         /\ Lookup(b, k) = LET e == b[Slot(k, GetStop(b, k), n)]
                           IN  IF e.key = k THEN e.val ELSE Nil
<1> DEFINE p == GetStop(b, k)
<1>1. DOMAIN b = 0 .. n - 1 /\ n \in Nat \ {0} /\ b # << >> /\ \E i \in 0 .. n - 1 : b[i].key = Nil
  BY HasUnused
<1>2. \E i \in 0 .. n - 1 : b[i].key \in {k, Nil}
  BY <1>1
<1>3. Stops(b, n, k, {k, Nil}, p)
  BY <1>1, <1>2, FirstProbeOK DEF GetStop
<1>4. Capacity(b) = n /\ ProbeAt(b, k, p) = Slot(k, p, n)
  BY <1>1, CapacityIs
<1>5. p \in 0 .. n - 1 /\ p # n
  BY <1>1, <1>3 DEF Stops
<1> HIDE DEF p
<1>6. Lookup(b, k) = LET e == b[Slot(k, p, n)] IN IF e.key = k THEN e.val ELSE Nil
  BY <1>1, <1>4, <1>5 DEF Lookup, p
<1> QED
  BY <1>3, <1>4, <1>5, <1>6 DEF p

LEMMA LookupOK ==
  ASSUME NEW b, NEW n, NEW u, Filled(b, n, u), NEW k \in Key
  PROVE  /\ Lookup(b, k) \in Val \cup {Nil}
         /\ Absent(b, k) => Lookup(b, k) = Nil
         /\ ~ Absent(b, k) => Lookup(b, k) \in Val /\ Has(b, k, Lookup(b, k))
         /\ Unique(b) => \A w \in Val : Has(b, k, w) <=> Lookup(b, k) = w
<1> DEFINE p == GetStop(b, k)
           l == Slot(k, p, n)
<1>1. /\ Stops(b, n, k, {k, Nil}, p)
      /\ Lookup(b, k) = IF b[l].key = k THEN b[l].val ELSE Nil
  BY LookupAt
<1>2. DOMAIN b = 0 .. n - 1 /\ n \in Nat \ {0}
  BY HasUnused
<1>3. /\ \A i \in 0 .. n - 1 : b[i].key \in Key => b[i].val \in Val
      /\ \A r \in 0 .. n - 1 : b[Slot(k, r, n)].key = k
           => \A q \in 0 .. r - 1 : b[Slot(k, q, n)].key # Nil
  BY DEF Filled
<1>4. p \in 0 .. n - 1 /\ b[l].key \in {k, Nil} /\ l \in 0 .. n - 1
  BY <1>1, <1>2, Probes DEF Stops
<1>5. ASSUME NEW i \in 0 .. n - 1, b[i].key = k PROVE b[l].key = k
  <2>1. PICK r \in 0 .. n - 1 : Slot(k, r, n) = i
    BY <1>2, Probes
  <2>2. ~ (r < p)
    <3>1. r < p => r \in 0 .. p - 1
      BY <1>2, <1>4, <2>1
    <3> QED
      BY <1>1, <1>5, <2>1, <3>1 DEF Stops
  <2>3. CASE r = p
    BY <1>5, <2>1, <2>3
  <2>4. CASE p < r
    <3>1. p \in 0 .. r - 1
      BY <1>4, <2>1, <2>4
    <3>2. b[Slot(k, p, n)].key # Nil
      BY <1>3, <1>5, <2>1, <3>1
    <3> QED
      BY <1>4, <3>2
  <2> QED
    BY <1>2, <1>4, <2>1, <2>2, <2>3, <2>4
<1> HIDE DEF p, l
<1>6. Lookup(b, k) \in Val \cup {Nil}
  BY <1>1, <1>3, <1>4
<1>7. Absent(b, k) => Lookup(b, k) = Nil
  BY <1>1, <1>2, <1>4 DEF Absent
<1>8. ASSUME ~ Absent(b, k) PROVE Lookup(b, k) \in Val /\ Has(b, k, Lookup(b, k))
  <2>1. b[l].key = k
    BY <1>2, <1>5, <1>8 DEF Absent
  <2> QED
    BY <1>1, <1>2, <1>3, <1>4, <2>1 DEF Has
<1>9. ASSUME Unique(b), NEW w \in Val PROVE Has(b, k, w) <=> Lookup(b, k) = w
  <2>1. ASSUME Has(b, k, w) PROVE Lookup(b, k) = w
    <3>1. PICK i \in 0 .. n - 1 : b[i].key = k /\ b[i].val = w
      BY <1>2, <2>1 DEF Has
    <3>2. b[l].key = k
      BY <1>5, <3>1
    <3>3. l = i
      BY <1>2, <1>4, <1>9, <3>1, <3>2 DEF Unique
    <3> QED
      BY <1>1, <3>1, <3>2, <3>3
  <2>2. ASSUME Lookup(b, k) = w PROVE Has(b, k, w)
    <3>1. b[l].key = k
      BY <1>1, <2>2, Constants
    <3> QED
      BY <1>1, <1>2, <1>4, <2>2, <3>1 DEF Has
  <2> QED
    BY <2>1, <2>2
<1> QED
  BY <1>6, <1>7, <1>8, <1>9

(* Two tables that hold the same give the same answers.                    *)
LEMMA SameAnswers ==
  ASSUME NEW b, NEW n, NEW u, Filled(b, n, u), Unique(b),
         NEW c, NEW m, NEW x, Filled(c, m, x), Unique(c),
         NEW k \in Key, \A w \in Val : Has(b, k, w) <=> Has(c, k, w)
  PROVE  Lookup(b, k) = Lookup(c, k)
<1>1. /\ Lookup(b, k) \in Val \cup {Nil} /\ Lookup(c, k) \in Val \cup {Nil}
      /\ \A w \in Val : Lookup(b, k) = w <=> Lookup(c, k) = w
  BY LookupOK
<1> QED
  BY <1>1
-----------------------------------------------------------------------------
(* get_or_insert_entry and the store of hashmap_put2.                      *)
LEMMA InsertOK ==
  ASSUME NEW t, NEW n, Filled(t.b, n, t.used), t.used + 1 < n, NEW k \in Key, NEW v \in Val
  PROVE  LET r == Insert(t, k, v)
             fits == Unique(t.b) /\ (Absent(t.b, k) \/ NoTombs(t.b))
         IN  /\ Filled(r.b, n, r.used) /\ r.used \in {t.used, t.used + 1}
             /\ PutStop(t.b, k) # Capacity(t.b)
             /\ Lookup(r.b, k) = v
             /\ NoTombs(t.b) => NoTombs(r.b)
             /\ NoTombs(t.b) /\ Absent(t.b, k) => r.used = t.used + 1
             /\ fits => /\ Unique(r.b)
                        /\ \A j \in Key : \A w : Has(r.b, j, w) <=> IF j = k THEN w = v ELSE Has(t.b, j, w)
<1> DEFINE b == t.b
           p == PutStop(b, k)
           i == Slot(k, p, n)
           e == [key |-> k, val |-> v]
           r == Insert(t, k, v)
           c == r.b
<1>1. DOMAIN b = 0 .. n - 1 /\ n \in Nat \ {0} /\ n >= 4 /\ t.used \in Nat /\ \E l \in 0 .. n - 1 : b[l].key = Nil
  BY HasUnused DEF Filled
<1>2. Stops(b, n, k, {k, Nil, Tombstone}, p)
  <2>1. \E l \in 0 .. n - 1 : b[l].key \in {k, Nil, Tombstone}
    BY <1>1
  <2> QED
    BY <1>1, <2>1, FirstProbeOK DEF PutStop
<1>3. Capacity(b) = n /\ ProbeAt(b, k, p) = i
  BY <1>1, CapacityIs
<1>4. /\ b \in [0 .. n - 1 -> Entry] /\ t.used = Cardinality(Occupied(b))
      /\ \A l \in 0 .. n - 1 : b[l].key \in Key => b[l].val \in Val
      /\ \A s \in 0 .. n - 1, j \in Key :
           b[Slot(j, s, n)].key = j => \A q \in 0 .. s - 1 : b[Slot(j, q, n)].key # Nil
  BY DEF Filled
<1>5. /\ p \in 0 .. n - 1 /\ i \in 0 .. n - 1 /\ b[i].key \in {k, Nil, Tombstone}
      /\ \A q \in 0 .. p - 1 : b[Slot(k, q, n)].key \notin {k, Nil, Tombstone}
      /\ \A q \in 0 .. p - 1 : q \in 0 .. n - 1 /\ Slot(k, q, n) \in 0 .. n - 1 /\ Slot(k, q, n) # i
  <2>1. /\ p \in 0 .. n - 1 /\ b[i].key \in {k, Nil, Tombstone}
        /\ \A q \in 0 .. p - 1 : b[Slot(k, q, n)].key \notin {k, Nil, Tombstone}
    BY <1>2 DEF Stops
  <2>2. /\ \A q \in 0 .. n - 1 : Slot(k, q, n) \in 0 .. n - 1
        /\ \A q, s \in 0 .. n - 1 : Slot(k, q, n) = Slot(k, s, n) => q = s
    BY <1>1, Probes
  <2>3. \A q \in 0 .. p - 1 : q \in 0 .. n - 1 /\ q # p
    BY <1>1, <2>1
  <2> QED
    BY <2>1, <2>2, <2>3
<1> HIDE DEF p
<1>6. /\ c = [b EXCEPT ![i] = e] /\ r.used = IF b[i].key = Nil THEN t.used + 1 ELSE t.used
  BY <1>3 DEF Insert, p
<1> HIDE DEF i, r, c, b
<1>7. e \in Entry /\ e.key = k /\ e.val = v /\ k # Nil /\ k # Tombstone
  BY Constants DEF Entry
<1> HIDE DEF e
<1>8. /\ c \in [0 .. n - 1 -> Entry] /\ DOMAIN c = 0 .. n - 1 /\ c[i] = e
      /\ \A l \in 0 .. n - 1 : l # i => c[l] = b[l]
  BY <1>4, <1>5, <1>6, <1>7
<1>9. r.used = Cardinality(Occupied(c)) /\ r.used \in {t.used, t.used + 1} /\ r.used < n
  <2>1. Occupied(c) = Occupied(b) \cup {i}
    BY <1>1, <1>5, <1>7, <1>8 DEF Occupied
  <2>2. IsFiniteSet(Occupied(b))
    BY <1>1, OccupiedFinite
  <2>3. i \in Occupied(b) <=> b[i].key # Nil
    BY <1>1, <1>5 DEF Occupied
  <2>4. Cardinality(Occupied(c)) = IF i \in Occupied(b) THEN t.used ELSE t.used + 1
    BY <1>4, <2>1, <2>2, FS_AddElement
  <2>5. t.used < n /\ t.used + 1 < n
    BY DEF Filled
  <2> QED
    BY <1>6, <2>3, <2>4, <2>5
<1>10. ASSUME NEW s \in 0 .. n - 1, NEW j \in Key, c[Slot(j, s, n)].key = j, NEW q \in 0 .. s - 1
       PROVE  c[Slot(j, q, n)].key # Nil
  <2>1. /\ q \in 0 .. n - 1 /\ Slot(j, q, n) \in 0 .. n - 1 /\ Slot(j, s, n) \in 0 .. n - 1
    <3>1. q \in 0 .. n - 1
      BY <1>1
    <3> QED
      BY <1>1, <3>1, Probes
  <2>2. CASE Slot(j, q, n) = i
    BY <1>7, <1>8, <2>2
  <2>3. CASE Slot(j, q, n) # i /\ Slot(j, s, n) # i
    BY <1>4, <1>8, <1>10, <2>1, <2>3
  <2>4. CASE Slot(j, q, n) # i /\ Slot(j, s, n) = i
    <3>1. j = k
      BY <1>7, <1>8, <1>10, <2>4
    <3>2. s = p
      BY <1>1, <1>5, <2>4, <3>1, Probes DEF i
    <3> QED
      BY <1>5, <1>8, <2>1, <2>4, <3>1, <3>2
  <2> QED
    BY <2>2, <2>3, <2>4
<1>11. Filled(c, n, r.used)
  <2>1. \A l \in 0 .. n - 1 : c[l].key \in Key => c[l].val \in Val
    BY <1>4, <1>5, <1>7, <1>8
  <2>2. n \in Nat
    BY <1>1
  <2> QED
    BY <1>1, <1>8, <1>9, <1>10, <2>1, <2>2 DEF Filled
<1>12. Lookup(c, k) = v
  <2>1. Stops(c, n, k, {k, Nil}, p)
    <3>1. \A q \in 0 .. p - 1 : c[Slot(k, q, n)].key \notin {k, Nil}
      BY <1>5, <1>8
    <3> QED
      BY <1>5, <1>7, <1>8, <3>1 DEF Stops, i
  <2>2. Stops(c, n, k, {k, Nil}, GetStop(c, k))
    BY <1>11, LookupAt
  <2>3. GetStop(c, k) = p
    BY <1>1, <2>1, <2>2, StopUnique
  <2>4. Lookup(c, k) = IF c[i].key = k THEN c[i].val ELSE Nil
    BY <1>11, <2>3, LookupAt DEF i
  <2> QED
    BY <1>7, <1>8, <2>4
<1>13. NoTombs(b) => NoTombs(c)
  BY <1>1, <1>7, <1>8 DEF NoTombs
<1>14. NoTombs(b) /\ Absent(b, k) => r.used = t.used + 1
  BY <1>1, <1>5, <1>6 DEF NoTombs, Absent
<1>15. ASSUME b[i].key = Nil PROVE Absent(b, k)
  <2> SUFFICES ASSUME NEW l \in 0 .. n - 1, b[l].key = k PROVE FALSE
    BY <1>1 DEF Absent
  <2>1. PICK s \in 0 .. n - 1 : Slot(k, s, n) = l
    BY <1>1, Probes
  <2>2. CASE s < p
    <3>1. s \in 0 .. p - 1
      BY <1>5, <2>1, <2>2
    <3> QED
      BY <1>5, <2>1, <3>1
  <2>3. CASE s = p
    BY <1>7, <1>15, <2>1, <2>3 DEF i
  <2>4. CASE p < s
    <3>1. p \in 0 .. s - 1
      BY <1>5, <2>1, <2>4
    <3>2. b[Slot(k, p, n)].key # Nil
      BY <1>4, <2>1, <3>1
    <3> QED
      BY <1>15, <3>2 DEF i
  <2> QED
    BY <1>1, <1>5, <2>1, <2>2, <2>3, <2>4
<1>16. ASSUME Unique(b), Absent(b, k) \/ NoTombs(b)
       PROVE  /\ Unique(c)
              /\ \A j \in Key : \A w : Has(c, j, w) <=> IF j = k THEN w = v ELSE Has(b, j, w)
  <2>1. \A l \in 0 .. n - 1 : l # i => b[l].key # k
    <3>1. CASE Absent(b, k)
      BY <1>1, <3>1 DEF Absent
    <3>2. CASE ~ Absent(b, k)
      <4>1. b[i].key = k
        BY <1>1, <1>5, <1>15, <1>16, <3>2 DEF NoTombs
      <4> QED
        BY <1>1, <1>5, <1>16, <4>1 DEF Unique
    <3> QED
      BY <3>1, <3>2
  <2>2. Unique(c)
    BY <1>1, <1>7, <1>8, <1>16, <2>1 DEF Unique
  <2>3. ASSUME NEW j \in Key, NEW w, j # k PROVE Has(c, j, w) <=> Has(b, j, w)
    <3>1. b[i].key # j /\ c[i].key # j
      BY <1>5, <1>7, <1>8, <2>3, Constants
    <3> QED
      BY <1>1, <1>8, <3>1 DEF Has
  <2>4. ASSUME NEW w PROVE Has(c, k, w) <=> w = v
    BY <1>5, <1>7, <1>8, <2>1 DEF Has
  <2> QED
    BY <2>2, <2>3, <2>4
<1>17. p # Capacity(b)
  BY <1>1, <1>3, <1>5
<1> QED
  BY <1>9, <1>11, <1>12, <1>13, <1>14, <1>16, <1>17 DEF b, c, r, p
-----------------------------------------------------------------------------
(* The doubling loop of rehash ends, with a table less than half full.     *)
LEMMA NewCapacityOK ==
  ASSUME NEW nkeys \in Nat, NEW cap \in Nat \ {0}
  PROVE  LET c == NewCapacity(nkeys, cap)
         IN  c \in Nat /\ c >= cap /\ 2 * nkeys < c
<1> DEFINE N == nkeys + 1
           Step == [i \in 1 .. N |-> [x \in Nat |-> 2 * x]]
           Eqn(f) == f = [n \in 0 .. N |-> IF n = 0 THEN cap ELSE 2 * f[n - 1]]
           F == CHOOSE f : Eqn(f)
           Enough(n) == (nkeys * 100) \div F[n] < LowWatermark
           first == CHOOSE n \in 0 .. N : Enough(n) /\ \A m \in 0 .. n - 1 : ~ Enough(m)
<1> HIDE DEF N
<1>1. N \in Nat /\ cap \in Nat /\ Steps(Step, N, Nat)
  BY DEF Steps, N
<1>2. PICK g : Iterates(g, N, Nat, cap, Step)
  <2> HIDE DEF Step
  <2> QED
    BY <1>1, Recursion
<1>3. Eqn(g)
  <2>1. g \in [0 .. N -> Nat] /\ g[0] = cap /\ \A i \in 1 .. N : g[i] = Step[i][g[i - 1]]
    BY <1>2 DEF Iterates
  <2>2. \A i \in 1 .. N : g[i - 1] \in Nat
    BY <1>1, <2>1
  <2>3. ASSUME NEW n \in 0 .. N PROVE g[n] = IF n = 0 THEN cap ELSE 2 * g[n - 1]
    <3>1. CASE n = 0
      BY <2>1, <3>1
    <3>2. CASE n # 0
      <4>1. n \in 1 .. N
        BY <1>1, <3>2
      <4>2. g[n] = Step[n][g[n - 1]] /\ g[n - 1] \in Nat
        BY <2>1, <2>2, <4>1
      <4> QED
        BY <3>2, <4>1, <4>2
    <3> QED
      BY <3>1, <3>2
  <2> QED
    BY <2>1, <2>3
<1>4. Eqn(F)
  <2> HIDE DEF Eqn
  <2> QED
    BY <1>3
<1>5. NewCapacity(nkeys, cap) = F[first]
  BY DEF NewCapacity, N
<1> HIDE DEF F
<1>6. F[0] = cap /\ \A n \in 1 .. N : F[n] = 2 * F[n - 1]
  <2>1. \A n \in 0 .. N : F[n] = IF n = 0 THEN cap ELSE 2 * F[n - 1]
    BY <1>4
  <2>2. 0 \in 0 .. N /\ \A n \in 1 .. N : n \in 0 .. N /\ n # 0
    BY <1>1
  <2> HIDE DEF Eqn
  <2> QED
    BY <2>1, <2>2
<1> HIDE DEF Eqn, Step
<1> DEFINE S == {n \in 0 .. N : F[n] \in Nat /\ F[n] >= cap /\ F[n] >= n + 1}
<1>7. 0 .. N \subseteq S
  <2>1. 0 \in S
    BY <1>1, <1>6
  <2>2. ASSUME NEW n \in 0 .. N - 1, n \in S PROVE n + 1 \in S
    <3>1. n + 1 \in 1 .. N /\ (n + 1) - 1 = n
      BY <1>1
    <3>2. F[n + 1] = 2 * F[n]
      BY <1>6, <3>1
    <3> QED
      BY <2>2, <3>1, <3>2
  <2> HIDE DEF S
  <2> QED
    BY <1>1, <2>1, <2>2, SetInduction
<1>8. \A n \in 0 .. N : Enough(n) <=> nkeys * 100 < 50 * F[n]
  <2> SUFFICES ASSUME NEW n \in 0 .. N PROVE Enough(n) <=> nkeys * 100 < 50 * F[n]
    OBVIOUS
  <2>1. F[n] \in Nat \ {0} /\ nkeys * 100 \in Nat
    BY <1>7
  <2>2. (nkeys * 100) \div F[n] < 50 <=> nkeys * 100 < 50 * F[n]
    BY <2>1, DivLess
  <2> QED
    BY <2>2 DEF LowWatermark
<1>9. first \in 0 .. N /\ Enough(first)
  <2> DEFINE T == {n \in 0 .. N : Enough(n)}
  <2>1. N \in T
    <3>1. N \in 0 .. N /\ N \in 1 .. N /\ N - 1 \in 0 .. N /\ N = nkeys + 1
      BY <1>1 DEF N
    <3>2. F[N] = 2 * F[N - 1] /\ F[N - 1] \in Nat /\ F[N - 1] >= (N - 1) + 1
      BY <1>6, <1>7, <3>1
    <3>3. nkeys * 100 < 50 * F[N]
      BY <3>1, <3>2
    <3> QED
      BY <1>8, <3>1, <3>3
  <2>2. T \subseteq Nat
    BY <1>1
  <2> HIDE DEF Enough
  <2>3. \E n \in T : \A m \in T : n <= m
    <3> HIDE DEF T
    <3> QED
      BY <2>1, <2>2, LeastNat
  <2>4. \E n \in 0 .. N : Enough(n) /\ \A m \in 0 .. n - 1 : ~ Enough(m)
    <3>1. PICK n \in T : \A m \in T : n <= m
      BY <2>3
    <3>2. \A m \in 0 .. n - 1 : m \in 0 .. N /\ ~ (n <= m)
      BY <1>1, <3>1
    <3> QED
      BY <3>1, <3>2
  <2> QED
    BY <2>4
<1> HIDE DEF first
<1>10. F[first] \in Nat /\ F[first] >= cap /\ nkeys * 100 < 50 * F[first]
  BY <1>7, <1>8, <1>9
<1> HIDE DEF Enough
<1> QED
  BY <1>5, <1>10

(* calloc: a table of unused buckets.                                      *)
LEMMA CallocOK ==
  ASSUME NEW n \in Nat, n >= 4
  PROVE  /\ Filled(Calloc(n), n, 0) /\ Unique(Calloc(n)) /\ NoTombs(Calloc(n))
         /\ \A k \in Key : Absent(Calloc(n), k)
<1> DEFINE b == Calloc(n)
<1>1. /\ b \in [0 .. n - 1 -> Entry] /\ DOMAIN b = 0 .. n - 1
      /\ \A i \in 0 .. n - 1 : b[i].key = Nil
  BY DEF Calloc, Entry
<1> HIDE DEF b
<1>2. Occupied(b) = {}
  BY <1>1 DEF Occupied
<1>3. 0 = Cardinality(Occupied(b)) /\ 0 < n
  BY <1>2, FS_EmptySet
<1>4. \A k \in Key : k # Nil
  BY Constants
<1>5. \A p \in 0 .. n - 1, k \in Key : b[Slot(k, p, n)].key # k
  <2>1. n \in Nat \ {0}
    OBVIOUS
  <2> QED
    BY <1>1, <1>4, <2>1, Probes
<1>6. Filled(b, n, 0)
  BY <1>1, <1>3, <1>4, <1>5 DEF Filled
<1>7. Unique(b) /\ NoTombs(b) /\ \A k \in Key : Absent(b, k)
  BY <1>1, <1>4, Constants DEF Unique, NoTombs, Absent
<1> QED
  BY <1>6, <1>7 DEF b

(* The tables rehash builds, whatever it has moved so far.                 *)
Tables(c) == [b : [0 .. c - 1 -> Entry], used : Nat]

LEMMA InsertType ==
  ASSUME NEW c, NEW t \in Tables(c), NEW k \in Key, NEW v \in Val
  PROVE  Insert(t, k, v) \in Tables(c)
<1> DEFINE i == ProbeAt(t.b, k, PutStop(t.b, k))
           e == [key |-> k, val |-> v]
<1>1. Insert(t, k, v) = [b |-> [t.b EXCEPT ![i] = e],
                         used |-> IF t.b[i].key = Nil THEN t.used + 1 ELSE t.used]
  BY DEF Insert
<1>2. e \in Entry
  BY DEF Entry
<1> HIDE DEF i, e
<1>3. t.b \in [0 .. c - 1 -> Entry] /\ t.used \in Nat
  BY DEF Tables
<1>4. [t.b EXCEPT ![i] = e] \in [0 .. c - 1 -> Entry]
  BY <1>2, <1>3
<1> QED
  BY <1>1, <1>3, <1>4 DEF Tables

(* What rehash has moved when it has seen the first m buckets of b.        *)
MovedUpto(b, c, m, t) ==
  LET seen == {i \in LiveIn(b) : i < m}
  IN  /\ Filled(t.b, c, t.used) /\ Unique(t.b) /\ NoTombs(t.b)
      /\ t.used <= Cardinality(seen)
      /\ \A j \in Key : \A w : Has(t.b, j, w) => \E i \in seen : b[i].key = j
      /\ Unique(b) => /\ t.used = Cardinality(seen)
                      /\ \A j \in Key : \A w :
                           Has(t.b, j, w) <=> \E i \in seen : b[i].key = j /\ b[i].val = w

LEMMA MoveOne ==
  ASSUME NEW b, NEW n, NEW u, Filled(b, n, u), NEW c, Cardinality(LiveIn(b)) < c,
         NEW m \in 0 .. n - 1, NEW t, MovedUpto(b, c, m, t)
  PROVE  MovedUpto(b, c, m + 1,
           IF m \in LiveIn(b) THEN Insert(t, b[m].key, b[m].val) ELSE t)
<1> DEFINE seen == {i \in LiveIn(b) : i < m}
           next == {i \in LiveIn(b) : i < m + 1}
<1>1. /\ Filled(t.b, c, t.used) /\ Unique(t.b) /\ NoTombs(t.b)
      /\ t.used <= Cardinality(seen)
      /\ \A j \in Key : \A w : Has(t.b, j, w) => \E i \in seen : b[i].key = j
      /\ Unique(b) => /\ t.used = Cardinality(seen)
                      /\ \A j \in Key : \A w :
                           Has(t.b, j, w) <=> \E i \in seen : b[i].key = j /\ b[i].val = w
  BY DEF MovedUpto
<1>2. DOMAIN b = 0 .. n - 1 /\ n \in Nat \ {0}
  BY HasUnused
<1>3. LiveIn(b) \subseteq 0 .. n - 1
  BY <1>2 DEF LiveIn
<1>4. CASE m \notin LiveIn(b)
  <2>1. next = seen
    BY <1>2, <1>3, <1>4
  <2> HIDE DEF next, seen
  <2>2. MovedUpto(b, c, m + 1, t)
    BY <1>1, <2>1 DEF MovedUpto, next
  <2> QED
    BY <1>4, <2>2
<1>5. CASE m \in LiveIn(b)
  <2> DEFINE k == b[m].key
             v == b[m].val
             r == Insert(t, k, v)
  <2>1. k \in Key /\ v \in Val
    BY <1>5 DEF LiveIn, Filled
  <2>2. next = seen \cup {m} /\ m \notin seen /\ seen \subseteq 0 .. n - 1 /\ next \subseteq LiveIn(b)
    BY <1>2, <1>3, <1>5
  <2> HIDE DEF next, seen
  <2>3. /\ IsFiniteSet(seen) /\ Cardinality(seen) \in Nat
        /\ Cardinality(next) = Cardinality(seen) + 1
        /\ Cardinality(next) <= Cardinality(LiveIn(b))
    <3>1. IsFiniteSet(seen) /\ Cardinality(seen) \in Nat /\ IsFiniteSet(LiveIn(b))
      BY <1>2, <1>3, <2>2, OccupiedFinite
    <3>2. Cardinality(next) = Cardinality(seen) + 1
      BY <2>2, <3>1, FS_AddElement
    <3>3. Cardinality(next) <= Cardinality(LiveIn(b))
      BY <2>2, <3>1, FS_Subset
    <3> QED
      BY <3>1, <3>2, <3>3
  <2>4. c \in Nat /\ t.used \in Nat /\ t.used + 1 < c
    <3>1. c \in Nat /\ t.used \in Nat
      BY <1>1, HasUnused DEF Filled
    <3>2. Cardinality(LiveIn(b)) \in Nat
      BY <1>2, <1>3, OccupiedFinite
    <3> QED
      BY <1>1, <2>3, <3>1, <3>2
  <2> HIDE DEF k, v
  <2>5. /\ Filled(r.b, c, r.used) /\ r.used \in {t.used, t.used + 1}
        /\ NoTombs(r.b) /\ Unique(r.b)
        /\ Absent(t.b, k) => r.used = t.used + 1
        /\ \A j \in Key : \A w : Has(r.b, j, w) <=> IF j = k THEN w = v ELSE Has(t.b, j, w)
    <3>1. /\ Filled(t.b, c, t.used) /\ t.used + 1 < c /\ k \in Key /\ v \in Val
          /\ Unique(t.b) /\ NoTombs(t.b)
      BY <1>1, <2>1, <2>4
    <3> QED
      BY <3>1, InsertOK
  <2> HIDE DEF r
  <2>6. r.used <= Cardinality(next)
    BY <1>1, <2>3, <2>4, <2>5
  <2>7. \A j \in Key : \A w : Has(r.b, j, w) => \E i \in next : b[i].key = j
    BY <1>1, <2>2, <2>5 DEF k
  <2>8. ASSUME Unique(b)
        PROVE  /\ r.used = Cardinality(next)
               /\ \A j \in Key : \A w :
                    Has(r.b, j, w) <=> \E i \in next : b[i].key = j /\ b[i].val = w
    <3>1. \A i \in seen : b[i].key # k
      <4>1. \A i \in seen : i \in DOMAIN b /\ m \in DOMAIN b /\ i # m
        BY <1>2, <2>2
      <4> QED
        BY <2>1, <2>8, <4>1 DEF Unique, k
    <3>2. Absent(t.b, k)
      BY <1>1, <2>1, <3>1, ZenonT(60) DEF Absent, Has
    <3>3. \A j \in Key : \A w : Has(t.b, j, w) <=> \E i \in seen : b[i].key = j /\ b[i].val = w
      BY <1>1, <2>8
    <3>4. ASSUME NEW j \in Key, NEW w
          PROVE  Has(r.b, j, w) <=> \E i \in next : b[i].key = j /\ b[i].val = w
      <4>1. CASE j = k
        <5>1. Has(r.b, j, w) <=> w = v
          BY <2>5, <4>1
        <5>2. (\E i \in next : b[i].key = j /\ b[i].val = w) <=> w = v
          BY <2>2, <3>1, <4>1 DEF k, v
        <5> QED
          BY <5>1, <5>2
      <4>2. CASE j # k
        <5>1. Has(r.b, j, w) <=> Has(t.b, j, w)
          BY <2>5, <4>2
        <5>2. (\E i \in next : b[i].key = j /\ b[i].val = w)
                <=> \E i \in seen : b[i].key = j /\ b[i].val = w
          BY <2>2, <4>2 DEF k
        <5> QED
          BY <3>3, <5>1, <5>2
      <4> QED
        BY <4>1, <4>2
    <3>5. r.used = Cardinality(next)
      BY <1>1, <2>3, <2>5, <2>8, <3>2
    <3> QED
      BY <3>4, <3>5
  <2>9. MovedUpto(b, c, m + 1, r)
    BY <2>5, <2>6, <2>7, <2>8 DEF MovedUpto, next
  <2> QED
    BY <1>5, <2>9 DEF r, k, v
<1> QED
  BY <1>4, <1>5

(* rehash: the new table holds what the old one held, without tombstones,  *)
(* and has room.                                                           *)
LEMMA RehashOK ==
  ASSUME NEW b, NEW n, NEW u, Filled(b, n, u)
  PROVE  LET r == Rehash(b)
         IN  /\ \E c : Filled(r.b, c, r.used) /\ r.used + 1 < c
             /\ Unique(r.b) /\ NoTombs(r.b)
             /\ Unique(b) => /\ r.used = Cardinality(LiveIn(b))
                             /\ \A j \in Key : \A w : Has(r.b, j, w) <=> Has(b, j, w)
<1> DEFINE nkeys == Cardinality(LiveIn(b))
           c == NewCapacity(nkeys, n)
           t0 == [b |-> Calloc(c), used |-> 0]
           Step == [i \in 1 .. n |-> [t \in Tables(c) |->
                      IF i - 1 \in LiveIn(b) THEN Insert(t, b[i - 1].key, b[i - 1].val) ELSE t]]
           Eqn(f) == f = [i \in 0 .. n |->
                            IF i = 0 THEN t0
                            ELSE IF i - 1 \in LiveIn(b)
                                 THEN Insert(f[i - 1], b[i - 1].key, b[i - 1].val)
                                 ELSE f[i - 1]]
           F == CHOOSE f : Eqn(f)
<1>1. /\ DOMAIN b = 0 .. n - 1 /\ n \in Nat /\ n \in Nat \ {0} /\ n >= 4 /\ LiveIn(b) \subseteq 0 .. n - 1
      /\ \A i \in LiveIn(b) : b[i].key \in Key /\ b[i].val \in Val
  <2>1. DOMAIN b = 0 .. n - 1 /\ n \in Nat \ {0}
    BY HasUnused
  <2> QED
    BY <2>1 DEF LiveIn, Filled
<1>2. nkeys \in Nat
  BY <1>1, OccupiedFinite
<1>3. Capacity(b) = n
  BY <1>1, CapacityIs
<1> HIDE DEF nkeys
<1>4. c \in Nat /\ c >= n /\ 2 * nkeys < c
  BY <1>1, <1>2, NewCapacityOK
<1>5. Rehash(b) = F[n]
  BY <1>3 DEF Rehash, nkeys
<1> HIDE DEF c
<1>6. c >= 4 /\ nkeys < c /\ nkeys + 1 < c
  BY <1>1, <1>2, <1>4
<1>7. t0 \in Tables(c)
  <2>1. Filled(Calloc(c), c, 0)
    BY <1>4, <1>6, CallocOK
  <2>2. Calloc(c) \in [0 .. c - 1 -> Entry]
    BY <2>1 DEF Filled
  <2> QED
    BY <2>2 DEF Tables
<1>8. Steps(Step, n, Tables(c))
  <2>1. ASSUME NEW i \in 1 .. n, NEW t \in Tables(c)
        PROVE  (IF i - 1 \in LiveIn(b) THEN Insert(t, b[i - 1].key, b[i - 1].val) ELSE t) \in Tables(c)
    BY <1>1, InsertType
  <2> QED
    BY <2>1 DEF Steps
<1> HIDE DEF t0
<1>9. PICK g : Iterates(g, n, Tables(c), t0, Step)
  <2> HIDE DEF Step
  <2> QED
    BY <1>1, <1>7, <1>8, Recursion
<1>10. Eqn(g)
  <2>1. g \in [0 .. n -> Tables(c)] /\ g[0] = t0 /\ \A i \in 1 .. n : g[i] = Step[i][g[i - 1]]
    BY <1>9 DEF Iterates
  <2>2. ASSUME NEW i \in 0 .. n
        PROVE  g[i] = IF i = 0 THEN t0
                      ELSE IF i - 1 \in LiveIn(b)
                           THEN Insert(g[i - 1], b[i - 1].key, b[i - 1].val)
                           ELSE g[i - 1]
    <3>1. CASE i = 0
      BY <2>1, <3>1
    <3>2. CASE i # 0
      <4>1. i \in 1 .. n /\ i - 1 \in 0 .. n
        BY <1>1, <3>2
      <4>2. g[i] = Step[i][g[i - 1]] /\ g[i - 1] \in Tables(c)
        BY <2>1, <4>1
      <4> QED
        BY <3>2, <4>1, <4>2
    <3> QED
      BY <3>1, <3>2
  <2> QED
    BY <2>1, <2>2
<1>11. Eqn(F)
  <2> HIDE DEF Eqn
  <2> QED
    BY <1>10
<1> HIDE DEF F, Step
<1>12. /\ F[0] = t0
       /\ \A i \in 0 .. n - 1 :
            F[i + 1] = IF i \in LiveIn(b) THEN Insert(F[i], b[i].key, b[i].val) ELSE F[i]
  <2>1. \A i \in 0 .. n : F[i] = IF i = 0 THEN t0
                                 ELSE IF i - 1 \in LiveIn(b)
                                      THEN Insert(F[i - 1], b[i - 1].key, b[i - 1].val)
                                      ELSE F[i - 1]
    BY <1>11
  <2>2. 0 \in 0 .. n /\ \A i \in 0 .. n - 1 : i + 1 \in 0 .. n /\ i + 1 # 0 /\ (i + 1) - 1 = i
    BY <1>1
  <2> HIDE DEF Eqn
  <2> QED
    BY <2>1, <2>2
<1> HIDE DEF Eqn
<1> DEFINE S == {m \in 0 .. n : MovedUpto(b, c, m, F[m])}
<1>13. 0 \in S
  <2>1. {i \in LiveIn(b) : i < 0} = {}
    BY <1>1
  <2>2. /\ Filled(t0.b, c, t0.used) /\ Unique(t0.b) /\ NoTombs(t0.b) /\ t0.used = 0
        /\ \A j \in Key : \A w : ~ Has(t0.b, j, w)
    BY <1>4, <1>6, CallocOK DEF t0, Has, Absent
  <2>3. Cardinality({}) = 0
    BY FS_EmptySet
  <2>4. MovedUpto(b, c, 0, t0)
    BY <2>1, <2>2, <2>3 DEF MovedUpto
  <2> QED
    BY <1>1, <1>12, <2>4
<1>14. ASSUME NEW m \in 0 .. n - 1, m \in S PROVE m + 1 \in S
  <2>1. MovedUpto(b, c, m, F[m]) /\ Cardinality(LiveIn(b)) < c
    BY <1>6, <1>14 DEF nkeys
  <2>2. MovedUpto(b, c, m + 1, IF m \in LiveIn(b) THEN Insert(F[m], b[m].key, b[m].val) ELSE F[m])
    BY <2>1, MoveOne
  <2>3. MovedUpto(b, c, m + 1, F[m + 1])
    BY <1>12, <2>2
  <2> QED
    BY <1>1, <2>3
<1>15. MovedUpto(b, c, n, F[n])
  <2>1. n \in S
    <3> HIDE DEF S
    <3> QED
      BY <1>1, <1>13, <1>14, SetInduction
  <2> QED
    BY <2>1
<1>16. {i \in LiveIn(b) : i < n} = LiveIn(b)
  BY <1>1
<1> DEFINE r == F[n]
<1>17. /\ Filled(r.b, c, r.used) /\ Unique(r.b) /\ NoTombs(r.b) /\ r.used <= nkeys
       /\ Unique(b) => /\ r.used = nkeys
                       /\ \A j \in Key : \A w :
                            Has(r.b, j, w) <=> \E i \in LiveIn(b) : b[i].key = j /\ b[i].val = w
  BY <1>15, <1>16 DEF MovedUpto, nkeys
<1> HIDE DEF r
<1>18. r.used + 1 < c
  <2>1. r.used \in Nat /\ r.used <= nkeys
    BY <1>17, HasUnused
  <2>2. c \in Nat /\ nkeys + 1 < c
    BY <1>4, <1>6
  <2> QED
    BY <1>2, <2>1, <2>2
<1>19. \A j \in Key : \A w : (\E i \in LiveIn(b) : b[i].key = j /\ b[i].val = w) <=> Has(b, j, w)
  BY DEF Has, LiveIn
<1> QED
  BY <1>5, <1>17, <1>18, <1>19 DEF r, nkeys
-----------------------------------------------------------------------------
(* The table of a state: not yet allocated, or with an unused bucket.      *)
Sound == \/ buckets = << >> /\ used = 0
         \/ \E n : Filled(buckets, n, used)

LEMMA EmptyTable == Unique(<< >>) /\ NoTombs(<< >>) /\ LiveIn(<< >>) = {}
                    /\ \A k : Absent(<< >>, k) /\ \A w : ~ Has(<< >>, k, w)
<1>1. DOMAIN << >> = {}
  OBVIOUS
<1> QED
  BY <1>1 DEF Unique, NoTombs, LiveIn, Absent, Has

(* What hashmap_get answers, of any table without duplicates.              *)
LEMMA Answers ==
  ASSUME NEW b, b = << >> \/ \E n, u : Filled(b, n, u), Unique(b), NEW k \in Key
  PROVE  Lookup(b, k) \in Val \cup {Nil} /\ \A w \in Val : Has(b, k, w) <=> Lookup(b, k) = w
<1>1. CASE b = << >>
  <2>1. Lookup(b, k) = Nil /\ \A w : ~ Has(b, k, w)
    BY <1>1, EmptyTable DEF Lookup
  <2> QED
    BY <2>1, Constants
<1>2. ASSUME NEW n, NEW u, Filled(b, n, u)
      PROVE  Lookup(b, k) \in Val \cup {Nil} /\ \A w \in Val : Has(b, k, w) <=> Lookup(b, k) = w
  BY <1>2, LookupOK
<1> QED
  BY <1>1, <1>2

(* The table get_or_insert_entry probes has room for one more entry and    *)
(* holds what the map held; and the assertion of rehash holds.             *)
LEMMA PreparedOK ==
  ASSUME Sound
  PROVE  LET t == Prepared
         IN  /\ \E n : Filled(t.b, n, t.used) /\ t.used + 1 < n
             /\ Unique(buckets) =>
                  /\ Unique(t.b) /\ \A j \in Key : \A w : Has(t.b, j, w) <=> Has(buckets, j, w)
                  /\ \A k : Absent(buckets, k) \/ NoTombs(buckets) => Absent(t.b, k) \/ NoTombs(t.b)
                  /\ Rehashes => t.used = Cardinality(LiveIn(buckets))
<1> DEFINE t == Prepared
<1>1. CASE buckets = << >>
  <2>1. t = [b |-> Calloc(InitSize), used |-> 0] /\ ~ Rehashes
    BY <1>1 DEF Prepared, Rehashes
  <2>2. /\ Filled(Calloc(InitSize), InitSize, 0) /\ Unique(Calloc(InitSize)) /\ NoTombs(Calloc(InitSize))
        /\ \A k \in Key : Absent(Calloc(InitSize), k) /\ 0 + 1 < InitSize
    BY Constants, CallocOK
  <2>3. \A j \in Key : \A w : ~ Has(Calloc(InitSize), j, w) /\ ~ Has(buckets, j, w)
    BY <1>1, <2>2, EmptyTable DEF Has, Absent
  <2>4. t.b = Calloc(InitSize) /\ t.used = 0
    BY <2>1
  <2> HIDE DEF t
  <2>5. Filled(t.b, InitSize, t.used) /\ t.used + 1 < InitSize
    <3>1. Filled(t.b, InitSize, t.used)
      BY <2>2, <2>4, Zenon
    <3>2. t.used + 1 < InitSize
      BY <2>4, Constants
    <3> QED
      BY <3>1, <3>2
  <2>6. Unique(t.b) /\ NoTombs(t.b) /\ \A j \in Key : \A w : ~ Has(t.b, j, w) /\ ~ Has(buckets, j, w)
    BY <2>2, <2>3, <2>4
  <2> QED
    BY <2>1, <2>5, <2>6 DEF t
<1>2. ASSUME NEW n, Filled(buckets, n, used)
      PROVE  LET t1 == Prepared
             IN  /\ \E m : Filled(t1.b, m, t1.used) /\ t1.used + 1 < m
                 /\ Unique(buckets) =>
                      /\ Unique(t1.b) /\ \A j \in Key : \A w : Has(t1.b, j, w) <=> Has(buckets, j, w)
                      /\ \A k : Absent(buckets, k) \/ NoTombs(buckets)
                                  => Absent(t1.b, k) \/ NoTombs(t1.b)
                      /\ Rehashes => t1.used = Cardinality(LiveIn(buckets))
  <2>1. /\ buckets # << >> /\ DOMAIN buckets = 0 .. n - 1 /\ n \in Nat \ {0} /\ n \in Nat /\ n >= 4
        /\ used \in Nat /\ used * 100 \in Nat /\ HighWatermark \in Nat
    BY <1>2, HasUnused DEF Filled, HighWatermark
  <2>2. Capacity(buckets) = n
    BY <2>1, CapacityIs
  <2>3. CASE Rehashes
    <3>1. t = Rehash(buckets)
      BY <2>1, <2>3 DEF Prepared, Rehashes
    <3>2. /\ \E m : Filled(t.b, m, t.used) /\ t.used + 1 < m
          /\ Unique(t.b) /\ NoTombs(t.b)
          /\ Unique(buckets) => /\ t.used = Cardinality(LiveIn(buckets))
                                /\ \A j \in Key : \A w : Has(t.b, j, w) <=> Has(buckets, j, w)
      BY <1>2, <3>1, RehashOK
    <3> HIDE DEF t
    <3> QED
      BY <3>2 DEF t
  <2>4. CASE ~ Rehashes
    <3>1. t = [b |-> buckets, used |-> used]
      BY <2>1, <2>4 DEF Prepared, Rehashes
    <3>2. t.b = buckets /\ t.used = used
      BY <3>1
    <3>3. (used * 100) \div n \in Int
      BY <2>1
    <3>4. ~ ((used * 100) \div n >= HighWatermark)
      BY <2>1, <2>2, <2>4 DEF Rehashes
    <3>5. (used * 100) \div n < HighWatermark
      BY <3>3, <3>4 DEF HighWatermark
    <3>6. used * 100 < HighWatermark * n
      BY <2>1, <3>5, DivLess
    <3>7. used * 100 < 70 * n
      BY <3>6 DEF HighWatermark
    <3>8. used + 1 < n
      BY <2>1, <3>7
    <3> HIDE DEF t
    <3> QED
      BY <1>2, <2>4, <3>2, <3>8 DEF t
  <2> QED
    BY <2>3, <2>4
<1> QED
  BY <1>1, <1>2 DEF Sound
-----------------------------------------------------------------------------
(* The three operations.                                                   *)
(* InsertOK, for clients that put a name again only into a table without   *)
(* tombstones.                                                             *)
LEMMA InsertGives ==
  ASSUME NEW t, NEW n, Filled(t.b, n, t.used), t.used + 1 < n, NEW k \in Key, NEW v \in Val,
         NEW r, r = Insert(t, k, v)
  PROVE  /\ Filled(r.b, n, r.used) /\ PutStop(t.b, k) # Capacity(t.b) /\ Lookup(r.b, k) = v
         /\ Unique(t.b) /\ (Absent(t.b, k) \/ NoTombs(t.b)) =>
              /\ Unique(r.b)
              /\ \A j \in Key : \A w : Has(r.b, j, w) <=> IF j = k THEN w = v ELSE Has(t.b, j, w)
<1>1. Filled(r.b, n, r.used) /\ PutStop(t.b, k) # Capacity(t.b) /\ Lookup(r.b, k) = v
  BY InsertOK
<1>2. ASSUME Unique(t.b), Absent(t.b, k) \/ NoTombs(t.b)
      PROVE  /\ Unique(r.b)
             /\ \A j \in Key : \A w : Has(r.b, j, w) <=> IF j = k THEN w = v ELSE Has(t.b, j, w)
  BY <1>2, InsertOK
<1> QED
  BY <1>1, <1>2

LEMMA PutOK ==
  ASSUME Sound, NEW k \in Key, NEW v \in Val, Put(k, v), redefines \in BOOLEAN
  PROVE  /\ Sound' /\ fault' \in {"none", "assert"} /\ redefines' = redefines
         /\ fault' = "none" => Lookup(buckets', k) = v
         /\ ~ redefines /\ Unique(buckets) =>
              /\ fault' = "none" /\ Unique(buckets') /\ answer' = answer
              /\ \A j \in Key : \A w : Has(buckets', j, w) <=> IF j = k THEN w = v ELSE Has(buckets, j, w)
<1> DEFINE t == Prepared
           r == Insert(t, k, v)
<1>1. /\ \E n : Filled(t.b, n, t.used) /\ t.used + 1 < n
      /\ Unique(buckets) =>
           /\ Unique(t.b) /\ \A j \in Key : \A w : Has(t.b, j, w) <=> Has(buckets, j, w)
           /\ \A i : Absent(buckets, i) \/ NoTombs(buckets) => Absent(t.b, i) \/ NoTombs(t.b)
           /\ Rehashes => t.used = Cardinality(LiveIn(buckets))
  BY PreparedOK
<1>2. /\ fault = "none" /\ answer' = answer /\ redefines' = redefines
      /\ redefines \/ Lookup(buckets, k) = Nil \/ NoTombs(buckets)
      /\ CASE Rehashes /\ t.used # Cardinality(LiveIn(buckets)) ->
                fault' = "assert" /\ buckets' = buckets /\ used' = used
           [] PutStop(t.b, k) = Capacity(t.b) ->
                fault' = "unreachable" /\ buckets' = buckets /\ used' = used
           [] OTHER -> buckets' = r.b /\ used' = r.used /\ fault' = fault
  BY DEF Put, NoTombs
<1> HIDE DEF t
<1>3. PICK n : Filled(t.b, n, t.used) /\ t.used + 1 < n
  BY <1>1
<1>4. /\ Filled(r.b, n, r.used) /\ PutStop(t.b, k) # Capacity(t.b) /\ Lookup(r.b, k) = v
      /\ Unique(t.b) /\ (Absent(t.b, k) \/ NoTombs(t.b)) =>
           /\ Unique(r.b)
           /\ \A j \in Key : \A w : Has(r.b, j, w) <=> IF j = k THEN w = v ELSE Has(t.b, j, w)
  <2>1. /\ Filled(t.b, n, t.used) /\ t.used + 1 < n /\ k \in Key /\ v \in Val
    BY <1>3
  <2>2. r = Insert(t, k, v)
    OBVIOUS
  <2> HIDE DEF r
  <2> QED
    <3>1. Filled(r.b, n, r.used) /\ PutStop(t.b, k) # Capacity(t.b) /\ Lookup(r.b, k) = v
      BY <2>1, <2>2, InsertGives
    <3>2. ASSUME Unique(t.b), Absent(t.b, k) \/ NoTombs(t.b)
          PROVE  /\ Unique(r.b)
                 /\ \A j \in Key : \A w : Has(r.b, j, w) <=> IF j = k THEN w = v ELSE Has(t.b, j, w)
      BY <2>1, <2>2, <3>2, InsertGives
    <3> QED
      BY <3>1, <3>2
<1> HIDE DEF r
<1> DEFINE asserts == Rehashes /\ t.used # Cardinality(LiveIn(buckets))
<1>5. CASE asserts
  <2>1. fault' = "assert" /\ buckets' = buckets /\ used' = used
    BY <1>2, <1>4, <1>5
  <2>2. ~ Unique(buckets)
    BY <1>1, <1>5
  <2> QED
    BY <1>2, <2>1, <2>2 DEF Sound
<1>6. CASE ~ asserts
  <2>1. buckets' = r.b /\ used' = r.used /\ fault' = "none"
    BY <1>2, <1>4, <1>6
  <2>2. Sound'
    BY <1>4, <2>1 DEF Sound
  <2>3. Lookup(buckets', k) = v
    BY <1>4, <2>1
  <2>4. ASSUME ~ redefines, Unique(buckets)
        PROVE  /\ Unique(buckets')
               /\ \A j \in Key : \A w : Has(buckets', j, w)
                                      <=> IF j = k THEN w = v ELSE Has(buckets, j, w)
    <3>1. Absent(buckets, k) \/ NoTombs(buckets)
      <4>1. CASE buckets = << >>
        BY <4>1, EmptyTable
      <4>2. ASSUME NEW m, Filled(buckets, m, used) PROVE Absent(buckets, k) \/ NoTombs(buckets)
        <5>1. ~ Absent(buckets, k) => Lookup(buckets, k) # Nil
          BY <4>2, LookupOK, Constants
        <5> QED
          BY <1>2, <2>4, <5>1
      <4> QED
        BY <4>1, <4>2 DEF Sound
    <3>2. Unique(t.b) /\ (Absent(t.b, k) \/ NoTombs(t.b))
      BY <1>1, <2>4, <3>1
    <3>3. \A j \in Key : \A w : Has(t.b, j, w) <=> Has(buckets, j, w)
      BY <1>1, <2>4
    <3> QED
      BY <1>4, <2>1, <3>2, <3>3
  <2> QED
    BY <1>2, <2>1, <2>2, <2>3, <2>4
<1> QED
  BY <1>5, <1>6

LEMMA DeleteOK ==
  ASSUME Sound, NEW k \in Key, Delete(k)
  PROVE  /\ Sound' /\ fault' = "none" /\ redefines' = redefines /\ answer' = answer
         /\ Unique(buckets) =>
              /\ Unique(buckets')
              /\ \A j \in Key : \A w : Has(buckets', j, w) <=> j # k /\ Has(buckets, j, w)
<1> DEFINE l == ProbeAt(buckets, k, GetStop(buckets, k))
           c == [i \in DOMAIN buckets |->
                   IF i = l /\ buckets[i].key = k
                   THEN [buckets[i] EXCEPT !.key = Tombstone] ELSE buckets[i]]
<1>1. /\ fault = "none" /\ used' = used /\ answer' = answer /\ redefines' = redefines
      /\ IF buckets # << >> /\ GetStop(buckets, k) = Capacity(buckets)
         THEN fault' = "unreachable" /\ buckets' = buckets
         ELSE buckets' = c /\ fault' = fault
  BY DEF Delete
<1>2. CASE buckets = << >> /\ used = 0
  <2>1. buckets' = c /\ fault' = "none"
    BY <1>1, <1>2
  <2>2. c = << >>
    <3>1. DOMAIN buckets = {}
      BY <1>2
    <3> QED
      BY <3>1
  <2> HIDE DEF c
  <2> QED
    BY <1>1, <1>2, <2>1, <2>2, EmptyTable DEF Sound
<1>3. ASSUME NEW n, Filled(buckets, n, used)
      PROVE  /\ Sound' /\ fault' = "none" /\ redefines' = redefines /\ answer' = answer
             /\ Unique(buckets) =>
                  /\ Unique(buckets')
                  /\ \A j \in Key : \A w : Has(buckets', j, w) <=> j # k /\ Has(buckets, j, w)
  <2>1. /\ DOMAIN buckets = 0 .. n - 1 /\ n \in Nat \ {0} /\ n \in Nat /\ n >= 4
        /\ buckets \in [0 .. n - 1 -> Entry] /\ buckets # << >>
        /\ used = Cardinality(Occupied(buckets)) /\ used < n
        /\ \A i \in 0 .. n - 1 : buckets[i].key \in Key => buckets[i].val \in Val
        /\ \A p \in 0 .. n - 1, j \in Key : buckets[Slot(j, p, n)].key = j
             => \A q \in 0 .. p - 1 : buckets[Slot(j, q, n)].key # Nil
    BY <1>3, HasUnused DEF Filled
  <2>2. /\ Stops(buckets, n, k, {k, Nil}, GetStop(buckets, k)) /\ GetStop(buckets, k) # Capacity(buckets)
        /\ Lookup(buckets, k) = LET e == buckets[Slot(k, GetStop(buckets, k), n)]
                                IN  IF e.key = k THEN e.val ELSE Nil
    BY <1>3, LookupAt
  <2>3. l = Slot(k, GetStop(buckets, k), n)
    BY <2>1, CapacityIs
  <2>4. buckets' = c /\ fault' = "none"
    BY <1>1, <2>2
  <2>5. l \in 0 .. n - 1
    BY <2>1, <2>2, <2>3, Probes DEF Stops
  <2>6. Lookup(buckets, k) = IF buckets[l].key = k THEN buckets[l].val ELSE Nil
    BY <2>2, <2>3
  <2> HIDE DEF l
  <2>7. c \in [0 .. n - 1 -> Entry] /\ DOMAIN c = 0 .. n - 1
    <3>1. ASSUME NEW i \in 0 .. n - 1 PROVE [buckets[i] EXCEPT !.key = Tombstone] \in Entry
      BY <2>1 DEF Entry
    <3> QED
      BY <2>1, <3>1
  <2>8. \A i \in 0 .. n - 1 :
          /\ c[i].key = IF i = l /\ buckets[i].key = k THEN Tombstone ELSE buckets[i].key
          /\ c[i].val = buckets[i].val
    <3>1. ASSUME NEW i \in 0 .. n - 1
          PROVE  /\ [buckets[i] EXCEPT !.key = Tombstone].key = Tombstone
                 /\ [buckets[i] EXCEPT !.key = Tombstone].val = buckets[i].val
      BY <2>1 DEF Entry
    <3> QED
      BY <2>1, <3>1
  <2> HIDE DEF c
  <2>9. \A i \in 0 .. n - 1 : c[i].key = Nil <=> buckets[i].key = Nil
    BY <2>8, Constants
  <2>10. Occupied(c) = Occupied(buckets)
    BY <2>1, <2>7, <2>9 DEF Occupied
  <2>11. \A i \in 0 .. n - 1 : \A j \in Key : c[i].key = j =>
            buckets[i].key = j /\ ~ (i = l /\ buckets[i].key = k)
    BY <2>8, Constants
  <2>12. ASSUME NEW p \in 0 .. n - 1, NEW j \in Key, c[Slot(j, p, n)].key = j,
                NEW q \in 0 .. p - 1
         PROVE  c[Slot(j, q, n)].key # Nil
    <3>1. q \in 0 .. n - 1
      BY <2>1
    <3>2. Slot(j, p, n) \in 0 .. n - 1 /\ Slot(j, q, n) \in 0 .. n - 1
      BY <2>1, <3>1, Probes
    <3>3. buckets[Slot(j, q, n)].key # Nil
      BY <2>1, <2>11, <2>12, <3>2
    <3> QED
      BY <2>9, <3>2, <3>3
  <2>13. Filled(c, n, used)
    <3>1. \A i \in 0 .. n - 1 : c[i].key \in Key => c[i].val \in Val
      BY <2>1, <2>8, <2>11
    <3> QED
      BY <2>1, <2>7, <2>10, <2>12, <3>1 DEF Filled
  <2>14. Sound'
    BY <1>1, <2>4, <2>13 DEF Sound
  <2>15. ASSUME Unique(buckets)
         PROVE  /\ Unique(c)
                /\ \A j \in Key : \A w : Has(c, j, w) <=> j # k /\ Has(buckets, j, w)
    <3>1. Unique(c)
      <4>1. \A i, j \in 0 .. n - 1 : c[i].key = c[j].key /\ c[i].key \in Key
               => buckets[i].key = buckets[j].key /\ buckets[i].key \in Key
        BY <2>11
      <4> QED
        BY <2>1, <2>7, <2>15, <4>1 DEF Unique
    <3>2. ASSUME NEW i \in 0 .. n - 1 PROVE c[i].key # k
      <4> SUFFICES ASSUME c[i].key = k PROVE FALSE
        OBVIOUS
      <4>1. buckets[i].key = k /\ i # l
        BY <2>11
      <4>2. ~ Absent(buckets, k)
        BY <2>1, <4>1 DEF Absent
      <4>3. Lookup(buckets, k) \in Val
        BY <1>3, <4>2, LookupOK
      <4>4. buckets[l].key = k
        BY <2>6, <4>3, Constants
      <4> QED
        BY <2>1, <2>5, <2>15, <4>1, <4>4 DEF Unique
    <3>3. ASSUME NEW j \in Key, NEW w PROVE Has(c, j, w) <=> j # k /\ Has(buckets, j, w)
      <4>1. Has(c, j, w) => j # k /\ Has(buckets, j, w)
        BY <2>1, <2>7, <2>8, <2>11, <3>2 DEF Has
      <4>2. ASSUME j # k, Has(buckets, j, w) PROVE Has(c, j, w)
        BY <2>1, <2>7, <2>8, <4>2 DEF Has
      <4> QED
        BY <4>1, <4>2
    <3> QED
      BY <3>1, <3>3
  <2> QED
    BY <1>1, <2>4, <2>14, <2>15
<1> QED
  BY <1>2, <1>3 DEF Sound

LEMMA GetOK ==
  ASSUME Sound, NEW k \in Key, Get(k)
  PROVE  /\ buckets' = buckets /\ used' = used /\ redefines' = redefines /\ fault' = "none"
         /\ answer' = Lookup(buckets, k)
<1>1. /\ fault = "none" /\ buckets' = buckets /\ used' = used /\ redefines' = redefines
      /\ IF buckets # << >> /\ GetStop(buckets, k) = Capacity(buckets)
         THEN fault' = "unreachable" /\ answer' = answer
         ELSE answer' = Lookup(buckets, k) /\ fault' = fault
  BY DEF Get
<1>2. buckets # << >> => GetStop(buckets, k) # Capacity(buckets)
  BY LookupAt DEF Sound
<1> QED
  BY <1>1, <1>2
-----------------------------------------------------------------------------
(* The inductive invariant.  A client that redefines present names can put *)
(* one twice, behind a tombstone; the assertion of rehash then fails.      *)
IInv == /\ Sound /\ redefines \in BOOLEAN /\ fault \in {"none", "assert"}
        /\ ~ redefines => fault = "none" /\ Unique(buckets)

LEMMA InitInv == Init => IInv
  BY EmptyTable, Constants DEF Init, IInv, Sound

LEMMA Invariance == IInv /\ [Next]_vars => IInv'
<1> SUFFICES ASSUME IInv, [Next]_vars PROVE IInv'
  OBVIOUS
<1>1. /\ Sound /\ redefines \in BOOLEAN /\ fault \in {"none", "assert"}
      /\ ~ redefines => fault = "none" /\ Unique(buckets)
  BY DEF IInv
<1>2. ASSUME NEW k \in Key, Get(k) PROVE IInv'
  <2>1. /\ buckets' = buckets /\ used' = used /\ redefines' = redefines /\ fault' = "none"
    BY <1>1, <1>2, GetOK
  <2>2. Sound'
    BY <1>1, <2>1 DEF Sound
  <2> QED
    BY <1>1, <2>1, <2>2 DEF IInv
<1>3. ASSUME NEW k \in Key, Delete(k) PROVE IInv'
  <2>1. /\ Sound' /\ fault' = "none" /\ redefines' = redefines
        /\ Unique(buckets) => Unique(buckets')
    BY <1>1, <1>3, DeleteOK
  <2> QED
    BY <1>1, <2>1 DEF IInv
<1>4. ASSUME NEW k \in Key, NEW v \in Val, Put(k, v) PROVE IInv'
  <2>1. /\ Sound' /\ fault' \in {"none", "assert"} /\ redefines' = redefines
        /\ ~ redefines /\ Unique(buckets) => fault' = "none" /\ Unique(buckets')
    BY <1>1, <1>4, PutOK
  <2> QED
    BY <1>1, <2>1 DEF IInv
<1>5. CASE UNCHANGED vars
  BY <1>1, <1>5 DEF IInv, Sound, vars
<1> QED
  BY <1>2, <1>3, <1>4, <1>5 DEF Next

LEMMA Inductive == Spec => []IInv
  BY InitInv, Invariance, PTL DEF Spec

LEMMA InvImplies == IInv => ProbesEnd
<1> SUFFICES ASSUME IInv PROVE ProbesEnd
  OBVIOUS
<1>1. Sound /\ fault \in {"none", "assert"}
  BY DEF IInv
<1>2. CASE buckets = << >> /\ used = 0
  <2>1. {i \in DOMAIN buckets : buckets[i].key # Nil} = {}
    BY <1>2
  <2> QED
    BY <1>1, <1>2, <2>1, FS_EmptySet DEF ProbesEnd
<1>3. ASSUME NEW n, Filled(buckets, n, used) PROVE ProbesEnd
  <2>1. used = Cardinality(Occupied(buckets)) /\ DOMAIN buckets = 0 .. n - 1
        /\ \E i \in 0 .. n - 1 : buckets[i].key = Nil
    BY <1>3, HasUnused DEF Filled
  <2> QED
    BY <1>1, <2>1 DEF ProbesEnd, Occupied
<1> QED
  BY <1>1, <1>2, <1>3 DEF Sound

(* No probe loop runs off its end, for every hash function and after every *)
(* sequence of operations: the table keeps an unused bucket, and `used'    *)
(* counts the others exactly.                                              *)
THEOREM ProbeLoopsEnd == Spec => []ProbesEnd
  BY Inductive, InvImplies, PTL

(* The lookup that follows a put returns what was put, also when the put   *)
(* grew the table, dropped its tombstones, or reused one of them.          *)
THEOREM PutIsLookedUp == Spec => PutIsSeen
<1>1. IInv /\ [Next]_vars =>
        [\A k \in Key, v \in Val : Put(k, v) /\ fault' = "none" => Lookup(buckets', k) = v]_vars
  BY PutOK DEF IInv
<1> QED
  BY <1>1, Inductive, PTL DEF Spec, PutIsSeen

(* The assertion of rehash, that it moved every live entry, and the        *)
(* unreachable() of the probe loops stop no client that leaves a present   *)
(* name alone once it has deleted one.                                     *)
THEOREM AssertionsHold == Spec => [](~ redefines => fault = "none")
<1>1. IInv => (~ redefines => fault = "none")
  BY DEF IInv
<1> QED
  BY <1>1, Inductive, PTL

(* hashmap.c keeps a dictionary for such a client: every lookup answers    *)
(* with what was last put under the name and not deleted since, whatever   *)
(* the collisions, deletions and rehashes in between.                      *)
THEOREM IsADictionary == Spec => Dictionary
<1> DEFINE dict == [k \in Key |-> IF redefines THEN Nil ELSE Lookup(buckets, k)]
           ans == IF redefines THEN Nil ELSE answer
<1>1. Init => D!Init
  <2> SUFFICES ASSUME Init PROVE D!Init
    OBVIOUS
  <2>1. \A k \in Key : Lookup(buckets, k) = Nil
    BY DEF Init, Lookup
  <2> QED
    BY <2>1 DEF Init, D!Init
<1>2. IInv /\ [Next]_vars => [D!Next]_<<dict, ans>>
  <2> SUFFICES ASSUME IInv, [Next]_vars PROVE [D!Next]_<<dict, ans>>
    OBVIOUS
  <2>1. /\ Sound /\ Sound' /\ redefines \in BOOLEAN
        /\ ~ redefines => fault = "none" /\ Unique(buckets)
    BY Invariance DEF IInv
  <2>2. ASSUME NEW j \in Key, Unique(buckets)
        PROVE  Lookup(buckets, j) \in Val \cup {Nil}
               /\ \A w \in Val : Has(buckets, j, w) <=> Lookup(buckets, j) = w
    BY <2>1, <2>2, Answers DEF Sound
  <2>3. ASSUME NEW j \in Key, Unique(buckets')
        PROVE  Lookup(buckets', j) \in Val \cup {Nil}
               /\ \A w \in Val : Has(buckets', j, w) <=> Lookup(buckets', j) = w
    <3>1. buckets' = << >> \/ \E n, u : Filled(buckets', n, u)
      BY <2>1 DEF Sound
    <3> QED
      BY <2>3, <3>1, Answers
  <2>4. ASSUME NEW k \in Key, Get(k) PROVE [D!Next]_<<dict, ans>>
    <3>1. buckets' = buckets /\ redefines' = redefines /\ answer' = Lookup(buckets, k)
      BY <2>1, <2>4, GetOK
    <3>2. dict' = dict
      BY <3>1
    <3>3. CASE redefines
      BY <3>1, <3>2, <3>3
    <3>4. CASE ~ redefines
      <4>1. ans' = dict[k]
        BY <3>1, <3>4
      <4>2. D!Get(k)
        BY <3>2, <4>1 DEF D!Get
      <4> QED
        BY <4>2 DEF D!Next
    <3> QED
      BY <3>3, <3>4
  <2>5. ASSUME NEW k \in Key, Delete(k) PROVE [D!Next]_<<dict, ans>>
    <3>1. /\ redefines' = redefines /\ answer' = answer
          /\ Unique(buckets) =>
               /\ Unique(buckets')
               /\ \A j \in Key : \A w : Has(buckets', j, w) <=> j # k /\ Has(buckets, j, w)
      BY <2>1, <2>5, DeleteOK
    <3>2. CASE redefines
      BY <3>1, <3>2
    <3>3. CASE ~ redefines
      <4>1. ASSUME NEW j \in Key
            PROVE  Lookup(buckets', j) = IF j = k THEN Nil ELSE Lookup(buckets, j)
        <5>1. \A w \in Val : Lookup(buckets', j) = w <=> j # k /\ Lookup(buckets, j) = w
          BY <2>1, <2>2, <2>3, <3>1, <3>3
        <5>2. Lookup(buckets', j) \in Val \cup {Nil} /\ Lookup(buckets, j) \in Val \cup {Nil}
          BY <2>1, <2>2, <2>3, <3>1, <3>3
        <5> QED
          BY <5>1, <5>2, Constants
      <4>2. dict' = [dict EXCEPT ![k] = Nil] /\ ans' = ans
        BY <3>1, <3>3, <4>1
      <4>3. D!Delete(k)
        BY <4>2 DEF D!Delete
      <4> QED
        BY <4>3 DEF D!Next
    <3> QED
      BY <3>2, <3>3
  <2>6. ASSUME NEW k \in Key, NEW v \in Val, Put(k, v) PROVE [D!Next]_<<dict, ans>>
    <3>1. /\ redefines' = redefines
          /\ ~ redefines /\ Unique(buckets) =>
               /\ Unique(buckets') /\ answer' = answer
               /\ \A j \in Key : \A w : Has(buckets', j, w)
                                      <=> IF j = k THEN w = v ELSE Has(buckets, j, w)
      BY <2>1, <2>6, PutOK
    <3>2. CASE redefines
      BY <3>1, <3>2
    <3>3. CASE ~ redefines
      <4>1. ASSUME NEW j \in Key
            PROVE  Lookup(buckets', j) = IF j = k THEN v ELSE Lookup(buckets, j)
        <5>1. \A w \in Val : Lookup(buckets', j) = w <=> IF j = k THEN w = v ELSE Lookup(buckets, j) = w
          BY <2>1, <2>2, <2>3, <3>1, <3>3
        <5>2. Lookup(buckets', j) \in Val \cup {Nil} /\ Lookup(buckets, j) \in Val \cup {Nil}
          BY <2>1, <2>2, <2>3, <3>1, <3>3
        <5> QED
          BY <5>1, <5>2, Constants
      <4>2. dict' = [dict EXCEPT ![k] = v] /\ ans' = ans
        BY <2>1, <3>1, <3>3, <4>1
      <4>3. D!Put(k, v)
        BY <4>2 DEF D!Put
      <4> QED
        BY <4>3 DEF D!Next
    <3> QED
      BY <3>2, <3>3
  <2>7. CASE UNCHANGED vars
    BY <2>7 DEF vars
  <2> QED
    BY <2>4, <2>5, <2>6, <2>7 DEF Next
<1> QED
  BY <1>1, <1>2, Inductive, PTL DEF Spec, Dictionary, D!Spec
=============================================================================
