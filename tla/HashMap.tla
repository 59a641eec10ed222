------------------------------ MODULE HashMap ------------------------------
(***************************************************************************)
(* The compiler's open-addressing hash table, src/hashmap.c: linear        *)
(* probing, tombstones for deleted entries, and a rehash that drops the    *)
(* tombstones and grows the table once it is 70% used.  Strings are the    *)
(* elements of Key and fnv_hash is the constant function Hash.             *)
(***************************************************************************)
EXTENDS Naturals, FiniteSets

CONSTANTS
  Key, Val,   \* the names and the (non-NULL) pointers stored under them
  Nil,        \* NULL, as a value and as the key of an unused bucket
  Tombstone,  \* the key of a deleted entry
  Hash,       \* fnv_hash
  InitSize,   \* INIT_SIZE, the capacity of a new table
  Clients     \* the tables: TRUE for one whose clients put a present name
              \* again after deleting another (`macros'), FALSE for the others

ASSUME HashMapAssumption ==
  /\ InitSize \in Nat /\ InitSize >= 4  \* fewer would be full below the high watermark
  /\ Hash \in [Key -> Nat]
  /\ Nil \notin Key \cup Val /\ Tombstone \notin Key \cup {Nil}
  /\ Clients \subseteq BOOLEAN

VARIABLES
  buckets,  \* [0 .. capacity-1 -> entries]; the empty function before calloc
  used,     \* map->used: buckets that are not NULL, tombstones included
  answer,   \* what the last hashmap_get returned
  fault,    \* "none", or the assertion that stopped the compiler
  redefines \* which of the clients use the table

vars == <<buckets, used, answer, fault, redefines>>

(* Fault variants: definitions named after the bug they carry stand beside *)
(* the definition they vary; no specification uses them.                   *)
HighWatermarkAbove100 == 101
HighWatermark == 70
LowWatermark == 50

Calloc(n) == [i \in 0 .. n - 1 |-> [key |-> Nil, val |-> Nil]]
Capacity(b) == Cardinality(DOMAIN b)
LiveIn(b) == {i \in DOMAIN b : b[i].key \in Key}

(* The buckets in the order a probe for k visits them.                     *)
ProbeAt(b, k, i) == (Hash[k] + i) % Capacity(b)

(* The first position of the probe sequence whose key is in S, or the      *)
(* capacity when the loop runs off its end into unreachable().             *)
FirstProbe(b, k, S) ==
  LET hits == {i \in DOMAIN b : b[ProbeAt(b, k, i)].key \in S}
  IN  IF hits = {} THEN Capacity(b)
      ELSE CHOOSE i \in hits : \A j \in hits : i <= j

(* get_entry stops at a match or at an unused bucket.                      *)
GetStopAtTombstone(b, k) == FirstProbe(b, k, {k, Nil, Tombstone})
GetStop(b, k) == FirstProbe(b, k, {k, Nil})
Lookup(b, k) ==
  IF b = << >> \/ GetStop(b, k) = Capacity(b) THEN Nil
  ELSE LET e == b[ProbeAt(b, k, GetStop(b, k))]
       IN  IF e.key = k THEN e.val ELSE Nil

(* get_or_insert_entry also stops at the first tombstone, and reuses it.   *)
PutStopIgnoresMatch(b, k) == FirstProbe(b, k, {Nil, Tombstone})
PutStop(b, k) == FirstProbe(b, k, {k, Nil, Tombstone})
Insert(t, k, v) ==
  LET i == ProbeAt(t.b, k, PutStop(t.b, k))
  IN  [b |-> [t.b EXCEPT ![i] = [key |-> k, val |-> v]],
       used |-> IF t.b[i].key = Nil THEN t.used + 1 ELSE t.used]

(* while ((nkeys * 100) / cap >= LOW_WATERMARK) cap = cap * 2              *)
NewCapacity(nkeys, cap) ==
  LET grown[n \in 0 .. nkeys + 1] == IF n = 0 THEN cap ELSE 2 * grown[n - 1]
      Enough(n) == (nkeys * 100) \div grown[n] < LowWatermark
  IN  grown[CHOOSE n \in 0 .. nkeys + 1 : Enough(n) /\ \A m \in 0 .. n - 1 : ~ Enough(m)]

(* rehash puts the live entries, in bucket order, into a new table.        *)
Rehash(b) ==
  LET cap == NewCapacity(Cardinality(LiveIn(b)), Capacity(b))
      moved[n \in 0 .. Capacity(b)] ==
        IF n = 0 THEN [b |-> Calloc(cap), used |-> 0]
        ELSE IF n - 1 \in LiveIn(b) THEN Insert(moved[n - 1], b[n - 1].key, b[n - 1].val)
        ELSE moved[n - 1]
  IN  moved[Capacity(b)]

(* The table get_or_insert_entry probes: new, rehashed, or as it is.       *)
Prepared ==
  IF buckets = << >> THEN [b |-> Calloc(InitSize), used |-> 0]
  ELSE IF (used * 100) \div Capacity(buckets) >= HighWatermark
       THEN Rehash(buckets)
       ELSE [b |-> buckets, used |-> used]

Rehashes == /\ buckets # << >>
            /\ (used * 100) \div Capacity(buckets) >= HighWatermark

Init ==
  /\ buckets = << >> /\ used = 0 /\ answer = Nil /\ fault = "none"
  /\ redefines \in Clients

Put(k, v) ==
  /\ fault = "none"
  /\ \/ redefines \/ Lookup(buckets, k) = Nil
     \/ \A i \in DOMAIN buckets : buckets[i].key # Tombstone
  /\ LET t == Prepared
     IN  CASE Rehashes /\ t.used # Cardinality(LiveIn(buckets)) ->
                fault' = "assert" /\ UNCHANGED <<buckets, used>>
           [] PutStop(t.b, k) = Capacity(t.b) ->
                fault' = "unreachable" /\ UNCHANGED <<buckets, used>>
           [] OTHER -> /\ buckets' = Insert(t, k, v).b
                       /\ used' = Insert(t, k, v).used
                       /\ UNCHANGED fault
  /\ UNCHANGED <<answer, redefines>>

(* The entry's value and keylen stay behind; only the key is overwritten.  *)
Delete(k) ==
  /\ fault = "none"
  /\ IF buckets # << >> /\ GetStop(buckets, k) = Capacity(buckets)
     THEN fault' = "unreachable" /\ UNCHANGED buckets
     ELSE /\ buckets' = [i \in DOMAIN buckets |->
                IF i = ProbeAt(buckets, k, GetStop(buckets, k))
                   /\ buckets[i].key = k
                THEN [buckets[i] EXCEPT !.key = Tombstone] ELSE buckets[i]]
          /\ UNCHANGED fault
  /\ UNCHANGED <<used, answer, redefines>>

Get(k) ==
  /\ fault = "none"
  /\ IF buckets # << >> /\ GetStop(buckets, k) = Capacity(buckets)
     THEN fault' = "unreachable" /\ UNCHANGED answer
     ELSE answer' = Lookup(buckets, k) /\ UNCHANGED fault
  /\ UNCHANGED <<buckets, used, redefines>>

Next == \E k \in Key : Get(k) \/ Delete(k) \/ \E v \in Val : Put(k, v)

Spec == Init /\ [][Next]_vars
-----------------------------------------------------------------------------
(* Every probe loop ends: whatever mixture of puts, deletes and rehashes   *)
(* led here, `used' counts the buckets that are not NULL, tombstones too,  *)
(* and some bucket is still NULL, so that get_entry and                    *)
(* get_or_insert_entry never reach unreachable() (hashmap.c:73,105).       *)
ProbesEnd == /\ used = Cardinality({i \in DOMAIN buckets : buckets[i].key # Nil})
             /\ buckets # << >> => \E i \in DOMAIN buckets : buckets[i].key = Nil
             /\ fault # "unreachable"

(* A lookup right after a put returns what was put, even when the put      *)
(* rehashed the table or reused a tombstone.                               *)
PutIsSeen ==
  [][\A k \in Key, v \in Val :
       Put(k, v) /\ fault' = "none" => Lookup(buckets', k) = v]_vars

(* Such a table implements the dictionary of module Dict; of the macros'   *)
(* table, which does not, the mapping shows nothing.                       *)
D == INSTANCE Dict WITH
       dict <- [k \in Key |-> IF redefines THEN Nil ELSE Lookup(buckets, k)],
       answer <- IF redefines THEN Nil ELSE answer
Dictionary == D!Spec
=============================================================================
