------------------------------ MODULE Induction ------------------------------
(***************************************************************************)
(* Induction over data, stated with sets: the library's induction theorems *)
(* take a predicate as a parameter, which the provers cannot instantiate,  *)
(* but the set of the values that satisfy a predicate they can.  And what  *)
(* the provers have to be told about flattened sequences and division.     *)
(***************************************************************************)
EXTENDS Integers, SequencesExt, FiniteSetTheorems, SequenceTheorems, TLAPS

(* A set of naturals that is not empty has a least member.                 *)
LEMMA LeastNat ==
  ASSUME NEW S \in SUBSET Nat, S # {}
  PROVE  \E n \in S : \A m \in S : n <= m
<1> DEFINE R == OpToRel(<, Nat)
<1>1. IsWellFoundedOn(R, Nat)
  BY NatLessThanWellFounded
<1>2. PICK n \in S : \A m \in S : ~ (<<m, n>> \in R)
  BY <1>1, WFMin
<1>3. ASSUME NEW m \in S PROVE ~ (m < n)
  BY <1>2 DEF OpToRel
<1> QED
  BY <1>3

(* A set with 0 in it, and with n + 1 in it when n is, holds every natural *)
(* up to any bound within which that is known.                             *)
LEMMA SetInduction ==
  ASSUME NEW n \in Nat, NEW S, 0 \in S, \A i \in 0 .. n - 1 : i \in S => i + 1 \in S
  PROVE  0 .. n \subseteq S /\ n \in S
<1> SUFFICES ASSUME NEW k \in 0 .. n, k \notin S
             PROVE  FALSE
  OBVIOUS
<1> DEFINE T == {i \in 0 .. n : i \notin S}
<1>1. T \in SUBSET Nat /\ T # {}
  OBVIOUS
<1>2. PICK i \in T : \A j \in T : i <= j
  BY <1>1, LeastNat
<1>3. i # 0 /\ i - 1 \in 0 .. n - 1 /\ i - 1 \notin T
  BY <1>2
<1> QED
  BY <1>2, <1>3

(* A bounded set of naturals that is not empty has a greatest member.      *)
LEMMA GreatestNat ==
  ASSUME NEW n \in Nat, NEW S \in SUBSET (0 .. n), S # {}
  PROVE  \E k \in S : \A m \in S : m <= k
<1> DEFINE T == {i \in 0 .. n : n - i \in S}
<1>1. T \in SUBSET Nat /\ T # {}
  <2>1. PICK m \in S : TRUE
    OBVIOUS
  <2>2. n - m \in 0 .. n /\ n - (n - m) = m
    OBVIOUS
  <2> QED
    BY <2>2
<1>2. PICK t \in T : \A u \in T : t <= u
  BY <1>1, LeastNat
<1>3. ASSUME NEW m \in S PROVE m <= n - t
  <2>1. m \in 0 .. n /\ n - m \in 0 .. n /\ n - (n - m) = m
    OBVIOUS
  <2>2. n - m \in T
    BY <2>1
  <2>3. t <= n - m /\ t \in 0 .. n
    BY <1>2, <2>2
  <2> QED
    BY <2>1, <2>3
<1> QED
  BY <1>2, <1>3

(* Recursion along 0 .. n defines a function: each value is computed from  *)
(* the one before by a function Step[i].                                   *)
Steps(Step, n, V) == Step \in [1 .. n -> [V -> V]]
Iterates(g, n, V, v0, Step) ==
  g \in [0 .. n -> V] /\ g[0] = v0 /\ \A i \in 1 .. n : g[i] = Step[i][g[i - 1]]

LEMMA Recursion ==
  ASSUME NEW n \in Nat, NEW V, NEW v0 \in V, NEW Step, Steps(Step, n, V)
  PROVE  \E g : Iterates(g, n, V, v0, Step)
<1>0. Step \in [1 .. n -> [V -> V]]
  BY DEF Steps
<1> DEFINE Upto(k, g) == /\ g \in [0 .. n -> V] /\ g[0] = v0
                         /\ \A i \in 1 .. k : g[i] = Step[i][g[i - 1]]
           S == {k \in 0 .. n : \E g : Upto(k, g)}
<1>1. 0 \in S
  <2>1. Upto(0, [i \in 0 .. n |-> v0])
    OBVIOUS
  <2> HIDE DEF Upto
  <2> QED
    BY <2>1
<1>2. ASSUME NEW k \in 0 .. n - 1, k \in S
      PROVE  k + 1 \in S
  <2>1. PICK g : Upto(k, g)
    BY <1>2
  <2> DEFINE f == [g EXCEPT ![k + 1] = Step[k + 1][g[k]]]
  <2>2. f \in [0 .. n -> V] /\ f[0] = v0
    BY <1>0, <2>1
  <2>3. ASSUME NEW i \in 1 .. k + 1 PROVE f[i] = Step[i][f[i - 1]]
    BY <2>1
  <2>4. Upto(k + 1, f)
    BY <2>2, <2>3
  <2> HIDE DEF Upto, f
  <2> QED
    BY <2>4
<1> HIDE DEF S
<1>3. n \in S
  BY <1>1, <1>2, SetInduction
<1> QED
  BY <1>3 DEF S, Iterates

(* x is an element of the sequence s.                                      *)
Holds(s, x) == \E i \in DOMAIN s : s[i] = x

(* No element of s occurs twice in it.                                     *)
Once(s) == \A i, j \in DOMAIN s : s[i] = s[j] => i = j

LEMMA ConcatHolds ==
  ASSUME NEW A, NEW s \in Seq(A), NEW t \in Seq(A)
  PROVE  /\ s \o t \in Seq(A)
         /\ \A x : Holds(s \o t, x) <=> Holds(s, x) \/ Holds(t, x)
         /\ Once(s) /\ Once(t) /\ (\A x : ~ (Holds(s, x) /\ Holds(t, x))) => Once(s \o t)
<1> DEFINE u == s \o t
<1>1. /\ u \in Seq(A) /\ Len(u) = Len(s) + Len(t) /\ Len(s) \in Nat /\ Len(t) \in Nat
      /\ DOMAIN s = 1 .. Len(s) /\ DOMAIN t = 1 .. Len(t) /\ DOMAIN u = 1 .. Len(u)
      /\ \A i \in 1 .. Len(s) + Len(t) :
           u[i] = IF i <= Len(s) THEN s[i] ELSE t[i - Len(s)]
  BY ConcatProperties, LenProperties
<1> HIDE DEF u
<1>2. ASSUME NEW x, Holds(u, x) PROVE Holds(s, x) \/ Holds(t, x)
  <2>1. PICK i \in 1 .. Len(s) + Len(t) : u[i] = x
    BY <1>1, <1>2 DEF Holds
  <2>2. CASE i <= Len(s)
    BY <1>1, <2>1, <2>2 DEF Holds
  <2>3. CASE i > Len(s)
    <3>1. i - Len(s) \in 1 .. Len(t) /\ t[i - Len(s)] = x
      BY <1>1, <2>1, <2>3
    <3> QED
      BY <1>1, <3>1 DEF Holds
  <2> QED
    BY <1>1, <2>2, <2>3
<1>3. ASSUME NEW x, Holds(s, x) PROVE Holds(u, x)
  <2>1. PICK i \in 1 .. Len(s) : s[i] = x
    BY <1>1, <1>3 DEF Holds
  <2>2. i \in 1 .. Len(s) + Len(t) /\ u[i] = x
    BY <1>1, <2>1
  <2> QED
    BY <1>1, <2>2 DEF Holds
<1>4. ASSUME NEW x, Holds(t, x) PROVE Holds(u, x)
  <2>1. PICK i \in 1 .. Len(t) : t[i] = x
    BY <1>1, <1>4 DEF Holds
  <2>2. Len(s) + i \in 1 .. Len(s) + Len(t) /\ u[Len(s) + i] = x
    BY <1>1, <2>1
  <2> QED
    BY <1>1, <2>2 DEF Holds
<1>5. ASSUME Once(s), Once(t), \A x : ~ (Holds(s, x) /\ Holds(t, x)),
             NEW i \in 1 .. Len(u), NEW j \in 1 .. Len(u), u[i] = u[j]
      PROVE  i = j
  <2>1. CASE i <= Len(s) /\ j <= Len(s)
    BY <1>1, <1>5, <2>1 DEF Once
  <2>2. CASE i > Len(s) /\ j > Len(s)
    <3>1. i - Len(s) \in 1 .. Len(t) /\ j - Len(s) \in 1 .. Len(t)
      BY <1>1, <2>2
    <3>2. t[i - Len(s)] = t[j - Len(s)]
      BY <1>1, <1>5, <2>2
    <3>3. i - Len(s) = j - Len(s)
      BY <1>1, <1>5, <3>1, <3>2 DEF Once
    <3> QED
      BY <1>1, <3>3
  <2>3. ASSUME NEW k \in 1 .. Len(u), NEW l \in 1 .. Len(u), u[k] = u[l],
               k <= Len(s), l > Len(s)
        PROVE  FALSE
    <3>1. l - Len(s) \in 1 .. Len(t) /\ u[l] = t[l - Len(s)] /\ u[k] = s[k] /\ k \in 1 .. Len(s)
      BY <1>1, <2>3
    <3>2. Holds(s, u[k]) /\ Holds(t, u[k])
      BY <1>1, <2>3, <3>1 DEF Holds
    <3> QED
      BY <1>5, <3>2
  <2> QED
    BY <1>1, <1>5, <2>1, <2>2, <2>3
<1> QED
  BY <1>1, <1>2, <1>3, <1>4, <1>5 DEF Once, u

(* What FlattenSeq computes: f[i] is the concatenation of the first i.     *)
Flattens(f, s) ==
  /\ f[1] = s[1]
  /\ \A i \in 1 .. Len(s) - 1 : f[i + 1] = f[i] \o s[i + 1]

LEMMA FlattenIsConcat ==
  ASSUME NEW A, NEW n \in Nat \ {0}, NEW s \in [1 .. n -> Seq(A)]
  PROVE  \E f : Flattens(f, s) /\ FlattenSeq(s) = f[n] /\ Len(s) = n
<1> DEFINE Step == [i \in 1 .. n |-> [v \in Seq(A) |-> v \o s[i]]]
           Eqn(f) == f = [i \in 1 .. n |-> IF i = 1 THEN s[i] ELSE f[i - 1] \o s[i]]
           F == CHOOSE f : Eqn(f)
<1>1. Len(s) = n /\ s \in Seq(Seq(A))
  BY IsASeq
<1>2. Step \in [1 .. n -> [Seq(A) -> Seq(A)]]
  <2>1. ASSUME NEW i \in 1 .. n, NEW v \in Seq(A) PROVE v \o s[i] \in Seq(A)
    BY ConcatProperties
  <2> QED
    BY <2>1
<1>3. PICK g : Iterates(g, n, Seq(A), << >>, Step)
  <2>1. << >> \in Seq(A) /\ n \in Nat /\ Steps(Step, n, Seq(A))
    BY <1>2, EmptySeq DEF Steps
  <2> HIDE DEF Step
  <2> QED
    BY <2>1, Recursion
<1>g. /\ g \in [0 .. n -> Seq(A)] /\ g[0] = << >>
      /\ \A i \in 1 .. n : g[i] = Step[i][g[i - 1]]
  BY <1>3 DEF Iterates
<1>4. ASSUME NEW i \in 1 .. n PROVE g[i] = g[i - 1] \o s[i]
  <2>1. g[i - 1] \in Seq(A)
    BY <1>g
  <2> QED
    BY <1>g, <2>1
<1>5. g[1] = s[1]
  <2>1. 1 \in 1 .. n /\ 1 - 1 = 0 /\ s[1] \in Seq(A)
    OBVIOUS
  <2>2. g[1] = << >> \o s[1]
    BY <1>g, <1>4, <2>1
  <2> QED
    BY <2>1, <2>2, ConcatEmptySeq
<1> DEFINE f0 == [i \in 1 .. n |-> g[i]]
<1>6. Eqn(f0)
  <2>1. ASSUME NEW i \in 1 .. n
        PROVE  f0[i] = IF i = 1 THEN s[i] ELSE f0[i - 1] \o s[i]
    <3>1. i = 1 \/ i - 1 \in 1 .. n
      OBVIOUS
    <3>2. i # 1 => f0[i - 1] = g[i - 1]
      BY <3>1
    <3> QED
      BY <1>4, <1>5, <3>1, <3>2
  <2> QED
    BY <2>1
<1>7. Eqn(F)
  <2> HIDE DEF f0, Eqn
  <2> QED
    BY <1>6
<1>8. FlattenSeq(s) = F[n]
  BY <1>1 DEF FlattenSeq
<1> HIDE DEF F
<1>9. ASSUME NEW i \in 1 .. n - 1 PROVE F[i + 1] = F[i] \o s[i + 1]
  <2>1. i + 1 \in 1 .. n /\ i + 1 # 1 /\ (i + 1) - 1 = i
    OBVIOUS
  <2> QED
    BY <1>7, <2>1
<1>10. F[1] = s[1]
  BY <1>7
<1>11. Flattens(F, s)
  BY <1>1, <1>9, <1>10 DEF Flattens
<1> QED
  BY <1>1, <1>8, <1>11

(* No two of the sequences s share an element, and none repeats one.       *)
Disjoint(s, n) ==
  /\ \A i \in 1 .. n : Once(s[i])
  /\ \A i, j \in 1 .. n : i # j => \A x : ~ (Holds(s[i], x) /\ Holds(s[j], x))

(* Flattening a sequence of sequences keeps their elements and loses none; *)
(* where none of them repeats an element, and no two share one, neither    *)
(* does the result.                                                        *)
LEMMA Flattened ==
  ASSUME NEW A, NEW n \in Nat \ {0}, NEW s \in [1 .. n -> Seq(A)]
  PROVE  /\ FlattenSeq(s) \in Seq(A)
         /\ \A x : Holds(FlattenSeq(s), x) <=> \E i \in 1 .. n : Holds(s[i], x)
         /\ Disjoint(s, n) => Once(FlattenSeq(s))
<1>1. PICK f : Flattens(f, s) /\ FlattenSeq(s) = f[n] /\ Len(s) = n
  BY FlattenIsConcat
<1>2. f[1] = s[1] /\ \A i \in 1 .. n - 1 : f[i + 1] = f[i] \o s[i + 1]
  BY <1>1 DEF Flattens
<1> DEFINE Has(i) == \A x : Holds(f[i], x) <=> \E j \in 1 .. i : Holds(s[j], x)
           Good(i) == f[i] \in Seq(A) /\ Has(i) /\ (Disjoint(s, n) => Once(f[i]))
           S == {i \in 0 .. n : i = 0 \/ Good(i)}
<1>3. 0 \in S
  OBVIOUS
<1>4. ASSUME NEW i \in 0 .. n - 1, i \in S
      PROVE  i + 1 \in S
  <2>1. CASE i = 0
    <3>1. s[1] \in Seq(A) /\ (Disjoint(s, n) => Once(s[1]))
      BY DEF Disjoint
    <3>2. Has(1)
      BY <1>2
    <3>3. Good(1)
      BY <1>2, <3>1, <3>2
    <3> QED
      BY <2>1, <3>3
  <2>2. CASE i # 0
    <3>1. Good(i) /\ i \in 1 .. n - 1 /\ i + 1 \in 1 .. n
      BY <1>4, <2>2
    <3>2. f[i + 1] = f[i] \o s[i + 1] /\ s[i + 1] \in Seq(A)
      BY <1>2, <3>1
    <3>3. /\ f[i + 1] \in Seq(A)
          /\ \A x : Holds(f[i + 1], x) <=> Holds(f[i], x) \/ Holds(s[i + 1], x)
      BY <3>1, <3>2, ConcatHolds
    <3>4. ASSUME NEW x
          PROVE  Holds(f[i + 1], x) <=> \E j \in 1 .. i + 1 : Holds(s[j], x)
      <4>1. Holds(f[i], x) <=> \E j \in 1 .. i : Holds(s[j], x)
        BY <3>1
      <4>2. 1 .. i + 1 = 1 .. i \cup {i + 1}
        BY <3>1
      <4> QED
        BY <3>3, <4>1, <4>2
    <3>5. ASSUME Disjoint(s, n)
          PROVE  Once(f[i + 1])
      <4>1. Once(f[i]) /\ Once(s[i + 1])
        BY <3>1, <3>5 DEF Disjoint
      <4>2. ASSUME NEW x, Holds(f[i], x), Holds(s[i + 1], x) PROVE FALSE
        <5>1. PICK j \in 1 .. i : Holds(s[j], x)
          BY <3>1, <4>2
        <5>2. j \in 1 .. n /\ j # i + 1
          BY <3>1
        <5> QED
          BY <3>1, <3>5, <4>2, <5>1, <5>2 DEF Disjoint
      <4> QED
        BY <3>1, <3>2, <4>1, <4>2, ConcatHolds
    <3>6. Good(i + 1)
      BY <3>3, <3>4, <3>5
    <3> HIDE DEF Good
    <3> QED
      BY <3>1, <3>6
  <2> QED
    BY <2>1, <2>2
<1> HIDE DEF S
<1>5. n \in S
  <2>1. n \in Nat
    OBVIOUS
  <2> QED
    BY <1>3, <1>4, <2>1, SetInduction
<1>6. Good(n)
  BY <1>5 DEF S
<1> QED
  BY <1>1, <1>6
-----------------------------------------------------------------------------
(* Division.                                                               *)
LEMMA DivLess ==
  ASSUME NEW a \in Nat, NEW c \in Nat \ {0}, NEW m \in Nat
  PROVE  a \div c < m <=> a < m * c
<1>1. a \div c < m => a < m * c
  BY SMTT(30)
<1>2. a < m * c => a \div c < m
  BY SMTT(30)
<1> QED
  BY <1>1, <1>2

LEMMA ModUnique ==
  ASSUME NEW a \in Int, NEW n \in Nat \ {0}, NEW q \in Int, NEW r \in 0 .. n - 1, a = n * q + r
  PROVE  a % n = r
  BY SMTT(30)

LEMMA ModFact ==
  ASSUME NEW a \in Nat, NEW n \in Nat \ {0}
  PROVE  a % n \in 0 .. n - 1 /\ \E q \in Int : a = n * q + (a % n)
<1>1. a = n * (a \div n) + (a % n)
  BY SMTT(30)
<1>2. a \div n \in Int /\ a % n \in 0 .. n - 1
  BY SMTT(30)
<1> QED
  BY <1>1, <1>2

LEMMA Quotient ==
  ASSUME NEW n \in Nat \ {0}, NEW r \in Nat, NEW j \in 0 .. n - 1
  PROVE  r * n + j \in Nat /\ (r * n + j) \div n = r /\ (r * n + j) % n = j
<1>1. r * n + j \in Nat /\ r * n + j \in Int /\ r * n = n * r
  BY SMTT(30)
<1> DEFINE a == r * n + j
<1>2. a = n * r + j
  BY <1>1
<1> HIDE DEF a
<1>3. a \in Int /\ r \in Int
  BY <1>1 DEF a
<1>4. a % n = j
  BY <1>2, <1>3, ModUnique
<1>5. a \div n = r
  BY <1>2, <1>3, SMTT(30)
<1> QED
  BY <1>1, <1>4, <1>5 DEF a

LEMMA Divided ==
  ASSUME NEW a \in Nat, NEW n \in Nat \ {0}
  PROVE  a \div n \in Nat /\ a % n \in 0 .. n - 1 /\ a = (a \div n) * n + (a % n)
  BY SMTT(30)

LEMMA TimesMono ==
  ASSUME NEW n \in Nat \ {0}, NEW r \in Nat, NEW s \in Nat
  PROVE  /\ r * n \in Nat /\ (r + 1) * n = r * n + n
         /\ r <= s <=> r * n <= s * n
         /\ r < s <=> r * n + n <= s * n
<1>1. r * n \in Nat /\ s * n \in Nat /\ (r + 1) * n = r * n + n
  BY SMTT(30)
<1>2. r <= s <=> r * n <= s * n
  BY SMTT(30)
<1>3. r < s => r * n + n <= s * n
  BY SMTT(30)
<1>4. r * n + n <= s * n => r < s
  BY <1>1, <1>2
<1> QED
  BY <1>1, <1>2, <1>3, <1>4
=============================================================================
