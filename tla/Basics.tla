------------------------------- MODULE Basics -------------------------------
(***************************************************************************)
(* Facts that the proofs about several components need: least elements,    *)
(* sequences put in a row, and measures that cannot go down forever.       *)
(***************************************************************************)
EXTENDS Integers, Sequences, SequencesExt, TLAPS, SequenceTheorems, FiniteSetTheorems,
        WellFoundedInduction

(* Every set of natural numbers has a least element.                       *)
LEMMA NatMinimum ==
  ASSUME NEW T \in SUBSET Nat, T # {}
  PROVE  \E n \in T : \A m \in T : n <= m
<1> DEFINE R == OpToRel(<, Nat)
<1>1. IsWellFoundedOn(R, Nat)
  BY NatLessThanWellFounded
<1>2. ASSUME NEW m \in Nat, NEW n \in Nat, <<m, n>> \notin R PROVE ~ (m < n)
  BY <1>2 DEF OpToRel
<1> HIDE DEF R
<1>3. PICK n \in T : \A m \in T : <<m, n>> \notin R
  BY <1>1, WFMin
<1>4. ASSUME NEW m \in T PROVE n <= m
  <2>1. m \in Nat /\ n \in Nat
    OBVIOUS
  <2>2. ~ (m < n)
    BY <1>2, <1>3, <2>1
  <2> QED BY <2>1, <2>2
<1> QED BY <1>4

----------------------------------------------------------------------------
(* Sequences in a row *)

(* g[i] is the first i of the sequences s, one after the other.            *)
Joins(s, n, g) == g[1] = s[1] /\ \A i \in 2..n : g[i] = g[i-1] \o s[i]

LEMMA JoinsExists ==
  ASSUME NEW S, NEW n \in Nat \ {0}, NEW s \in [1..n -> Seq(S)]
  PROVE  \E g \in [1..n -> Seq(S)] : Joins(s, n, g)
<1> DEFINE Bad == {k \in 1..n : \A g \in [1..k -> Seq(S)] : ~Joins(s, k, g)}
<1>1. SUFFICES ASSUME Bad # {} PROVE FALSE
  <2>1. n \in 1..n
    OBVIOUS
  <2> QED BY <2>1
<1>2. PICK k \in Bad : \A m \in Bad : k <= m
  <2>1. Bad \in SUBSET Nat
    OBVIOUS
  <2> HIDE DEF Bad
  <2> QED BY <1>1, <2>1, NatMinimum
<1>3. k # 1
  <2> DEFINE g == [i \in 1..1 |-> s[1]]
  <2>1. s[1] \in Seq(S)
    OBVIOUS
  <2>2. g \in [1..1 -> Seq(S)] /\ Joins(s, 1, g)
    BY <2>1 DEF Joins
  <2> QED BY <2>2
<1>4. k \in 2..n /\ k - 1 \in 1..n /\ ~ (k <= k - 1)
  BY <1>3
<1>5. PICK h \in [1..(k - 1) -> Seq(S)] : Joins(s, k - 1, h)
  BY <1>2, <1>4
<1> DEFINE g == [i \in 1..k |-> IF i = k THEN h[k-1] \o s[k] ELSE h[i]]
<1>6. g \in [1..k -> Seq(S)]
  <2>1. h[k-1] \in Seq(S) /\ s[k] \in Seq(S)
    BY <1>4, <1>5
  <2>2. h[k-1] \o s[k] \in Seq(S)
    BY <2>1, ConcatProperties
  <2>3. ASSUME NEW i \in 1..k, i # k PROVE h[i] \in Seq(S)
    BY <1>4, <1>5, <2>3
  <2> QED BY <2>2, <2>3
<1>7. Joins(s, k, g)
  <2>1. g[1] = s[1]
    BY <1>4, <1>5 DEF Joins
  <2>2. ASSUME NEW i \in 2..k PROVE g[i] = g[i-1] \o s[i]
    <3>1. i - 1 \in 1..k /\ i - 1 # k /\ i \in 1..k
      BY <1>4, <2>2
    <3>2. g[i-1] = h[i-1]
      BY <3>1
    <3>3. CASE i = k
      BY <3>1, <3>2, <3>3
    <3>4. CASE i # k
      <4>1. i \in 2..(k - 1)
        BY <1>4, <3>4
      <4> QED BY <1>5, <3>1, <3>2, <3>4, <4>1 DEF Joins
    <3> QED BY <3>3, <3>4
  <2> QED BY <2>1, <2>2 DEF Joins
<1> QED BY <1>6, <1>7

LEMMA JoinsUnique ==
  ASSUME NEW n \in Nat \ {0}, NEW s, NEW g, Joins(s, n, g), NEW h, Joins(s, n, h)
  PROVE  \A i \in 1..n : g[i] = h[i]
<1> DEFINE Bad == {i \in 1..n : g[i] # h[i]}
<1>1. SUFFICES ASSUME Bad # {} PROVE FALSE
  OBVIOUS
<1>2. PICK i \in Bad : \A m \in Bad : i <= m
  <2>1. Bad \in SUBSET Nat
    OBVIOUS
  <2> HIDE DEF Bad
  <2> QED BY <1>1, <2>1, NatMinimum
<1>3. i # 1
  BY DEF Joins
<1>4. i \in 2..n /\ i - 1 \in 1..n /\ ~ (i <= i - 1)
  BY <1>3
<1>5. g[i-1] = h[i-1]
  BY <1>2, <1>4
<1> QED BY <1>4, <1>5 DEF Joins

(* FlattenSeq is the last of them.                                         *)
LEMMA FlattenJoins ==
  ASSUME NEW S, NEW n \in Nat \ {0}, NEW s \in [1..n -> Seq(S)],
         NEW g \in [1..n -> Seq(S)], Joins(s, n, g)
  PROVE  FlattenSeq(s) = g[n]
<1> DEFINE F(f) == [i \in 1..n |-> IF i = 1 THEN s[i] ELSE f[i-1] \o s[i]]
           R == CHOOSE f : f = F(f)
<1>1. Len(s) = n
  <2>1. s \in Seq(Seq(S)) /\ DOMAIN s = 1..n
    BY SeqDef
  <2> QED BY <2>1, LenProperties
<1>2. FlattenSeq(s) = R[n]
  BY <1>1 DEF FlattenSeq
<1>3. g = F(g)
  <2>1. ASSUME NEW i \in 1..n PROVE g[i] = F(g)[i]
    <3>1. CASE i = 1
      BY <3>1 DEF Joins
    <3>2. CASE i # 1
      <4>1. i \in 2..n
        BY <3>2
      <4> QED BY <3>2, <4>1 DEF Joins
    <3> QED BY <3>1, <3>2
  <2> QED BY <2>1
<1>4. R = F(R)
  <2> HIDE DEF F
  <2> QED BY <1>3
<1>5. Joins(s, n, R)
  <2> HIDE DEF R
  <2>1. R[1] = s[1]
    BY <1>4
  <2>2. ASSUME NEW i \in 2..n PROVE R[i] = R[i-1] \o s[i]
    <3>1. i \in 1..n /\ i # 1
      BY <2>2
    <3> QED BY <1>4, <3>1
  <2> QED BY <2>1, <2>2 DEF Joins
<1>6. n \in 1..n
  OBVIOUS
<1> QED
  <2> HIDE DEF R
  <2> QED BY <1>2, <1>5, <1>6, JoinsUnique

----------------------------------------------------------------------------
(* Measures *)

(* Vectors of n numbers, the first of them the most important: the pairs   *)
(* of a vector and a greater one.                                          *)
Countdown(n) == LexProductOrdering(OpToRel(<, Nat), Nat, n)

LEMMA CountsDown ==
  ASSUME NEW n \in Nat, NEW r \in [1..n -> Nat], NEW q \in [1..n -> Nat],
         NEW j \in 1..n, r[j] < q[j], \A i \in 1..j - 1 : r[i] = q[i]
  PROVE  <<r, q>> \in Countdown(n)
<1>1. <<r[j], q[j]>> \in OpToRel(<, Nat)
  BY DEF OpToRel
<1> DEFINE R == OpToRel(<, Nat)
<1> HIDE DEF R
<1>2. <<r, q>> \in [1..n -> Nat] \X [1..n -> Nat]
  OBVIOUS
<1>3. <<r, q>>[1] = r /\ <<r, q>>[2] = q
  OBVIOUS
<1>4. <<r, q>> \in LexProductOrdering(R, Nat, n)
  BY <1>1, <1>2, <1>3 DEF LexProductOrdering, R
<1> QED BY <1>4 DEF Countdown, R

(* A smaller finite set has fewer members.                                 *)
LEMMA FewerMembers ==
  ASSUME NEW S, IsFiniteSet(S), NEW x \in S
  PROVE  Cardinality(S \ {x}) < Cardinality(S)
<1>1. Cardinality(S \ {x}) = Cardinality(S) - 1 /\ Cardinality(S) \in Nat
  BY FS_RemoveElement, FS_CardinalityType
<1> QED BY <1>1

LEMMA CountsDownTwo ==
  ASSUME NEW r1 \in Nat, NEW r2 \in Nat, NEW q1 \in Nat, NEW q2 \in Nat,
         r1 < q1 \/ (r1 = q1 /\ r2 < q2)
  PROVE  <<<<r1, r2>>, <<q1, q2>>>> \in Countdown(2)
<1> DEFINE r == <<r1, r2>>
           q == <<q1, q2>>
<1>1. r \in [1..2 -> Nat] /\ q \in [1..2 -> Nat]
  OBVIOUS
<1>2. r[1] = r1 /\ r[2] = r2 /\ q[1] = q1 /\ q[2] = q2
  OBVIOUS
<1> HIDE DEF r, q
<1>3. PICK j \in 1..2 : r[j] < q[j] /\ \A i \in 1..j - 1 : r[i] = q[i]
  BY <1>2
<1>4. <<r, q>> \in Countdown(2)
  BY <1>1, <1>3, CountsDown
<1> QED BY <1>4 DEF r, q

LEMMA CountsDownFour ==
  ASSUME NEW r1 \in Nat, NEW r2 \in Nat, NEW r3 \in Nat, NEW r4 \in Nat,
         NEW q1 \in Nat, NEW q2 \in Nat, NEW q3 \in Nat, NEW q4 \in Nat,
         \/ r1 < q1
         \/ r1 = q1 /\ r2 < q2
         \/ r1 = q1 /\ r2 = q2 /\ r3 < q3
         \/ r1 = q1 /\ r2 = q2 /\ r3 = q3 /\ r4 < q4
  PROVE  <<<<r1, r2, r3, r4>>, <<q1, q2, q3, q4>>>> \in Countdown(4)
<1> DEFINE r == <<r1, r2, r3, r4>>
           q == <<q1, q2, q3, q4>>
<1>1. r \in [1..4 -> Nat] /\ q \in [1..4 -> Nat]
  OBVIOUS
<1>2. /\ r[1] = r1 /\ r[2] = r2 /\ r[3] = r3 /\ r[4] = r4
      /\ q[1] = q1 /\ q[2] = q2 /\ q[3] = q3 /\ q[4] = q4
  OBVIOUS
<1> HIDE DEF r, q
<1>3. PICK j \in 1..4 : r[j] < q[j] /\ \A i \in 1..j - 1 : r[i] = q[i]
  <2>1. CASE r1 < q1
    BY <1>2, <2>1
  <2>2. CASE r1 = q1 /\ r2 < q2
    BY <1>2, <2>2
  <2>3. CASE r1 = q1 /\ r2 = q2 /\ r3 < q3
    BY <1>2, <2>3
  <2>4. CASE r1 = q1 /\ r2 = q2 /\ r3 = q3 /\ r4 < q4
    BY <1>2, <2>4
  <2> QED BY <2>1, <2>2, <2>3, <2>4
<1>4. <<r, q>> \in Countdown(4)
  BY <1>1, <1>3, CountsDown
<1> QED BY <1>4 DEF r, q

(* There is no infinite sequence of vectors each of which is less than the *)
(* one before it: what makes a vector less with every step takes finitely  *)
(* many steps.                                                             *)
THEOREM CountdownEnds ==
  ASSUME NEW n \in Nat
  PROVE  ~ \E f \in [Nat -> [1..n -> Nat]] : \A k \in Nat : <<f[k+1], f[k]>> \in Countdown(n)
<1>1. IsWellFoundedOn(OpToRel(<, Nat), Nat)
  BY NatLessThanWellFounded
<1> DEFINE R == OpToRel(<, Nat)
<1> HIDE DEF R
<1>2. IsWellFoundedOn(LexProductOrdering(R, Nat, n), [1..n -> Nat])
  BY <1>1, WFLexProductOrdering DEF R
<1> QED BY <1>2 DEF IsWellFoundedOn, Countdown, R
=============================================================================
