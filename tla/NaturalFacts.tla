---------------------------- MODULE NaturalFacts ----------------------------
(***************************************************************************)
(* Induction and recursion over the natural numbers, in the form the other *)
(* proofs use them: with sets instead of predicates, so that they can be   *)
(* cited like any other lemma.  Beside them, sorting and sequences.        *)
(***************************************************************************)
EXTENDS Integers, FiniteSets, TLAPS, WellFoundedInduction, NaturalsInduction,
        FiniteSetTheorems, SequenceTheorems, SequencesExt

\* A function on the first numbers is a sequence.
LEMMA ListOf ==
  ASSUME NEW S, NEW n \in Nat, NEW f \in [1..n -> S]
  PROVE  f \in Seq(S) /\ Len(f) = n /\ DOMAIN f = 1..n
OBVIOUS

\* Every non-empty set of natural numbers has a least element.
LEMMA LeastNat ==
  ASSUME NEW S \in SUBSET Nat, S # {}
  PROVE  \E n \in S : \A m \in S : n <= m
<1> DEFINE R == {ss \in Nat \X Nat : ss[1] < ss[2]}
<1>1. IsWellFoundedOn(R, Nat)
  BY NatLessThanWellFounded DEF OpToRel
<1> HIDE DEF R
<1>2. PICK n \in S : \A m \in S : <<m, n>> \notin R
  BY <1>1, WFMin
<1>3. \A m \in S : ~(m < n)
  BY <1>2 DEF R
<1> QED
  BY <1>3

\* Induction: a set with 0 that is closed under + 1 holds every number.
LEMMA NatInd ==
  ASSUME NEW S, 0 \in S, \A n \in Nat : n \in S => n + 1 \in S
  PROVE  Nat \subseteq S
<1> SUFFICES ASSUME NEW k \in Nat, k \notin S PROVE FALSE
  OBVIOUS
<1> DEFINE T == {n \in Nat : n \notin S}
<1>1. PICK n \in T : \A m \in T : n <= m
  BY LeastNat
<1>2. n - 1 \in Nat /\ n - 1 \in S
  BY <1>1
<1> QED
  BY <1>2
-----------------------------------------------------------------------------
(***************************************************************************)
(* A recursive function f[k \in 0..n] is the one that satisfies its own    *)
(* equation, if there is one.  There is, when each step stays in a set V.  *)
(***************************************************************************)
Steps(V, n) == [1..n -> [V -> V]]
IsRun(f, V, n, base, step) ==
  f \in [0..n -> V] /\ f[0] = base /\ \A k \in 1..n : f[k] = step[k][f[k - 1]]

LEMMA RunExists ==
  ASSUME NEW V, NEW n \in Nat, NEW base \in V, NEW step \in Steps(V, n)
  PROVE  \E f : IsRun(f, V, n, base, step)
<1> DEFINE Runs(m, f) == f[0] = base /\ \A k \in 1..m : f[k] = step[k][f[k - 1]]
           S == {m \in Nat : m <= n => \E f \in [0..m -> V] : Runs(m, f)}
<1> USE DEF Steps
<1>1. 0 \in S
  <2> DEFINE f == [k \in 0..0 |-> base]
  <2>1. f \in [0..0 -> V] /\ Runs(0, f)
    OBVIOUS
  <2> QED
    BY <2>1
<1>2. ASSUME NEW m \in Nat, m \in S PROVE m + 1 \in S
  <2> SUFFICES ASSUME m + 1 <= n
               PROVE  \E h \in [0..(m + 1) -> V] : Runs(m + 1, h)
    OBVIOUS
  <2>1. PICK f \in [0..m -> V] : Runs(m, f)
    BY <1>2
  <2> DEFINE h == [k \in 0..(m + 1) |-> IF k <= m THEN f[k]
                                        ELSE step[m + 1][f[m]]]
  <2>2. step[m + 1][f[m]] \in V
    OBVIOUS
  <2>3. h \in [0..(m + 1) -> V]
    BY <2>2
  <2>4. Runs(m + 1, h)
    BY <2>1
  <2> QED
    BY <2>3, <2>4
<1> HIDE DEF S
<1>3. Nat \subseteq S
  BY <1>1, <1>2, NatInd
<1> QED
  BY <1>3 DEF S, IsRun

\* What starts in V and never leaves it is in V at the end.
LEMMA RunStays ==
  ASSUME NEW V, NEW n \in Nat, NEW r, r[0] \in V,
         \A k \in 0..(n - 1) : r[k] \in V => r[k + 1] \in V
  PROVE  r[n] \in V
<1> DEFINE S == {k \in Nat : k <= n => r[k] \in V}
<1>1. 0 \in S
  OBVIOUS
<1>2. ASSUME NEW k \in Nat, k \in S PROVE k + 1 \in S
  BY <1>2
<1> HIDE DEF S
<1>3. Nat \subseteq S
  BY <1>1, <1>2, NatInd
<1> QED
  BY <1>3 DEF S
-----------------------------------------------------------------------------
(***************************************************************************)
(* Sorting.  R is a strict total order on a finite set: each place from 0  *)
(* on is the rank of exactly one element.                                  *)
(***************************************************************************)
BelowIn(S, R, x) == {y \in S : <<y, x>> \in R}
RankIn(S, R, x) == Cardinality(BelowIn(S, R, x))
StrictOrder(S, R) ==
  /\ \A x \in S : <<x, x>> \notin R
  /\ \A x, y \in S : x # y => <<x, y>> \in R \/ <<y, x>> \in R
  /\ \A x, y, z \in S : <<x, y>> \in R /\ <<y, z>> \in R => <<x, z>> \in R

LEMMA RankRises ==
  ASSUME NEW S, IsFiniteSet(S), NEW R, StrictOrder(S, R), NEW x \in S, NEW y \in S,
         <<x, y>> \in R
  PROVE  RankIn(S, R, x) < RankIn(S, R, y)
<1>1. BelowIn(S, R, x) \subseteq BelowIn(S, R, y)
  BY DEF BelowIn, StrictOrder
<1>2. x \in BelowIn(S, R, y) /\ x \notin BelowIn(S, R, x)
  BY DEF BelowIn, StrictOrder
<1>3. IsFiniteSet(BelowIn(S, R, x)) /\ IsFiniteSet(BelowIn(S, R, y))
  BY FS_Subset DEF BelowIn
<1>4. /\ Cardinality(BelowIn(S, R, x)) <= Cardinality(BelowIn(S, R, y))
      /\ Cardinality(BelowIn(S, R, y)) = Cardinality(BelowIn(S, R, x))
           => BelowIn(S, R, y) = BelowIn(S, R, x)
  BY <1>1, <1>3, FS_Subset
<1>5. Cardinality(BelowIn(S, R, x)) \in Nat /\ Cardinality(BelowIn(S, R, y)) \in Nat
  BY <1>3, FS_CardinalityType
<1> QED
  BY <1>2, <1>4, <1>5 DEF RankIn

LEMMA RanksFill ==
  ASSUME NEW S, IsFiniteSet(S), NEW R, StrictOrder(S, R)
  PROVE  /\ Cardinality(S) \in Nat
         /\ \A x \in S : RankIn(S, R, x) \in 0..(Cardinality(S) - 1)
         /\ \A x, y \in S : RankIn(S, R, x) = RankIn(S, R, y) => x = y
         /\ \A n \in 0..(Cardinality(S) - 1) : \E x \in S : RankIn(S, R, x) = n
<1> DEFINE c == Cardinality(S)
           rank == [x \in S |-> RankIn(S, R, x)]
<1>1. c \in Nat
  BY FS_CardinalityType
<1>2. ASSUME NEW x \in S PROVE RankIn(S, R, x) \in 0..(c - 1)
  <2>1. BelowIn(S, R, x) \in SUBSET S /\ BelowIn(S, R, x) # S
    BY DEF BelowIn, StrictOrder
  <2>2. /\ IsFiniteSet(BelowIn(S, R, x)) /\ Cardinality(BelowIn(S, R, x)) <= c
        /\ c # Cardinality(BelowIn(S, R, x))
    BY <2>1, FS_Subset
  <2>3. Cardinality(BelowIn(S, R, x)) \in Nat
    BY <2>2, FS_CardinalityType
  <2> QED
    BY <1>1, <2>2, <2>3 DEF RankIn
<1>3. ASSUME NEW x \in S, NEW y \in S, RankIn(S, R, x) = RankIn(S, R, y) PROVE x = y
  <2> SUFFICES ASSUME x # y PROVE FALSE
    OBVIOUS
  <2>1. <<x, y>> \in R \/ <<y, x>> \in R
    BY DEF StrictOrder
  <2>2. RankIn(S, R, x) < RankIn(S, R, y) \/ RankIn(S, R, y) < RankIn(S, R, x)
    BY <2>1, RankRises
  <2>3. RankIn(S, R, x) \in Int /\ RankIn(S, R, y) \in Int
    BY <1>1, <1>2
  <2> QED
    BY <1>3, <2>2, <2>3
<1>4. rank \in Injection(S, 0..(c - 1))
  BY <1>2, <1>3 DEF Injection, IsInjective
<1>5. IsFiniteSet(0..(c - 1)) /\ Cardinality(0..(c - 1)) = c
  BY <1>1, FS_Interval
<1>6. rank \in Surjection(S, 0..(c - 1))
  BY <1>4, <1>5, FS_Injection
<1> QED
  BY <1>1, <1>2, <1>3, <1>6 DEF Surjection
-----------------------------------------------------------------------------
(***************************************************************************)
(* Sequences.                                                              *)
(***************************************************************************)
LEMMA JoinType ==
  ASSUME NEW S, NEW a \in Seq(S), NEW b \in Seq(S)
  PROVE  a \o b \in Seq(S) /\ Len(a \o b) = Len(a) + Len(b)
<1>1. /\ a \o b \in Seq(S) /\ Len(a \o b) = Len(a) + Len(b)
      /\ \A i \in 1..(Len(a) + Len(b)) : (a \o b)[i] =
           IF i <= Len(a) THEN a[i] ELSE b[i - Len(a)]
  BY ConcatProperties
<1> QED
  BY <1>1


LEMMA AppendIs ==
  ASSUME NEW S, NEW s \in Seq(S), NEW e \in S
  PROVE  /\ Append(s, e) \in Seq(S) /\ Append(s, e) # <<>>
         /\ Len(s) \in Nat /\ DOMAIN s = 1..Len(s) /\ Len(Append(s, e)) = Len(s) + 1
         /\ DOMAIN Append(s, e) = 1..(Len(s) + 1)
         /\ \A i \in DOMAIN s : Append(s, e)[i] = s[i] /\ s[i] \in S
         /\ Append(s, e)[Len(s) + 1] = e
         /\ s \o <<e>> = Append(s, e)
<1>1. /\ Append(s, e) \in Seq(S) /\ Len(s) \in Nat /\ DOMAIN s = 1..Len(s)
      /\ Len(Append(s, e)) = Len(s) + 1 /\ Append(s, e)[Len(s) + 1] = e
      /\ \A i \in 1..Len(s) : Append(s, e)[i] = s[i] /\ s[i] \in S
  BY AppendProperties, ElementOfSeq
<1>2. DOMAIN Append(s, e) = 1..(Len(s) + 1)
  BY <1>1
<1>3. Append(s, e) # <<>>
  BY <1>1, EmptySeq
<1>4. s \o <<e>> = Append(s, e)
  BY AppendIsConcat
<1> QED
  BY <1>1, <1>2, <1>3, <1>4

\* FlattenSeq adds one sequence after the other.
Adding(r, s, S) ==
  /\ r \in [0..Len(s) -> Seq(S)] /\ r[0] = <<>>
  /\ \A k \in 1..Len(s) : r[k] = r[k - 1] \o s[k]

LEMMA FlattenIs ==
  ASSUME NEW S, NEW s \in Seq(Seq(S))
  PROVE  \E r : Adding(r, s, S) /\ FlattenSeq(s) = r[Len(s)]
<1> DEFINE n == Len(s)
           V == Seq(S)
           step == [k \in 1..n |-> [v \in V |-> v \o s[k]]]
           eq(g) == g = [i \in 1..n |-> IF i = 1 THEN s[i] ELSE g[i - 1] \o s[i]]
           f == CHOOSE g : eq(g)
<1>1. n \in Nat /\ \A k \in 1..n : s[k] \in V
  BY ElementOfSeq
<1>2. step \in Steps(V, n)
  <2>1. \A k \in 1..n : \A v \in V : v \o s[k] \in V
    BY <1>1, ConcatProperties
  <2> QED
    BY <2>1 DEF Steps
<1>3. <<>> \in V
  BY EmptySeq
<1>4. PICK r : IsRun(r, V, n, <<>>, step)
  BY <1>1, <1>2, <1>3, RunExists
<1>5. /\ r \in [0..n -> V] /\ r[0] = <<>>
      /\ \A k \in 1..n : r[k] = r[k - 1] \o s[k] /\ r[k - 1] \in V
  <2>1. r \in [0..n -> V] /\ r[0] = <<>> /\ \A k \in 1..n : r[k] = step[k][r[k - 1]]
    BY <1>4 DEF IsRun
  <2>2. \A k \in 1..n : k - 1 \in 0..n
    BY <1>1
  <2>3. \A k \in 1..n : r[k - 1] \in V
    BY <2>1, <2>2
  <2> HIDE DEF V
  <2> QED
    BY <2>1, <2>3
<1>6. CASE n = 0
  <2>1. s = <<>>
    BY <1>6, EmptySeq
  <2>2. FlattenSeq(s) = <<>>
    BY <1>6, <2>1 DEF FlattenSeq
  <2> QED
    BY <1>5, <1>6, <2>2 DEF Adding
<1>7. CASE n # 0
  <2> DEFINE h == [k \in 1..n |-> r[k]]
  <2>1. n \in Nat \ {0} /\ \A k \in 1..n : k # 1 => k - 1 \in 1..n
    BY <1>1, <1>7
  <2>2. \A k \in 1..n : r[k] = IF k = 1 THEN s[k] ELSE r[k - 1] \o s[k]
    <3>1. \A v \in V : <<>> \o v = v
      BY ConcatEmptySeq
    <3>2. r[1] = s[1]
      <4>1. 1 \in 1..n /\ 1 - 1 = 0
        BY <2>1
      <4>2. r[1] = <<>> \o s[1] /\ s[1] \in V
        BY <1>1, <1>5, <4>1
      <4> QED
        BY <3>1, <4>2
    <3> HIDE DEF V
    <3> QED
      BY <1>5, <3>2
  <2>3. eq(h)
    BY <2>1, <2>2
  <2> HIDE DEF h
  <2>4. eq(f)
    BY <2>3
  <2>5. FlattenSeq(s) = f[n]
    BY <1>7 DEF FlattenSeq
  <2> HIDE DEF f
  <2> DEFINE K == {k \in Nat : k + 1 <= n => f[k + 1] = r[k + 1]}
  <2>6. 0 \in K
    BY <2>1, <2>2, <2>4
  <2>7. ASSUME NEW k \in Nat, k \in K PROVE k + 1 \in K
    <3> SUFFICES ASSUME (k + 1) + 1 <= n PROVE f[(k + 1) + 1] = r[(k + 1) + 1]
      OBVIOUS
    <3>1. /\ (k + 1) + 1 \in 1..n /\ (k + 1) + 1 # 1 /\ ((k + 1) + 1) - 1 = k + 1
          /\ f[k + 1] = r[k + 1]
      BY <2>1, <2>7
    <3>2. f[(k + 1) + 1] = f[k + 1] \o s[(k + 1) + 1]
      BY <2>4, <3>1
    <3>3. r[(k + 1) + 1] = r[k + 1] \o s[(k + 1) + 1]
      BY <2>2, <3>1
    <3> QED
      BY <3>1, <3>2, <3>3
  <2> HIDE DEF K
  <2>8. Nat \subseteq K
    BY <2>6, <2>7, NatInd
  <2>9. n - 1 \in Nat /\ (n - 1) + 1 = n /\ n <= n
    BY <2>1
  <2>10. f[n] = r[n]
    BY <2>8, <2>9 DEF K
  <2> QED
    BY <1>5, <2>5, <2>10 DEF Adding
<1> QED
  BY <1>6, <1>7

LEMMA FlattenType ==
  ASSUME NEW S, NEW s \in Seq(Seq(S))
  PROVE  FlattenSeq(s) \in Seq(S)
<1>1. PICK r : Adding(r, s, S) /\ FlattenSeq(s) = r[Len(s)]
  BY FlattenIs
<1> QED
  BY <1>1 DEF Adding

LEMMA FlattenEmpty == FlattenSeq(<<>>) = <<>>
BY EmptySeq DEF FlattenSeq

LEMMA FlattenAppend ==
  ASSUME NEW S, NEW s \in Seq(Seq(S)), NEW e \in Seq(S)
  PROVE  FlattenSeq(Append(s, e)) = FlattenSeq(s) \o e
<1> DEFINE n == Len(s)
           t == Append(s, e)
<1>1. n \in Nat /\ t \in Seq(Seq(S)) /\ Len(t) = n + 1 /\ t[n + 1] = e
      /\ \A k \in 1..n : t[k] = s[k]
  BY AppendIs
<1> HIDE DEF t
<1>2. PICK r : Adding(r, s, S) /\ FlattenSeq(s) = r[n]
  BY FlattenIs
<1>3. PICK q : Adding(q, t, S) /\ FlattenSeq(t) = q[n + 1]
  BY <1>1, FlattenIs
<1> DEFINE K == {k \in Nat : k <= n => q[k] = r[k]}
<1>4. 0 \in K
  BY <1>2, <1>3 DEF Adding
<1>5. ASSUME NEW k \in Nat, k \in K PROVE k + 1 \in K
  <2> SUFFICES ASSUME k + 1 <= n PROVE q[k + 1] = r[k + 1]
    OBVIOUS
  <2>1. /\ k + 1 \in 1..n /\ k + 1 \in 1..(n + 1) /\ (k + 1) - 1 = k /\ q[k] = r[k]
    BY <1>1, <1>5
  <2>2. q[k + 1] = q[k] \o t[k + 1] /\ r[k + 1] = r[k] \o s[k + 1]
    BY <1>1, <1>2, <1>3, <2>1 DEF Adding
  <2> QED
    BY <1>1, <2>1, <2>2
<1> HIDE DEF K
<1>6. Nat \subseteq K
  BY <1>4, <1>5, NatInd
<1>7. q[n] = r[n]
  BY <1>1, <1>6 DEF K
<1>8. n + 1 \in 1..(n + 1) /\ (n + 1) - 1 = n
  BY <1>1
<1>9. q[n + 1] = q[n] \o e
  BY <1>1, <1>3, <1>8 DEF Adding
<1> QED
  BY <1>2, <1>3, <1>7, <1>9 DEF t
=============================================================================
