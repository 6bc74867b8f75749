------------------------------ MODULE Numbers_proofs ------------------------------
(***************************************************************************)
(* What the other proofs need of sets of numbers: intervals, least and     *)
(* greatest elements.  By counting, for induction is not to be had here.   *)
(***************************************************************************)
EXTENDS Integers, Sequences, FiniteSets, FiniteSetsExt, FiniteSetTheorems, SequenceTheorems, TLAPS

\* A set of numbers that holds all that are below one of its own is an interval.
LEMMA PrefixIsInterval ==
  ASSUME NEW M \in Nat, NEW S \in SUBSET (1 .. M), \A n \in S : \A j \in 1 .. n : j \in S
  PROVE  Cardinality(S) \in Nat /\ Cardinality(S) <= M /\ S = 1 .. Cardinality(S)
<1>. DEFINE k == Cardinality(S)
<1>1. IsFiniteSet(S) /\ k \in Nat /\ k <= M
  <2>1. IsFiniteSet(1 .. M) /\ Cardinality(1 .. M) = M
    BY FS_Interval
  <2>. QED BY ZenonT(50), <2>1, FS_Subset, FS_CardinalityType
<1>2. ASSUME NEW n \in S PROVE n <= k
  <2>1. 1 .. n \in SUBSET S
    OBVIOUS
  <2>2. Cardinality(1 .. n) = n
    BY FS_Interval
  <2>. QED BY <2>1, <2>2, <1>1, FS_Subset
<1>3. S \in SUBSET (1 .. k)
  BY <1>2, <1>1
<1>4. IsFiniteSet(1 .. k) /\ Cardinality(1 .. k) = k
  BY <1>1, FS_Interval
<1>. QED BY <1>1, <1>3, <1>4, FS_Subset

\* A nonempty set of numbers up to a bound has a least one.
LEMMA LeastNumber ==
  ASSUME NEW M \in Nat, NEW S \in SUBSET (1 .. M), S # {}
  PROVE  \E s \in S : \A t \in S : s <= t
<1>. DEFINE N == {n \in 1 .. M : \A s \in S : n <= s}
            k == Cardinality(N)
<1>1. k \in Nat /\ k <= M /\ N = 1 .. k
  <2>1. N \in SUBSET (1 .. M) /\ \A n \in N : \A j \in 1 .. n : j \in N
    OBVIOUS
  <2>. HIDE DEF N
  <2>. QED BY <2>1, PrefixIsInterval
<1>. HIDE DEF k
<1>3. \A s \in S : s \in Int /\ 1 <= s /\ s <= M
  OBVIOUS
<1>4. k \in N
  <2>1. 1 \in N
    <3>1. PICK s \in S : TRUE
      OBVIOUS
    <3>2. 1 \in 1 .. M
      BY <3>1, <1>3
    <3>. QED BY <3>2, <1>3
  <2>. QED BY <2>1, <1>1
<1>5. k \in S
  <2>1. k + 1 \notin N
    <3>. HIDE DEF N
    <3>. QED BY <1>1
  <2>2. PICK s \in S : s <= k
    <3>1. CASE k = M
      BY <3>1, <1>3
    <3>2. CASE k # M
      <4>1. k + 1 \in 1 .. M
        BY <3>2, <1>1
      <4>. QED BY <4>1, <2>1, <1>1, <1>3
    <3>. QED BY <3>1, <3>2
  <2>3. k <= s
    BY <1>4
  <2>. QED BY <2>2, <2>3, <1>1
<1>. QED BY <1>4, <1>5

\* A nonempty set of numbers below a bound has a greatest one, and Max is it.
LEMMA MaxIsGreatest ==
  ASSUME NEW M \in Nat, NEW S \in SUBSET (0 .. M), S # {}
  PROVE  Max(S) \in S /\ \A s \in S : s <= Max(S)
<1>. DEFINE R == {M + 1 - s : s \in S}
<1>1. R \in SUBSET (1 .. M + 1) /\ R # {}
  <2>1. \A s \in S : M + 1 - s \in 1 .. M + 1
    OBVIOUS
  <2>2. PICK s \in S : TRUE
    OBVIOUS
  <2>3. M + 1 - s \in R
    OBVIOUS
  <2>. QED BY <2>1, <2>3
<1>2. PICK r \in R : \A t \in R : r <= t
  <2>1. M + 1 \in Nat
    OBVIOUS
  <2>. HIDE DEF R
  <2>. QED BY <2>1, <1>1, LeastNumber
<1>3. PICK g \in S : r = M + 1 - g
  BY <1>2
<1>4. \A s \in S : s <= g
  <2>. SUFFICES ASSUME NEW s \in S PROVE s <= g
    OBVIOUS
  <2>1. M + 1 - s \in R
    OBVIOUS
  <2>2. r <= M + 1 - s
    BY <2>1, <1>2
  <2>. QED BY <2>2, <1>3
<1>5. \E x \in S : \A y \in S : x >= y
  BY <1>4
<1>. QED BY <1>5 DEF Max

===================================================================================
