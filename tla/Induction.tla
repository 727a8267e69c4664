------------------------------ MODULE Induction ------------------------------
(* Induction and extrema, stated for sets of numbers.                        *)
EXTENDS Integers, Sequences, SequencesExt, NaturalsInduction, WellFoundedInduction,
        TLAPS

Less == {ss \in Nat \X Nat : ss[1] < ss[2]}

\* A nonempty set of naturals has a least element, which is its Min ...
LEMMA LeastNat ==
  ASSUME NEW T \in SUBSET Nat, T # {}
  PROVE  \E n \in T : \A m \in T : n <= m
  <1>1. IsWellFoundedOn(Less, Nat)
    BY NatLessThanWellFounded DEF OpToRel, Less
  <1>2. \E n \in T : \A m \in T : ~(<<m, n>> \in Less)
    BY <1>1, WFMin
  <1>3. PICK n \in T : \A m \in T : ~(<<m, n>> \in Less)
    BY <1>2
  <1>4. ASSUME NEW m \in T
        PROVE  n <= m
    <2>1. m \in Nat /\ n \in Nat /\ ~(<<m, n>> \in Less)
      BY <1>3
    <2>2. ~(m < n)
      BY <2>1 DEF Less
    <2>3. QED
      BY <2>1, <2>2
  <1>5. QED
    BY <1>4

LEMMA LeastIsMin ==
  ASSUME NEW T \in SUBSET Nat, T # {}
  PROVE  Min(T) \in T /\ \A m \in T : Min(T) <= m
  BY LeastNat DEF Min

\* A set that has 0 and the successor of each of its elements has them all.
LEMMA SetInduction ==
  ASSUME NEW T \in SUBSET Nat, 0 \in T, \A n \in T : n + 1 \in T
  PROVE  T = Nat
  <1> DEFINE C == Nat \ T
  <1>1. SUFFICES ASSUME C # {} PROVE FALSE
    OBVIOUS
  <1>2. PICK n \in C : \A m \in C : n <= m
    BY <1>1, LeastNat
  <1>3. n # 0 /\ n - 1 \in Nat
    BY <1>2
  <1>4. n - 1 \notin C
    BY <1>2, <1>3
  <1>5. QED
    BY <1>3, <1>4

\* ... and if it is bounded a greatest one, its Max.
LEMMA GreatestNat ==
  ASSUME NEW n \in Nat, NEW S \in SUBSET (1..n), S # {}
  PROVE  Max(S) \in S /\ \A y \in S : Max(S) >= y
  <1> DEFINE T == {n - x : x \in S}
  <1>1. T \in SUBSET Nat /\ T # {}
    <2>1. \A x \in S : n - x \in Nat
      OBVIOUS
    <2>2. PICK x : x \in S
      OBVIOUS
    <2>3. QED
      BY <2>1, <2>2
  <1>2. PICK t \in T : \A m \in T : t <= m
    BY <1>1, LeastNat
  <1>3. PICK x \in S : t = n - x
    BY <1>2
  <1>4. \A y \in S : x >= y
    <2> SUFFICES ASSUME NEW y \in S
                 PROVE  x >= y
      OBVIOUS
    <2>1. n - x <= n - y
      BY <1>2, <1>3
    <2>2. QED
      BY <2>1
  <1>5. QED
    BY <1>4 DEF Max
=============================================================================
