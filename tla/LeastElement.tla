---------------------------- MODULE LeastElement ----------------------------
(***************************************************************************)
(* A set of natural numbers that is not empty has a least element: what    *)
(* the lowest free descriptor and the end of the headers rest on, and with *)
(* it induction along the loops of the timer heap.                         *)
(***************************************************************************)
EXTENDS Integers, WellFoundedInduction, TLAPS

LEMMA LeastNatural ==
    ASSUME NEW S \in SUBSET Nat, S # {}
    PROVE  \E n \in S : \A m \in S : n <= m
<1> DEFINE R == {ss \in Nat \X Nat : ss[1] < ss[2]}
<1>1. IsWellFoundedOn(R, Nat)
  BY NatLessThanWellFounded DEF OpToRel
<1>2. PICK n \in S : \A m \in S : <<m, n>> \notin R
  <2> HIDE DEF R
  <2> QED
    BY <1>1, WFMin
<1>3. \A m, k \in Nat : m < k => <<m, k>> \in R
  OBVIOUS
<1> HIDE DEF R
<1>4. \A m \in S : n <= m
  <2> TAKE m \in S
  <2>1. m \in Nat /\ n \in Nat
    OBVIOUS
  <2>2. ~(m < n)
    BY <1>2, <1>3, <2>1
  <2> QED
    BY <2>1, <2>2
<1> QED
  BY <1>4

(* Induction over an interval, with a set in the place of the predicate. *)
LEMMA IntervalInduction ==
    ASSUME NEW n \in Nat, NEW S,
           0 \in S,
           \A k \in 1..n : k - 1 \in S => k \in S
    PROVE  0..n \subseteq S
<1> DEFINE Bad == {k \in 0..n : k \notin S}
<1> SUFFICES ASSUME Bad # {} PROVE FALSE
  OBVIOUS
<1>1. PICK m \in Bad : \A j \in Bad : m <= j
  <2>1. Bad \in SUBSET Nat
    OBVIOUS
  <2> HIDE DEF Bad
  <2> QED
    BY <2>1, LeastNatural
<1>2. m \in 0..n /\ m \notin S
  BY <1>1
<1>3. m # 0
  BY <1>2
<1>4. m \in 1..n /\ m - 1 \in 0..n /\ ~(m <= m - 1)
  BY <1>2, <1>3
<1>5. m - 1 \notin Bad
  <2> HIDE DEF Bad
  <2> QED
    BY <1>1, <1>4
<1>6. m - 1 \in S
  BY <1>4, <1>5
<1> QED
  BY <1>2, <1>4, <1>6

(* The same from the top down. *)
LEMMA DownwardInduction ==
    ASSUME NEW n \in Nat, NEW S,
           n \in S,
           \A k \in 0..(n - 1) : k + 1 \in S => k \in S
    PROVE  0..n \subseteq S
<1> DEFINE T == {k \in 0..n : n - k \in S}
<1>1. 0 \in T
  OBVIOUS
<1>2. ASSUME NEW k \in 1..n, k - 1 \in T PROVE k \in T
  <2>1. n - k \in 0..(n - 1) /\ n - (k - 1) = (n - k) + 1
    OBVIOUS
  <2>2. (n - k) + 1 \in S
    BY <1>2, <2>1
  <2>3. n - k \in S
    BY <2>1, <2>2
  <2> QED
    BY <2>3
<1>3. 0..n \subseteq T
  <2> HIDE DEF T
  <2> QED
    BY <1>1, <1>2, IntervalInduction
<1> SUFFICES ASSUME NEW k \in 0..n PROVE k \in S
  OBVIOUS
<1>4. n - k \in T
  <2> HIDE DEF T
  <2>1. n - k \in 0..n
    OBVIOUS
  <2> QED
    BY <1>3, <2>1
<1>5. n - (n - k) = k
  OBVIOUS
<1> QED
  BY <1>4, <1>5
=============================================================================
