--------------------------- MODULE TimerHeapProofs ---------------------------
(***************************************************************************)
(* Proofs about TimerHeap, for any timers, delays and capacities.          *)
(***************************************************************************)
EXTENDS TimerHeap, LeastElement, FiniteSetTheorems, FunctionTheorems, TLAPS

(* Parents and children.                                                   *)

EntriesOf(a, n) == {a[i] : i \in 0..(n - 1)}

\* There is order from place h downwards.
OrderFrom(a, n, h, at) ==
    \A i \in 1..(n - 1) : Parent(i) >= h => at[a[Parent(i)]] <= at[a[i]]

LEMMA ParentOf ==
    ASSUME NEW h \in Nat, h > 0
    PROVE  /\ Parent(h) \in Nat /\ Parent(h) < h
           /\ h = 2 * Parent(h) + 1 \/ h = 2 * Parent(h) + 2
BY DEF Parent

LEMMA ChildIs ==
    ASSUME NEW h \in Nat, NEW n \in Nat, NEW a, NEW at
    PROVE  /\ Child(a, n, h, at) \in Nat /\ Child(a, n, h, at) > h
           /\ Parent(Child(a, n, h, at)) = h
           /\ 2 * h + 1 <= n - 1 => Child(a, n, h, at) <= n - 1
<1>1. Parent(2 * h + 1) = h /\ Parent((2 * h + 1) + 1) = h
  BY DEF Parent
<1>2. /\ Child(a, n, h, at) \in {2 * h + 1, (2 * h + 1) + 1}
      /\ 2 * h + 1 <= n - 1 => Child(a, n, h, at) <= n - 1
  BY DEF Child
<1> QED
  BY <1>1, <1>2

-----------------------------------------------------------------------------
(* The way of a hole.                                                      *)

LEMMA HolesIs ==
    ASSUME NEW n \in Nat, NEW next \in [0..n -> 0..n], NEW h \in 0..n
    PROVE  /\ Holes(next, h) \in [0..n -> 0..n]
           /\ \A k \in 0..n : Holes(next, h)[k] = IF k = 0 THEN h ELSE next[Holes(next, h)[k - 1]]
<1> DEFINE Def(f, m) == [k \in 0..m |-> IF k = 0 THEN h ELSE next[f[k - 1]]]
           Good == {m \in 0..n : \E f : f = Def(f, m)}
<1>1. 0 \in Good
  <2> DEFINE g == [k \in 0..0 |-> h]
  <2>1. g = Def(g, 0)
    OBVIOUS
  <2> HIDE DEF g
  <2> QED
    BY <2>1
<1>2. ASSUME NEW m \in 1..n, m - 1 \in Good PROVE m \in Good
  <2>1. PICK f : f = Def(f, m - 1)
    BY <1>2
  <2> DEFINE g == Def(f, m)
  <2>2. \A k \in 0..(m - 1) : g[k] = f[k]
    <3>1. \A k \in 0..(m - 1) : f[k] = Def(f, m - 1)[k]
      BY <2>1
    <3> QED
      BY <3>1
  <2>3. g = Def(g, m)
    <3>1. \A k \in 0..m : k # 0 => k - 1 \in 0..(m - 1)
      OBVIOUS
    <3>2. g = Def(f, m)
      OBVIOUS
    <3> HIDE DEF g
    <3>3. \A k \in 0..m : k # 0 => g[k - 1] = f[k - 1]
      BY <2>2, <3>1
    <3>4. \A k \in 0..m : (IF k = 0 THEN h ELSE next[f[k - 1]]) = (IF k = 0 THEN h ELSE next[g[k - 1]])
      BY <3>3
    <3> QED
      BY <3>2, <3>4
  <2>4. \E f1 : f1 = Def(f1, m)
    <3> HIDE DEF g
    <3> QED
      BY <2>3
  <2>5. m \in 0..n
    OBVIOUS
  <2> QED
    BY <2>4, <2>5
<1>3. \E f : f = Def(f, n)
  <2>1. 0..n \subseteq Good
    <3> HIDE DEF Good
    <3> QED
      BY <1>1, <1>2, IntervalInduction
  <2>2. n \in Good
    <3> HIDE DEF Good
    <3> QED
      BY <2>1
  <2> QED
    BY <2>2
<1> DEFINE H == Holes(next, h)
<1>4. H = Def(H, n)
  <2>1. H = CHOOSE f : f = Def(f, n)
    BY DEF Holes
  <2> HIDE DEF H
  <2> QED
    BY <1>3, <2>1
<1> HIDE DEF H
<1>5. DOMAIN H = 0..n /\ \A k \in 0..n : H[k] = IF k = 0 THEN h ELSE next[H[k - 1]]
  <2>1. DOMAIN H = DOMAIN Def(H, n) /\ \A k \in 0..n : H[k] = Def(H, n)[k]
    BY <1>4
  <2> QED
    BY <2>1
<1>6. H[0] = h
  BY <1>5
<1>7. \A k \in 1..n : H[k] = next[H[k - 1]]
  <2> TAKE k \in 1..n
  <2>1. k \in 0..n /\ k # 0
    OBVIOUS
  <2> QED
    BY <1>5, <2>1
<1>8. H = [k \in 0..n |-> H[k]]
  BY <1>4, <1>5
<1> DEFINE In == {k \in 0..n : H[k] \in 0..n}
<1>9. 0..n \subseteq In
  <2>1. 0 \in In
    BY <1>6
  <2>2. ASSUME NEW k \in 1..n, k - 1 \in In PROVE k \in In
    <3>1. H[k - 1] \in 0..n /\ k \in 0..n
      BY <2>2
    <3>2. H[k] \in 0..n
      BY <1>7, <3>1
    <3> QED
      BY <3>1, <3>2
  <2> HIDE DEF In
  <2> QED
    BY <2>1, <2>2, IntervalInduction
<1>10. H \in [0..n -> 0..n]
  BY <1>8, <1>9
<1> QED
  BY <1>5, <1>10 DEF H

LEMMA WayWithin ==
    ASSUME NEW n \in Nat, NEW next \in [0..n -> 0..n], NEW h \in 0..n, NEW S,
           h \in S,
           \A i \in S \cap (0..n) : next[i] \in S
    PROVE  Way(next, h) \subseteq S
<1> DEFINE H == Holes(next, h)
           In == {k \in 0..n : H[k] \in S}
<1>1. /\ H \in [0..n -> 0..n] /\ H[0] = h
      /\ \A k \in 1..n : H[k] = next[H[k - 1]]
  <2>1. H \in [0..n -> 0..n]
    BY HolesIs
  <2>2. \A k \in 0..n : H[k] = IF k = 0 THEN h ELSE next[H[k - 1]]
    BY HolesIs
  <2>3. 0 \in 0..n /\ \A k \in 1..n : k \in 0..n /\ k # 0
    OBVIOUS
  <2> HIDE DEF H
  <2> QED
    BY <2>1, <2>2, <2>3
<1> HIDE DEF H
<1>2. 0 \in In
  BY <1>1
<1>3. ASSUME NEW k \in 1..n, k - 1 \in In PROVE k \in In
  <2>1. H[k - 1] \in S /\ H[k - 1] \in 0..n /\ k \in 0..n
    BY <1>1, <1>3
  <2>2. H[k] \in S
    BY <1>1, <2>1
  <2> QED
    BY <2>1, <2>2
<1>4. 0..n \subseteq In
  <2> HIDE DEF In
  <2> QED
    BY <1>2, <1>3, IntervalInduction
<1>5. DOMAIN next = 0..n
  OBVIOUS
<1> QED
  BY <1>4, <1>5 DEF Way, H

(* A way along which something shrinks is closed under the moves of the    *)
(* hole, has a place where the hole stays, and all of it but the first     *)
(* place is reached by a move.                                             *)
LEMMA WayIs ==
    ASSUME NEW n \in Nat, NEW next \in [0..n -> 0..n], NEW h \in 0..n,
           NEW rank \in [0..n -> 0..n],
           \A i \in 0..n : next[i] # i => rank[next[i]] < rank[i]
    PROVE  /\ h \in Way(next, h) /\ Way(next, h) \subseteq 0..n
           /\ \A i \in Way(next, h) : next[i] \in Way(next, h)
           /\ \E i \in Way(next, h) : next[i] = i
           /\ \A i \in Way(next, h) : i # h => \E j \in Way(next, h) : next[j] = i /\ j # i
<1> DEFINE H == Holes(next, h)
           W == Way(next, h)
<1>1. /\ H \in [0..n -> 0..n] /\ H[0] = h
      /\ \A k \in 1..n : H[k] = next[H[k - 1]]
  <2>1. H \in [0..n -> 0..n]
    BY HolesIs
  <2>2. \A k \in 0..n : H[k] = IF k = 0 THEN h ELSE next[H[k - 1]]
    BY HolesIs
  <2>3. 0 \in 0..n /\ \A k \in 1..n : k \in 0..n /\ k # 0
    OBVIOUS
  <2> HIDE DEF H
  <2> QED
    BY <2>1, <2>2, <2>3
<1>2. W = {H[k] : k \in 0..n}
  BY DEF Way
<1> HIDE DEF H, W
<1>3. h \in W /\ W \subseteq 0..n
  <2>1. 0 \in 0..n
    OBVIOUS
  <2> QED
    BY <1>1, <1>2, <2>1
<1> DEFINE Down == {k \in 0..n : next[H[k]] = H[k] \/ rank[H[k]] <= n - k}
<1>4. 0..n \subseteq Down
  <2>1. 0 \in Down
    BY <1>1
  <2>2. ASSUME NEW k \in 1..n, k - 1 \in Down PROVE k \in Down
    <3>1. /\ k \in 0..n /\ k - 1 \in 0..n
          /\ next[H[k - 1]] = H[k - 1] \/ rank[H[k - 1]] <= n - (k - 1)
      BY <2>2
    <3>2. H[k] = next[H[k - 1]] /\ H[k - 1] \in 0..n /\ H[k] \in 0..n
      BY <1>1, <3>1
    <3>3. CASE next[H[k - 1]] = H[k - 1]
      BY <3>1, <3>2, <3>3
    <3>4. CASE next[H[k - 1]] # H[k - 1]
      <4>1. rank[H[k]] < rank[H[k - 1]] /\ rank[H[k - 1]] <= n - (k - 1)
        BY <3>1, <3>2, <3>4
      <4>2. rank[H[k]] \in 0..n /\ rank[H[k - 1]] \in 0..n
        BY <3>2
      <4>3. \A r1, r2 \in 0..n : r1 < r2 /\ r2 <= n - (k - 1) => r1 <= n - k
        OBVIOUS
      <4>4. rank[H[k]] <= n - k
        BY <4>1, <4>2, <4>3, Zenon
      <4> QED
        BY <3>1, <4>4
    <3> QED
      BY <3>3, <3>4
  <2> HIDE DEF Down
  <2> QED
    BY <2>1, <2>2, IntervalInduction
<1>5. next[H[n]] = H[n]
  <2>1. n \in 0..n /\ H[n] \in 0..n
    BY <1>1
  <2>2. n \in Down
    <3> HIDE DEF Down
    <3> QED
      BY <1>4, <2>1
  <2>3. next[H[n]] = H[n] \/ rank[H[n]] <= 0
    BY <2>2
  <2>4. next[H[n]] \in 0..n
    BY <2>1
  <2>5. rank[H[n]] \in 0..n /\ rank[next[H[n]]] \in 0..n
    BY <2>1, <2>4
  <2>6. next[H[n]] # H[n] => rank[next[H[n]]] < rank[H[n]]
    BY <2>1
  <2>7. \A r1, r2 \in 0..n : r1 <= 0 => ~(r2 < r1)
    OBVIOUS
  <2> QED
    BY <2>3, <2>5, <2>6, <2>7, Zenon
<1>6. \A i \in W : next[i] \in W
  <2> TAKE i \in W
  <2>1. PICK k \in 0..n : i = H[k]
    BY <1>2
  <2>2. CASE k = n
    BY <1>5, <2>1, <2>2
  <2>3. CASE k # n
    <3>1. k + 1 \in 0..n /\ k + 1 \in 1..n /\ (k + 1) - 1 = k
      BY <2>3
    <3>2. H[k + 1] = next[i]
      BY <1>1, <2>1, <3>1
    <3> QED
      BY <1>2, <3>1, <3>2
  <2> QED
    BY <2>2, <2>3
<1>7. \E i \in W : next[i] = i
  <2>1. n \in 0..n
    OBVIOUS
  <2> QED
    BY <1>2, <1>5, <2>1
<1>8. \A i \in W : i # h => \E j \in W : next[j] = i /\ j # i
  <2> SUFFICES ASSUME NEW i \in W, i # h
               PROVE  \E j \in W : next[j] = i /\ j # i
    OBVIOUS
  <2> DEFINE At == {k \in 0..n : H[k] = i}
  <2>1. PICK k \in At : \A j \in At : k <= j
    <3>1. At # {}
      BY <1>2
    <3>2. At \in SUBSET Nat
      OBVIOUS
    <3> HIDE DEF At
    <3> QED
      BY <3>1, <3>2, LeastNatural
  <2>2. k \in 0..n /\ H[k] = i
    BY <2>1
  <2>3. k # 0
    BY <1>1, <2>2
  <2>4. k \in 1..n /\ k - 1 \in 0..n /\ ~(k <= k - 1)
    BY <2>2, <2>3
  <2>5. k - 1 \notin At
    <3> HIDE DEF At
    <3> QED
      BY <2>1, <2>4
  <2>6. H[k - 1] # i
    BY <2>4, <2>5
  <2>7. next[H[k - 1]] = i
    BY <1>1, <2>2, <2>4
  <2>8. H[k - 1] \in W
    BY <1>2, <2>4
  <2> QED
    BY <2>6, <2>7, <2>8
<1> QED
  BY <1>3, <1>6, <1>7, <1>8 DEF W

(* What is needed of the way of a hole through the places I.               *)
GoodWay(next, h, I) ==
    /\ h \in Way(next, h) /\ Way(next, h) \subseteq I
    /\ \A i \in Way(next, h) : next[i] \in Way(next, h)
    /\ \E i \in Way(next, h) : next[i] = i
    /\ \A i \in Way(next, h) : i # h => \E j \in Way(next, h) : next[j] = i /\ j # i
    /\ \A i \in Way(next, h) : next[i] # h \/ i = h

(* Nothing is lost or doubled by the moves: x is there afterwards, and     *)
(* what was at the first place is not, unless it was elsewhere too.        *)
LEMMA ShiftKeeps ==
    ASSUME NEW next, NEW h, NEW a, NEW x, NEW I,
           GoodWay(next, h, I), I \subseteq DOMAIN a
    PROVE  /\ \A i \in I : \/ Shift(a, next, h, x)[i] = x
                          \/ \E j \in I \ {h} : Shift(a, next, h, x)[i] = a[j]
           /\ \A j \in I \ {h} : \E i \in I : Shift(a, next, h, x)[i] = a[j]
           /\ \E i \in I : Shift(a, next, h, x)[i] = x
<1> DEFINE W == Way(next, h)
           new == Shift(a, next, h, x)
<1>1. \A i \in I : new[i] = IF i \notin W THEN a[i] ELSE IF next[i] = i THEN x ELSE a[next[i]]
  BY DEF Shift
<1>2. /\ h \in W
      /\ \A i \in W : next[i] \in W
      /\ \E i \in W : next[i] = i
      /\ \A i \in W : i # h => \E j \in W : next[j] = i /\ j # i
  BY DEF GoodWay
<1>3. W \subseteq I /\ \A i \in W : next[i] # h \/ i = h
  BY DEF GoodWay
<1> HIDE DEF new, W
<1>4. ASSUME NEW i \in I PROVE new[i] = x \/ \E j \in I \ {h} : new[i] = a[j]
  <2>1. CASE i \notin W
    <3>1. i # h /\ new[i] = a[i]
      BY <1>1, <1>2, <2>1
    <3> QED
      BY <3>1
  <2>2. CASE i \in W /\ next[i] = i
    BY <1>1, <2>2
  <2>3. CASE i \in W /\ next[i] # i
    <3>1. new[i] = a[next[i]] /\ next[i] \in I
      BY <1>1, <1>2, <1>3, <2>3
    <3>2. next[i] # h
      BY <1>3, <2>3
    <3> QED
      BY <3>1, <3>2
  <2> QED
    BY <2>1, <2>2, <2>3
<1>5. ASSUME NEW j \in I \ {h} PROVE \E i \in I : new[i] = a[j]
  <2>1. CASE j \notin W
    BY <1>1, <2>1
  <2>2. CASE j \in W
    <3>1. PICK i \in W : next[i] = j /\ i # j
      BY <1>2, <2>2
    <3>2. i \in I /\ new[i] = a[j]
      BY <1>1, <1>3, <3>1
    <3> QED
      BY <3>2
  <2> QED
    BY <2>1, <2>2
<1>6. \E i \in I : new[i] = x
  BY <1>1, <1>2, <1>3
<1> QED
  BY <1>4, <1>5, <1>6 DEF new

-----------------------------------------------------------------------------
(* add_timer: the hole rises.                                              *)

LEMMA RiseIs ==
    ASSUME NEW n \in Nat, NEW a, NEW e, NEW at
    PROVE  /\ Rise(a, n, e, at) \in [0..n -> 0..n]
           /\ \A i \in 0..n : Rise(a, n, e, at)[i] \in {i, Parent(i)}
           /\ \A i \in 0..n : Rise(a, n, e, at)[i] # i =>
                 /\ i > 0 /\ Rise(a, n, e, at)[i] = Parent(i) /\ Parent(i) < i
                 /\ ~(at[a[Parent(i)]] <= e)
           /\ \A i \in 1..n : Rise(a, n, e, at)[i] = i => at[a[Parent(i)]] <= e
<1> DEFINE next == Rise(a, n, e, at)
<1>1. \A i \in 1..n : Parent(i) \in 0..n /\ Parent(i) < i
  BY ParentOf
<1>2. next = [h \in 0..n |-> IF h = 0 \/ at[a[Parent(h)]] <= e THEN h ELSE Parent(h)]
  BY DEF Rise
<1> HIDE DEF next
<1>3. \A i \in 0..n : next[i] = IF i = 0 \/ at[a[Parent(i)]] <= e THEN i ELSE Parent(i)
  BY <1>2
<1>4. \A i \in 0..n : i = 0 \/ i \in 1..n
  OBVIOUS
<1>5. \A i \in 0..n : (IF i = 0 \/ at[a[Parent(i)]] <= e THEN i ELSE Parent(i)) \in 0..n
  BY <1>1, <1>4
<1>6. next \in [0..n -> 0..n]
  BY <1>2, <1>5
<1>7. \A i \in 0..n : next[i] # i =>
         /\ i > 0 /\ next[i] = Parent(i) /\ Parent(i) < i
         /\ ~(at[a[Parent(i)]] <= e)
  BY <1>1, <1>3, <1>4
<1>8. \A i \in 1..n : next[i] = i => at[a[Parent(i)]] <= e
  <2> TAKE i \in 1..n
  <2>1. i \in 0..n /\ i # 0 /\ Parent(i) # i
    BY <1>1
  <2> QED
    BY <1>3, <2>1
<1> QED
  BY <1>3, <1>6, <1>7, <1>8 DEF next

(* The way up: every place on it but the first holds a timer that expires  *)
(* later than the new one.                                                 *)
LEMMA WayUp ==
    ASSUME NEW n \in Nat, NEW a, NEW e, NEW at
    PROVE  LET next == Rise(a, n, e, at)
               W    == Way(next, n)
           IN  /\ GoodWay(next, n, 0..n)
               /\ \A i \in W : i # n => i \in 0..(n - 1) /\ ~(at[a[i]] <= e)
<1> DEFINE next == Rise(a, n, e, at)
           W == Way(next, n)
           rank == [i \in 0..n |-> i]
<1>1. /\ next \in [0..n -> 0..n]
      /\ \A i \in 0..n : next[i] # i =>
                 /\ i > 0 /\ next[i] = Parent(i) /\ Parent(i) < i
                 /\ ~(at[a[Parent(i)]] <= e)
  BY RiseIs
<1> HIDE DEF next
<1>2. \A i \in 0..n : next[i] # i => rank[next[i]] < rank[i]
  BY <1>1
<1>3. rank \in [0..n -> 0..n] /\ n \in 0..n
  OBVIOUS
<1> HIDE DEF rank
<1>4. /\ n \in W /\ W \subseteq 0..n
      /\ \A i \in W : next[i] \in W
      /\ \E i \in W : next[i] = i
      /\ \A i \in W : i # n => \E j \in W : next[j] = i /\ j # i
  BY <1>1, <1>2, <1>3, WayIs
<1> HIDE DEF W
<1>5. ASSUME NEW i \in W, i # n PROVE i \in 0..(n - 1) /\ ~(at[a[i]] <= e)
  <2>1. PICK j \in W : next[j] = i /\ j # i
    BY <1>4, <1>5
  <2>2. j \in 0..n /\ next[j] # j
    BY <1>4, <2>1
  <2>3. i = Parent(j) /\ ~(at[a[Parent(j)]] <= e)
    BY <1>1, <2>1, <2>2
  <2>4. i \in 0..n
    BY <1>4
  <2> QED
    BY <1>5, <2>3, <2>4
<1>6. ASSUME NEW i \in W, next[i] = n PROVE i = n
  <2>1. i \in 0..n
    BY <1>4
  <2>2. next[i] # i => next[i] = Parent(i) /\ Parent(i) < i /\ i <= n
    BY <1>1, <2>1
  <2> SUFFICES ASSUME i # n PROVE FALSE
    OBVIOUS
  <2>3. n < i /\ i <= n
    BY <1>6, <2>2
  <2> QED
    BY <2>1, <2>3
<1> QED
  BY <1>4, <1>5, <1>6 DEF next, W, GoodWay

(* What a place holds after a shift.                                       *)
LEMMA ShiftAt ==
    ASSUME NEW a, NEW next, NEW h, NEW x
    PROVE  /\ DOMAIN Shift(a, next, h, x) = DOMAIN a
           /\ \A i \in DOMAIN a : Shift(a, next, h, x)[i] =
                 IF i \notin Way(next, h) THEN a[i]
                 ELSE IF next[i] = i THEN x ELSE a[next[i]]
BY DEF Shift

LEMMA ShiftType ==
    ASSUME NEW V, NEW D, NEW a \in [D -> V], NEW next, NEW h, NEW x \in V,
           Way(next, h) \subseteq D,
           \A i \in Way(next, h) : next[i] \in Way(next, h)
    PROVE  Shift(a, next, h, x) \in [D -> V]
<1> DEFINE W == Way(next, h)
<1>1. \A i \in D : (IF i \notin W THEN a[i] ELSE IF next[i] = i THEN x ELSE a[next[i]]) \in V
  <2> HIDE DEF W
  <2>1. W \subseteq D /\ \A i \in W : next[i] \in W
    BY DEF W
  <2> QED
    BY <2>1
<1>2. Shift(a, next, h, x) =
         [i \in D |-> IF i \notin W THEN a[i] ELSE IF next[i] = i THEN x ELSE a[next[i]]]
  BY DEF Shift
<1> HIDE DEF W
<1> QED
  BY <1>1, <1>2

(* A timer that is put where the hole comes to rest leaves the heap in     *)
(* order, adds one entry, and changes the top only if it expires first.    *)
LEMMA HoleRises ==
    ASSUME NEW n \in Nat, NEW a, NEW x, NEW at,
           0..n \subseteq DOMAIN a,
           at[x] \in Nat,
           \A i \in 0..(n - 1) : at[a[i]] \in Nat,
           \A i \in 1..(n - 1) : at[a[Parent(i)]] <= at[a[i]]
    PROVE  LET new == Shift(a, Rise(a, n, at[x], at), n, x)
           IN  /\ EntriesOf(new, n + 1) = EntriesOf(a, n) \cup {x}
               /\ \A i \in 1..n : at[new[Parent(i)]] <= at[new[i]]
               /\ n > 0 /\ at[a[0]] <= at[x] => new[0] = a[0]
<1> DEFINE e == at[x]
           next == Rise(a, n, e, at)
           W == Way(next, n)
           new == Shift(a, next, n, x)
<1>1. /\ next \in [0..n -> 0..n]
      /\ \A i \in 0..n : next[i] # i =>
            i > 0 /\ next[i] = Parent(i) /\ Parent(i) < i /\ ~(at[a[Parent(i)]] <= e)
      /\ \A i \in 1..n : next[i] = i => at[a[Parent(i)]] <= e
  BY RiseIs
<1>2. GoodWay(next, n, 0..n) /\ \A i \in W : i # n => i \in 0..(n - 1) /\ ~(at[a[i]] <= e)
  BY WayUp
<1>3. \A i \in 0..n : new[i] = IF i \notin W THEN a[i] ELSE IF next[i] = i THEN x ELSE a[next[i]]
  BY ShiftAt
<1>4. {new[i] : i \in 0..n} = {a[i] : i \in 0..(n - 1)} \cup {x}
  <2>3. /\ \A i \in 0..n : new[i] = x \/ \E j \in (0..n) \ {n} : new[i] = a[j]
        /\ \A j \in (0..n) \ {n} : \E i \in 0..n : new[i] = a[j]
        /\ \E i \in 0..n : new[i] = x
    <3> HIDE DEF next
    <3> DEFINE I == 0..n
    <3>1. GoodWay(next, n, I) /\ I \subseteq DOMAIN a
      BY <1>2
    <3> HIDE DEF I
    <3>2. \A i \in I : new[i] = x \/ \E j \in I \ {n} : new[i] = a[j]
      BY <3>1, ShiftKeeps
    <3>3. \A j \in I \ {n} : \E i \in I : new[i] = a[j]
      BY <3>1, ShiftKeeps
    <3>4. \E i \in I : new[i] = x
      BY <3>1, ShiftKeeps
    <3> QED
      BY <3>2, <3>3, <3>4 DEF I
  <2>4. (0..n) \ {n} = 0..(n - 1)
    OBVIOUS
  <2> HIDE DEF new
  <2> QED
    BY <2>3, <2>4
<1>5. n \in W /\ W \subseteq 0..n /\ \A i \in W : next[i] \in W
  BY <1>2 DEF GoodWay
<1> HIDE DEF W, new, next
<1>6. n > 0 /\ at[a[0]] <= e => new[0] = a[0]
  BY <1>2, <1>3
<1>7. ASSUME NEW i \in 1..n PROVE at[new[Parent(i)]] <= at[new[i]]
  <2> DEFINE p == Parent(i)
  <2>1. p \in 0..(n - 1) /\ p < i /\ i \in 0..n /\ p \in 0..n /\ i # 0
    BY ParentOf
  <2> HIDE DEF p
  <2>2. at[a[p]] \in Nat /\ e \in Nat
    BY <2>1
  <2>3. p # n
    BY <2>1
  <2>4. p \in W => e < at[a[p]]
    <3>1. p \in W => ~(at[a[p]] <= e)
      BY <1>2, <1>5, <2>3
    <3> HIDE DEF e
    <3> QED
      BY <2>2, <3>1
  <2>5. p \in W => new[p] = x \/ (next[p] # p /\ new[p] = a[next[p]])
    BY <1>3, <2>1
  <2>6. p \in W /\ next[p] # p => at[a[next[p]]] <= at[a[p]] /\ at[a[next[p]]] \in Nat
    <3> SUFFICES ASSUME p \in W, next[p] # p
                 PROVE  at[a[next[p]]] <= at[a[p]] /\ at[a[next[p]]] \in Nat
      OBVIOUS
    <3>1. p > 0 /\ next[p] = Parent(p) /\ Parent(p) < p
      BY <1>1, <2>1
    <3>2. p \in 1..(n - 1) /\ next[p] \in 0..n
      BY <1>1, <2>1, <3>1
    <3>3. Parent(p) \in 0..(n - 1)
      BY <2>1, <3>1, <3>2
    <3> QED
      BY <3>1, <3>2, <3>3
  <2>7. p \in W => at[new[p]] \in Nat /\ at[new[p]] <= at[a[p]]
    <3>1. p \in W => e <= at[a[p]]
      BY <2>2, <2>4
    <3> QED
      BY <2>2, <2>5, <2>6, <3>1
  <2>8. CASE i \in W /\ next[i] = i
    <3>1. new[i] = x
      BY <1>3, <2>1, <2>8
    <3>2. at[a[p]] <= e
      BY <1>1, <2>8 DEF p
    <3>3. p \notin W
      BY <2>2, <2>4, <3>2
    <3>4. new[p] = a[p]
      BY <1>3, <2>1, <3>3
    <3> QED
      BY <3>1, <3>2, <3>4 DEF p
  <2>9. CASE i \in W /\ next[i] # i
    <3>1. next[i] = p
      BY <1>1, <2>1, <2>9 DEF p
    <3>2. p \in W /\ new[i] = a[p]
      BY <1>2, <1>5, <1>3, <2>1, <2>9, <3>1
    <3> QED
      BY <2>7, <3>2 DEF p
  <2>10. CASE i \notin W
    <3>1. i \in 1..(n - 1) /\ i \in 0..(n - 1)
      BY <1>2, <1>5, <2>1, <2>10
    <3>2. at[a[p]] <= at[a[i]] /\ at[a[i]] \in Nat
      BY <3>1 DEF p
    <3>3. new[i] = a[i]
      BY <1>3, <2>1, <2>10
    <3>4. at[new[p]] <= at[a[p]] /\ at[new[p]] \in Nat
      BY <1>3, <2>1, <2>2, <2>7
    <3>5. at[new[p]] <= at[a[i]]
      BY <2>2, <3>2, <3>4
    <3> QED
      BY <3>3, <3>5 DEF p
  <2> QED
    BY <2>8, <2>9, <2>10
<1>8. EntriesOf(new, n + 1) = EntriesOf(a, n) \cup {x}
  <2>1. (n + 1) - 1 = n
    OBVIOUS
  <2> QED
    BY <1>4, <2>1 DEF EntriesOf
<1> QED
  BY <1>6, <1>7, <1>8 DEF new, next

-----------------------------------------------------------------------------
(* percolate_down: the hole sinks.                                         *)

LEMMA SinkIs ==
    ASSUME NEW n \in Nat, NEW a, NEW e, NEW at
    PROVE  LET next == Sink(a, n, e, at)
               child == [i \in 0..n |-> Child(a, n, i, at)]
           IN  /\ next \in [0..n -> 0..n]
               /\ \A i \in 0..n : next[i] # i =>
                     /\ next[i] = child[i] /\ i < next[i] /\ next[i] <= n - 1
                     /\ Parent(next[i]) = i /\ ~(at[a[next[i]]] >= e)
               /\ \A i \in 0..n : next[i] = i /\ 2 * i + 1 <= n - 1 => at[a[child[i]]] >= e
<1> DEFINE next == Sink(a, n, e, at)
           child == [i \in 0..n |-> Child(a, n, i, at)]
<1>1. \A i \in 0..n : /\ child[i] \in Nat /\ child[i] > i /\ Parent(child[i]) = i
                      /\ 2 * i + 1 <= n - 1 => child[i] <= n - 1
  BY ChildIs
<1>2. next = [h \in 0..n |-> IF 2 * h + 1 > n - 1 \/ at[a[child[h]]] >= e THEN h ELSE child[h]]
  BY DEF Sink
<1> HIDE DEF next, child
<1>3. \A i \in 0..n : next[i] = IF 2 * i + 1 > n - 1 \/ at[a[child[i]]] >= e THEN i ELSE child[i]
  BY <1>2
<1>4. \A i \in 0..n : (IF 2 * i + 1 > n - 1 \/ at[a[child[i]]] >= e THEN i ELSE child[i]) \in 0..n
  BY <1>1
<1>5. next \in [0..n -> 0..n]
  BY <1>2, <1>4
<1>6. ASSUME NEW i \in 0..n, next[i] # i
      PROVE  /\ next[i] = child[i] /\ i < next[i] /\ next[i] <= n - 1
             /\ Parent(next[i]) = i /\ ~(at[a[next[i]]] >= e)
  <2>1. ~(2 * i + 1 > n - 1) /\ ~(at[a[child[i]]] >= e) /\ next[i] = child[i]
    BY <1>3, <1>6
  <2>2. 2 * i + 1 <= n - 1
    BY <2>1
  <2> QED
    BY <1>1, <2>1, <2>2
<1>7. ASSUME NEW i \in 0..n, next[i] = i, 2 * i + 1 <= n - 1
      PROVE  at[a[child[i]]] >= e
  <2>1. ~(2 * i + 1 > n - 1) /\ child[i] # i
    BY <1>1, <1>7
  <2> QED
    BY <1>3, <1>7, <2>1
<1> QED
  BY <1>5, <1>6, <1>7 DEF next, child

LEMMA LeastChild ==
    ASSUME NEW n \in Nat, NEW a, NEW at, NEW i \in 1..(n - 1),
           \A j \in 0..(n - 1) : at[a[j]] \in Nat
    PROVE  /\ 2 * Parent(i) + 1 <= n - 1
           /\ at[a[Child(a, n, Parent(i), at)]] <= at[a[i]]
<1> DEFINE p == Parent(i)
           l == 2 * p + 1
<1>1. p \in Nat /\ (i = l \/ i = l + 1)
  BY ParentOf
<1> HIDE DEF p
<1>2. l <= n - 1 /\ l \in 0..(n - 1)
  BY <1>1
<1>3. l < n - 1 => l + 1 \in 0..(n - 1)
  BY <1>1
<1>4. i = l + 1 => l < n - 1
  BY <1>1
<1>5. Child(a, n, p, at) = IF l < n - 1 /\ at[a[l + 1]] < at[a[l]] THEN l + 1 ELSE l
  BY DEF Child
<1> HIDE DEF l
<1>6. at[a[l]] \in Nat /\ (l < n - 1 => at[a[l + 1]] \in Nat)
  BY <1>2, <1>3
<1>7. CASE l < n - 1 /\ at[a[l + 1]] < at[a[l]]
  <2>1. Child(a, n, p, at) = l + 1
    BY <1>5, <1>7
  <2> QED
    BY <1>1, <1>2, <1>6, <1>7, <2>1 DEF p, l
<1>8. CASE ~(l < n - 1 /\ at[a[l + 1]] < at[a[l]])
  <2>1. Child(a, n, p, at) = l
    BY <1>5, <1>8
  <2>2. i = l + 1 => at[a[l]] <= at[a[l + 1]]
    BY <1>4, <1>6, <1>8
  <2>3. at[a[l]] <= at[a[i]]
    BY <1>1, <1>6, <2>2
  <2> QED
    BY <1>2, <2>1, <2>3 DEF p, l
<1> QED
  BY <1>7, <1>8

(* The way down: every place on it but the first holds a timer that        *)
(* expires before the one that sinks, and follows its parent.              *)
LEMMA WayDown ==
    ASSUME NEW n \in Nat, NEW a, NEW e, NEW at, NEW h \in 0..n
    PROVE  LET next == Sink(a, n, e, at)
               W    == Way(next, h)
           IN  /\ GoodWay(next, h, {h} \cup (0..(n - 1)))
               /\ \A i \in W : h <= i
               /\ \A i \in W : i # h => Parent(i) \in W /\ next[Parent(i)] = i
<1> DEFINE next == Sink(a, n, e, at)
           W == Way(next, h)
           rank == [i \in 0..n |-> n - i]
           I == {h} \cup (0..(n - 1))
<1>1. /\ next \in [0..n -> 0..n]
      /\ \A i \in 0..n : next[i] # i =>
            i < next[i] /\ next[i] <= n - 1 /\ Parent(next[i]) = i
  BY SinkIs
<1> HIDE DEF next
<1>2. \A i \in 0..n : next[i] # i => rank[next[i]] < rank[i]
  BY <1>1
<1>3. rank \in [0..n -> 0..n]
  OBVIOUS
<1> HIDE DEF rank
<1>4. /\ h \in W /\ W \subseteq 0..n
      /\ \A i \in W : next[i] \in W
      /\ \E i \in W : next[i] = i
      /\ \A i \in W : i # h => \E j \in W : next[j] = i /\ j # i
  BY <1>1, <1>2, <1>3, WayIs
<1>5. W \subseteq I
  <2>1. h \in I
    OBVIOUS
  <2>2. \A i \in I \cap (0..n) : next[i] \in I
    BY <1>1
  <2> HIDE DEF I
  <2> QED
    BY <1>1, <2>1, <2>2, WayWithin
<1>6. W \subseteq h..n
  <2> DEFINE S == h..n
  <2>1. h \in S /\ \A i \in S \cap (0..n) : next[i] \in S
    <3>1. \A i \in 0..n : next[i] \in 0..n /\ (next[i] = i \/ i < next[i])
      BY <1>1
    <3> QED
      BY <3>1
  <2> HIDE DEF S
  <2>2. W \subseteq S
    BY <1>1, <2>1, WayWithin
  <2> QED
    BY <2>2 DEF S
<1> HIDE DEF W, I
<1>7. \A i \in W : h <= i
  BY <1>6
<1>8. ASSUME NEW i \in W, next[i] = h PROVE i = h
  <2> SUFFICES ASSUME i # h PROVE FALSE
    OBVIOUS
  <2>1. i \in 0..n /\ h <= i /\ next[i] # i
    BY <1>4, <1>7, <1>8
  <2>2. i < next[i]
    BY <1>1, <2>1
  <2> QED
    BY <1>8, <2>1, <2>2
<1>9. ASSUME NEW i \in W, i # h PROVE Parent(i) \in W /\ next[Parent(i)] = i
  <2>1. PICK j \in W : next[j] = i /\ j # i
    BY <1>4, <1>9
  <2>2. Parent(next[j]) = j
    BY <1>1, <1>4, <2>1
  <2> QED
    BY <2>1, <2>2
<1> QED
  BY <1>4, <1>5, <1>7, <1>8, <1>9 DEF next, W, I, GoodWay

LEMMA PercolateType ==
    ASSUME NEW V, NEW D, NEW a \in [D -> V], NEW n \in Nat, NEW h \in 0..n, NEW at,
           h \in D, 0..(n - 1) \subseteq D
    PROVE  PercolateDown(a, n, h, at) \in [D -> V]
<1> DEFINE next == Sink(a, n, at[a[h]], at)
           W == Way(next, h)
<1>1. GoodWay(next, h, {h} \cup (0..(n - 1)))
  BY WayDown
<1>2. W \subseteq D /\ \A i \in W : next[i] \in W
  BY <1>1 DEF GoodWay
<1>3. a[h] \in V
  OBVIOUS
<1> HIDE DEF next
<1>4. Shift(a, next, h, a[h]) \in [D -> V]
  BY <1>2, <1>3, ShiftType
<1> QED
  BY <1>4 DEF PercolateDown, next

(* A timer that sinks from place h, below which there is order, leaves     *)
(* order from h downwards and the entries as they are.                     *)
LEMMA HoleSinks ==
    ASSUME NEW n \in Nat, NEW h \in 0..(n - 1), NEW a, NEW at,
           0..(n - 1) \subseteq DOMAIN a,
           \A i \in 0..(n - 1) : at[a[i]] \in Nat,
           \A i \in 1..(n - 1) : Parent(i) > h => at[a[Parent(i)]] <= at[a[i]]
    PROVE  LET new == PercolateDown(a, n, h, at)
           IN  /\ EntriesOf(new, n) = EntriesOf(a, n)
               /\ \A i \in 1..(n - 1) : Parent(i) >= h => at[new[Parent(i)]] <= at[new[i]]
<1> DEFINE x == a[h]
           e == at[x]
           next == Sink(a, n, e, at)
           child == [i \in 0..n |-> Child(a, n, i, at)]
           W == Way(next, h)
           new == Shift(a, next, h, x)
           I == 0..(n - 1)
<1>1. /\ next \in [0..n -> 0..n]
      /\ \A i \in 0..n : next[i] # i =>
            /\ next[i] = child[i] /\ i < next[i] /\ next[i] <= n - 1
            /\ Parent(next[i]) = i /\ ~(at[a[next[i]]] >= e)
      /\ \A i \in 0..n : next[i] = i /\ 2 * i + 1 <= n - 1 => at[a[child[i]]] >= e
  <2>1. next \in [0..n -> 0..n]
    BY SinkIs
  <2>2. \A i \in 0..n : next[i] # i =>
            /\ next[i] = child[i] /\ i < next[i] /\ next[i] <= n - 1
            /\ Parent(next[i]) = i /\ ~(at[a[next[i]]] >= e)
    BY SinkIs
  <2>3. \A i \in 0..n : next[i] = i /\ 2 * i + 1 <= n - 1 => at[a[child[i]]] >= e
    BY SinkIs
  <2> QED
    BY <2>1, <2>2, <2>3
<1>2. /\ GoodWay(next, h, I)
      /\ \A i \in W : h <= i
      /\ \A i \in W : i # h => Parent(i) \in W /\ next[Parent(i)] = i
  <2>1. {h} \cup (0..(n - 1)) = I /\ h \in 0..n
    OBVIOUS
  <2>2. GoodWay(next, h, {h} \cup (0..(n - 1)))
    BY <2>1, WayDown
  <2>3. \A i \in W : h <= i
    BY <2>1, WayDown
  <2>4. \A i \in W : i # h => Parent(i) \in W /\ next[Parent(i)] = i
    BY <2>1, WayDown
  <2> HIDE DEF next, W, I
  <2> QED
    BY <2>1, <2>2, <2>3, <2>4
<1>3. h \in W /\ W \subseteq I /\ \A i \in W : next[i] \in W
  BY <1>2 DEF GoodWay
<1>4. \A i \in I : new[i] = IF i \notin W THEN a[i] ELSE IF next[i] = i THEN x ELSE a[next[i]]
  BY ShiftAt
<1>5. {new[i] : i \in I} = {a[i] : i \in I}
  <2>1. GoodWay(next, h, I) /\ I \subseteq DOMAIN a
    BY <1>2
  <2>2. h \in I
    OBVIOUS
  <2> HIDE DEF next, I
  <2>3. \A i \in I : new[i] = x \/ \E j \in I \ {h} : new[i] = a[j]
    BY <2>1, ShiftKeeps
  <2>4. \A j \in I \ {h} : \E i \in I : new[i] = a[j]
    BY <2>1, ShiftKeeps
  <2>5. \E i \in I : new[i] = x
    BY <2>1, ShiftKeeps
  <2> HIDE DEF new
  <2> QED
    BY <2>2, <2>3, <2>4, <2>5
<1>6. \A i \in 1..(n - 1) : /\ 2 * Parent(i) + 1 <= n - 1 /\ child[Parent(i)] \in I
                            /\ at[a[child[Parent(i)]]] <= at[a[i]]
  <2> TAKE i \in 1..(n - 1)
  <2>1. /\ 2 * Parent(i) + 1 <= n - 1
        /\ at[a[Child(a, n, Parent(i), at)]] <= at[a[i]]
    BY LeastChild
  <2>2. Parent(i) \in 0..n
    BY ParentOf
  <2>3. Child(a, n, Parent(i), at) \in I
    BY <2>1, <2>2, ChildIs
  <2> QED
    BY <2>1, <2>2, <2>3
<1> HIDE DEF W, new, next, child
<1>7. ASSUME NEW i \in 1..(n - 1), Parent(i) >= h
      PROVE  at[new[Parent(i)]] <= at[new[i]]
  <2> DEFINE p == Parent(i)
  <2>1. p \in I /\ p < i /\ i \in I /\ p \in 0..n /\ i # h /\ h <= p
    BY <1>7, ParentOf
  <2>2. 2 * p + 1 <= n - 1 /\ child[p] \in I /\ at[a[child[p]]] <= at[a[i]]
    BY <1>6
  <2>3. p > h => at[a[p]] <= at[a[i]]
    OBVIOUS
  <2>4. i \in W => p \in W /\ next[p] = i
    BY <1>2, <2>1
  <2> HIDE DEF p
  <2>5. at[a[p]] \in Nat /\ at[a[i]] \in Nat /\ e \in Nat
    BY <2>1
  <2>6. CASE p \notin W
    <3>1. i \notin W /\ p # h
      BY <1>3, <2>4, <2>6
    <3>2. new[i] = a[i] /\ new[p] = a[p] /\ p > h
      BY <1>4, <2>1, <2>6, <3>1
    <3> QED
      BY <2>3, <3>2 DEF p
  <2>7. CASE p \in W /\ next[p] = p
    <3>1. i \notin W
      BY <2>1, <2>4, <2>7
    <3>2. new[i] = a[i] /\ new[p] = x
      BY <1>4, <2>1, <2>7, <3>1
    <3>3. at[a[child[p]]] >= e
      BY <1>1, <2>1, <2>2, <2>7
    <3>4. e <= at[a[i]]
      <4>1. at[a[child[p]]] \in Nat
        BY <2>2
      <4> QED
        BY <2>2, <2>5, <3>3, <4>1
    <3> QED
      BY <3>2, <3>4 DEF p
  <2>8. CASE p \in W /\ next[p] # p
    <3> DEFINE c == next[p]
    <3>1. c = child[p] /\ p < c /\ c <= n - 1 /\ Parent(c) = p /\ ~(at[a[c]] >= e)
      BY <1>1, <2>1, <2>8
    <3>2. c \in I /\ c \in 1..(n - 1) /\ c \in 0..n /\ h < c
      <4>1. c \in 0..n
        BY <1>1, <2>1
      <4> HIDE DEF c
      <4> QED
        BY <2>1, <3>1, <4>1
    <3>3. new[p] = a[c]
      BY <1>4, <2>1, <2>8
    <3>4. c \in W
      BY <1>3, <2>8
    <3> HIDE DEF c
    <3>5. at[a[c]] \in Nat
      BY <3>2
    <3>6. CASE i \notin W
      <4>1. new[i] = a[i]
        BY <1>4, <2>1, <3>6
      <4> QED
        BY <2>2, <3>1, <3>3, <4>1 DEF p
    <3>7. CASE i \in W
      <4>1. i = c
        BY <2>4, <3>7 DEF c
      <4>2. CASE next[c] = c
        <5>1. new[c] = x
          BY <1>4, <3>2, <3>4, <4>2
        <5>2. at[a[c]] <= e
          BY <2>5, <3>1, <3>5
        <5> QED
          BY <3>3, <4>1, <5>1, <5>2 DEF p
      <4>3. CASE next[c] # c
        <5>1. c < next[c] /\ next[c] <= n - 1 /\ Parent(next[c]) = c
          BY <1>1, <3>2, <4>3
        <5>2. next[c] \in 1..(n - 1)
          BY <1>1, <3>2, <5>1
        <5>3. at[a[c]] <= at[a[next[c]]]
          BY <3>2, <5>1, <5>2
        <5>4. new[c] = a[next[c]]
          BY <1>4, <3>2, <3>4, <4>3
        <5> QED
          BY <3>3, <4>1, <5>3, <5>4 DEF p
      <4> QED
        BY <4>2, <4>3
    <3> QED
      BY <3>6, <3>7
  <2> QED
    BY <2>6, <2>7, <2>8
<1>8. EntriesOf(new, n) = EntriesOf(a, n)
  BY <1>5 DEF EntriesOf
<1>9. new = PercolateDown(a, n, h, at)
  BY DEF new, next, PercolateDown
<1> QED
  BY <1>7, <1>8, <1>9

-----------------------------------------------------------------------------
(* The second constructor.                                                 *)

LEMMA HeapifyIs ==
    ASSUME NEW n \in Nat \ {0}, NEW a, NEW at
    PROVE  LET last == (n - 1) \div 2
           IN  \E f : /\ Heapify(a, n, at) = f[0]
                      /\ \A i \in 0..(last + 1) :
                            f[i] = IF i > last THEN a ELSE PercolateDown(f[i + 1], n, i, at)
<1> DEFINE last == (n - 1) \div 2
           top == last + 1
           Def(f, m) == [i \in m..top |-> IF i > last THEN a ELSE PercolateDown(f[i + 1], n, i, at)]
           Good == {m \in 0..top : \E f : f = Def(f, m)}
<1>1. last \in Nat
  OBVIOUS
<1> HIDE DEF last
<1>2. top \in Good
  <2> DEFINE g == [i \in top..top |-> a]
  <2>1. \A i \in top..top : i > last
    BY <1>1
  <2>2. g = Def(g, top)
    BY <2>1
  <2>3. \E f : f = Def(f, top)
    <3> HIDE DEF g
    <3> QED
      BY <2>2
  <2>4. top \in 0..top
    BY <1>1
  <2> QED
    BY <2>3, <2>4
<1>3. ASSUME NEW m \in 0..(top - 1), m + 1 \in Good PROVE m \in Good
  <2>1. PICK f : f = Def(f, m + 1)
    BY <1>3
  <2> DEFINE g == Def(f, m)
  <2>2. \A i \in (m + 1)..top : g[i] = f[i]
    <3>1. \A i \in (m + 1)..top : f[i] = Def(f, m + 1)[i]
      BY <2>1
    <3>2. \A i \in (m + 1)..top : i \in m..top
      BY <1>1
    <3> QED
      BY <3>1, <3>2
  <2>3. g = Def(g, m)
    <3>1. \A i \in m..top : ~(i > last) => i + 1 \in (m + 1)..top
      BY <1>1
    <3>2. g = Def(f, m)
      OBVIOUS
    <3> HIDE DEF g
    <3>3. \A i \in m..top : ~(i > last) => g[i + 1] = f[i + 1]
      BY <2>2, <3>1
    <3>4. \A i \in m..top : (IF i > last THEN a ELSE PercolateDown(f[i + 1], n, i, at))
                          = (IF i > last THEN a ELSE PercolateDown(g[i + 1], n, i, at))
      BY <3>3
    <3> QED
      BY <3>2, <3>4
  <2>4. \E f1 : f1 = Def(f1, m)
    <3> HIDE DEF g
    <3> QED
      BY <2>3
  <2>5. m \in 0..top
    BY <1>1
  <2> QED
    BY <2>4, <2>5
<1>4. \E f : f = Def(f, 0)
  <2>1. top \in Nat
    BY <1>1
  <2>2. 0 \in Good
    <3> HIDE DEF Good, top
    <3>1. 0..top \subseteq Good
      BY <1>2, <1>3, <2>1, DownwardInduction
    <3> QED
      BY <2>1, <3>1
  <2> QED
    BY <2>2
<1> DEFINE F == CHOOSE f : f = Def(f, 0)
<1>5. F = Def(F, 0)
  BY <1>4
<1>6. Heapify(a, n, at) = F[0]
  BY DEF Heapify, last
<1> HIDE DEF F
<1>7. \A i \in 0..top : F[i] = IF i > last THEN a ELSE PercolateDown(F[i + 1], n, i, at)
  <2>1. \A i \in 0..top : F[i] = Def(F, 0)[i]
    BY <1>5
  <2> QED
    BY <2>1
<1> QED
  BY <1>6, <1>7 DEF last

LEMMA SinkStep ==
    ASSUME NEW V, NEW D, NEW a \in [D -> V], NEW n \in Nat, NEW h \in 0..(n - 1), NEW at,
           0..(n - 1) \subseteq D,
           \A t \in EntriesOf(a, n) : at[t] \in Nat,
           OrderFrom(a, n, h + 1, at)
    PROVE  /\ PercolateDown(a, n, h, at) \in [D -> V]
           /\ EntriesOf(PercolateDown(a, n, h, at), n) = EntriesOf(a, n)
           /\ OrderFrom(PercolateDown(a, n, h, at), n, h, at)
<1>1. PercolateDown(a, n, h, at) \in [D -> V]
  <2>1. h \in 0..n /\ h \in D
    OBVIOUS
  <2> QED
    BY <2>1, PercolateType
<1> DEFINE new == PercolateDown(a, n, h, at)
<1>2. \A i \in 0..(n - 1) : at[a[i]] \in Nat
  BY DEF EntriesOf
<1>3. \A i \in 1..(n - 1) : Parent(i) > h => at[a[Parent(i)]] <= at[a[i]]
  <2> TAKE i \in 1..(n - 1)
  <2>1. Parent(i) > h => Parent(i) >= h + 1
    BY ParentOf
  <2> QED
    BY <2>1 DEF OrderFrom
<1>4. 0..(n - 1) \subseteq DOMAIN a
  OBVIOUS
<1>5. EntriesOf(new, n) = EntriesOf(a, n)
  BY <1>2, <1>3, <1>4, HoleSinks
<1>6. \A i \in 1..(n - 1) : Parent(i) >= h => at[new[Parent(i)]] <= at[new[i]]
  BY <1>2, <1>3, <1>4, HoleSinks
<1> QED
  BY <1>1, <1>5, <1>6 DEF OrderFrom

LEMMA HeapifyOrders ==
    ASSUME NEW V, NEW D, NEW a \in [D -> V], NEW n \in Nat \ {0}, NEW at,
           0..(n - 1) \subseteq D,
           \A t \in EntriesOf(a, n) : at[t] \in Nat
    PROVE  /\ Heapify(a, n, at) \in [D -> V]
           /\ EntriesOf(Heapify(a, n, at), n) = EntriesOf(a, n)
           /\ OrderFrom(Heapify(a, n, at), n, 0, at)
<1> DEFINE last == (n - 1) \div 2
           top == last + 1
<1>1. PICK f : /\ Heapify(a, n, at) = f[0]
               /\ \A i \in 0..top : f[i] = IF i > last THEN a ELSE PercolateDown(f[i + 1], n, i, at)
  BY HeapifyIs
<1>2. last \in 0..(n - 1) /\ \A p \in Nat : 2 * p + 1 <= n - 1 => p <= last
  OBVIOUS
<1> HIDE DEF last
<1> DEFINE Fine(b, i) == /\ b \in [D -> V] /\ EntriesOf(b, n) = EntriesOf(a, n)
                         /\ OrderFrom(b, n, i, at)
           Good == {i \in 0..top : Fine(f[i], i)}
<1>3. top \in Good
  <2>1. top \in 0..top /\ top > last
    BY <1>2
  <2>2. f[top] = a
    BY <1>1, <2>1
  <2>3. ASSUME NEW i \in 1..(n - 1) PROVE ~(Parent(i) >= top)
    <3>1. Parent(i) \in Nat /\ 2 * Parent(i) + 1 <= n - 1
      BY ParentOf
    <3>2. Parent(i) <= last
      BY <1>2, <3>1
    <3> QED
      BY <1>2, <3>1, <3>2
  <2>4. OrderFrom(a, n, top, at)
    BY <2>3 DEF OrderFrom
  <2> QED
    BY <2>1, <2>2, <2>4
<1>4. ASSUME NEW i \in 0..(top - 1), i + 1 \in Good PROVE i \in Good
  <2>1. i \in 0..top /\ ~(i > last) /\ i \in 0..(n - 1)
    BY <1>2
  <2>2. f[i] = PercolateDown(f[i + 1], n, i, at)
    BY <1>1, <2>1
  <2>3. Fine(f[i + 1], i + 1)
    BY <1>4
  <2> DEFINE b == f[i + 1]
  <2>4. b \in [D -> V] /\ EntriesOf(b, n) = EntriesOf(a, n) /\ OrderFrom(b, n, i + 1, at)
    BY <2>3
  <2> HIDE DEF b
  <2>5. \A t \in EntriesOf(b, n) : at[t] \in Nat
    BY <2>4
  <2>6. Fine(PercolateDown(b, n, i, at), i)
    BY <2>1, <2>4, <2>5, SinkStep
  <2> QED
    BY <2>1, <2>2, <2>6 DEF b
<1>5. 0 \in Good
  <2>1. top \in Nat
    BY <1>2
  <2> HIDE DEF Good, top
  <2>2. 0..top \subseteq Good
    BY <1>3, <1>4, <2>1, DownwardInduction
  <2> QED
    BY <2>1, <2>2
<1> QED
  BY <1>1, <1>5

-----------------------------------------------------------------------------
(* The invariant.                                                          *)

\* The places of the array are numbered from 0.
ArrayInv == capacity \in Nat /\ DOMAIN array = 0..(capacity - 1)

\* The timer that is called stays on top until it is popped: what its
\* callback adds is not due before it.
CallInv == pc = "callback" => /\ cur_size > 0
                              /\ called = array[0] /\ called \in Timer
                              /\ expire[called] <= cur

IInv == /\ TypeOK /\ ArrayInv
        /\ HeapOrder /\ EntriesLive /\ RoomUnlessNone /\ CallInv

(* No timer in the heap expires before the one on top.                     *)
LEMMA TopIsEarliest ==
    ASSUME IInv, cur_size > 0
    PROVE  /\ array[0] \in Entries
           /\ \A t \in Entries : t \in Timer /\ expire[array[0]] <= expire[t]
<1>1. cur_size \in Nat /\ expire \in [Timer -> Nat]
  BY DEF IInv, TypeOK, ArrayInv
<1>2. \A i \in 0..(cur_size - 1) : array[i] \in Timer
  <2> TAKE i \in 0..(cur_size - 1)
  <2>1. array[i] \in Entries /\ NULL \notin Entries
    BY DEF Entries, IInv, TypeOK
  <2>2. i \in DOMAIN array
    BY <1>1 DEF IInv, TypeOK, ArrayInv
  <2>3. array[i] \in Timer \cup {NULL}
    BY <2>2 DEF IInv, TypeOK
  <2> QED
    BY <2>1, <2>3
<1> DEFINE v == [i \in 0..(cur_size - 1) |-> expire[array[i]]]
           Good == {i \in 0..(cur_size - 1) : \A j \in 0..i : v[0] <= v[j]}
<1>3. \A i \in 0..(cur_size - 1) : v[i] \in Nat
  BY <1>1, <1>2
<1>4. \A i \in 1..(cur_size - 1) :
         Parent(i) \in 0..(i - 1) /\ v[Parent(i)] <= v[i]
  <2> TAKE i \in 1..(cur_size - 1)
  <2>1. Parent(i) \in 0..(i - 1)
    BY <1>1, ParentOf
  <2>2. Parent(i) \in 0..(cur_size - 1) /\ i \in 0..(cur_size - 1)
    BY <1>1, <2>1
  <2>3. expire[array[Parent(i)]] <= expire[array[i]]
    BY DEF IInv, HeapOrder
  <2> QED
    BY <2>1, <2>2, <2>3
<1> HIDE DEF v
<1>5. 0 \in Good
  <2>1. 0 \in 0..(cur_size - 1) /\ 0..0 = {0}
    BY <1>1
  <2> QED
    BY <1>3, <2>1
<1>6. ASSUME NEW i \in 1..(cur_size - 1), i - 1 \in Good PROVE i \in Good
  <2>1. \A j \in 0..(i - 1) : v[0] <= v[j]
    BY <1>6
  <2>2. v[0] <= v[Parent(i)] /\ v[Parent(i)] <= v[i]
    BY <1>4, <2>1
  <2>3. Parent(i) \in 0..(cur_size - 1) /\ i \in 0..(cur_size - 1) /\ 0 \in 0..(cur_size - 1)
    BY <1>1, <1>4
  <2>4. v[0] <= v[i]
    BY <1>3, <2>2, <2>3
  <2>5. \A j \in 0..i : j = i \/ j \in 0..(i - 1)
    OBVIOUS
  <2> QED
    BY <2>1, <2>3, <2>4, <2>5
<1>7. 0..(cur_size - 1) \subseteq Good
  <2>1. cur_size - 1 \in Nat
    BY <1>1
  <2> HIDE DEF Good
  <2> QED
    BY <1>5, <1>6, <2>1, IntervalInduction
<1>8. \A i \in 0..(cur_size - 1) : v[0] <= v[i]
  <2> TAKE i \in 0..(cur_size - 1)
  <2>1. i \in Good
    <3> HIDE DEF Good
    <3> QED
      BY <1>7
  <2>2. i \in 0..i
    BY <1>1
  <2> QED
    BY <2>1, <2>2
<1>9. 0 \in 0..(cur_size - 1)
  BY <1>1
<1> QED
  BY <1>2, <1>8, <1>9 DEF v, Entries

(* resize keeps the entries and leaves an array of a known shape.          *)
LEMMA RoomIs ==
    ASSUME IInv
    PROVE  \E c \in Nat :
              /\ Room \in [0..(c - 1) -> Timer \cup {NULL}]
              /\ \A i \in 0..(cur_size - 1) : i \in 0..(c - 1) /\ Room[i] = array[i]
              /\ cur_size <= c
              /\ cur_size \notin DOMAIN Room => capacity = 0 /\ cur_size = 0
<1>1. /\ capacity \in Nat /\ DOMAIN array = 0..(capacity - 1)
      /\ cur_size \in 0..capacity
      /\ array \in [0..(capacity - 1) -> Timer \cup {NULL}]
  BY DEF IInv, TypeOK, ArrayInv
<1> HIDE DEF capacity
<1>2. CASE cur_size >= capacity
  <2>1. Room = [i \in 0..(2 * capacity - 1) |-> IF i < cur_size THEN array[i] ELSE NULL]
    BY <1>2 DEF Room
  <2>2. cur_size = capacity /\ 2 * capacity \in Nat
    BY <1>1, <1>2
  <2>3. \A i \in 0..(2 * capacity - 1) :
           (IF i < cur_size THEN array[i] ELSE NULL) \in Timer \cup {NULL}
    BY <1>1, <2>2
  <2>4. Room \in [0..(2 * capacity - 1) -> Timer \cup {NULL}]
    BY <2>1, <2>3
  <2>5. \A i \in 0..(cur_size - 1) : i \in 0..(2 * capacity - 1) /\ i < cur_size
    BY <1>1, <2>2
  <2>6. \A i \in 0..(cur_size - 1) : i \in 0..(2 * capacity - 1) /\ Room[i] = array[i]
    BY <2>1, <2>5
  <2>7. cur_size \notin DOMAIN Room => capacity = 0 /\ cur_size = 0
    BY <1>1, <2>1, <2>2
  <2>8. cur_size <= 2 * capacity
    BY <1>1, <2>2
  <2> QED
    BY <2>2, <2>4, <2>6, <2>7, <2>8
<1>3. CASE ~(cur_size >= capacity)
  <2>1. Room = array
    BY <1>3 DEF Room
  <2>2. cur_size \in 0..(capacity - 1) /\ \A i \in 0..(cur_size - 1) : i \in 0..(capacity - 1)
    BY <1>1, <1>3
  <2> QED
    BY <1>1, <2>1, <2>2
<1> QED
  BY <1>2, <1>3

-----------------------------------------------------------------------------
(* The first states.                                                       *)

LEMMA InitInv == Init => IInv
<1> SUFFICES ASSUME Init PROVE IInv
  OBVIOUS
<1> DEFINE n == cur_size
<1>1. PICK cap \in Capacity, S \in SUBSET Timer :
        /\ Cardinality(S) <= cap
        /\ expire \in {[t \in Timer |-> IF t \in S THEN e[t] ELSE 0] : e \in [Timer -> Delay]}
        /\ cb_func = S /\ made = S
        /\ cur_size = Cardinality(S)
        /\ \E init_array \in SetToSeqs(S) :
              LET a == [i \in 0..(cap - 1) |-> IF i < cur_size THEN init_array[i + 1] ELSE NULL]
              IN  array = IF S = {} THEN a ELSE Heapify(a, cur_size, expire)
        /\ clock = 0 /\ cur = 0 /\ pc = "idle"
        /\ freed = {} /\ called = NULL
  BY DEF Init
<1>2. PICK init_array \in SetToSeqs(S) :
         array = LET a == [i \in 0..(cap - 1) |-> IF i < n THEN init_array[i + 1] ELSE NULL]
                 IN  IF S = {} THEN a ELSE Heapify(a, n, expire)
  BY <1>1
<1> DEFINE a == [i \in 0..(cap - 1) |-> IF i < n THEN init_array[i + 1] ELSE NULL]
           V == Timer \cup {NULL}
           D == 0..(cap - 1)
<1>3. array = IF S = {} THEN a ELSE Heapify(a, n, expire)
  BY <1>2
<1>4. /\ IsFiniteSet(S) /\ n = Cardinality(S) /\ n \in Nat /\ cap \in Nat /\ n <= cap
      /\ (n = 0 <=> S = {}) /\ NULL \notin S /\ S \subseteq Timer
  BY <1>1, TimerAssumption, FS_Subset, FS_CardinalityType, FS_EmptySet
<1>5. expire \in [Timer -> Nat]
  <2>1. PICK e \in [Timer -> Delay] : expire = [t \in Timer |-> IF t \in S THEN e[t] ELSE 0]
    BY <1>1
  <2>2. \A t \in Timer : e[t] \in Nat
    BY TimerAssumption
  <2> QED
    BY <2>1, <2>2
<1> HIDE DEF n
<1>6. /\ init_array \in [1..n -> S]
      /\ \A i, j \in 1..n : i # j => init_array[i] # init_array[j]
  BY <1>4 DEF SetToSeqs
<1>7. {init_array[i] : i \in 1..n} = S
  <2>1. IsFiniteSet(1..n) /\ Cardinality(1..n) = n
    BY <1>4, FS_Interval
  <2>2. init_array \in Injection(1..n, S)
    BY <1>6 DEF Injection, IsInjective
  <2>3. init_array \in Surjection(1..n, S)
    BY <1>4, <2>1, <2>2, FS_Injection
  <2> QED
    BY <1>6, <2>3 DEF Surjection
<1>8. \A i \in 0..(n - 1) : i \in D /\ a[i] = init_array[i + 1] /\ i + 1 \in 1..n
  BY <1>4
<1>9. EntriesOf(a, n) = S
  <2>1. \A i \in 0..(n - 1) : a[i] \in S
    BY <1>6, <1>8
  <2>2. ASSUME NEW t \in S PROVE \E i \in 0..(n - 1) : a[i] = t
    <3>1. PICK k \in 1..n : init_array[k] = t
      BY <1>7
    <3>2. k - 1 \in 0..(n - 1) /\ (k - 1) + 1 = k
      BY <1>4
    <3> QED
      BY <1>8, <3>1, <3>2
  <2> HIDE DEF a
  <2> QED
    BY <2>1, <2>2 DEF EntriesOf
<1>10. a \in [D -> V]
  <2>1. \A i \in D : i < n => i + 1 \in 1..n
    BY <1>4
  <2>2. \A i \in D : (IF i < n THEN init_array[i + 1] ELSE NULL) \in V
    BY <1>4, <1>6, <2>1
  <2> HIDE DEF D, V
  <2> QED
    BY <2>2 DEF D
<1> HIDE DEF a
<1>11. array \in [D -> V] /\ EntriesOf(array, n) = S /\ OrderFrom(array, n, 0, expire)
  <2>1. CASE S = {}
    <3>1. OrderFrom(a, n, 0, expire)
      BY <1>4, <2>1 DEF OrderFrom
    <3> QED
      BY <1>3, <1>9, <1>10, <2>1, <3>1
  <2>2. CASE S # {}
    <3>1. array = Heapify(a, n, expire) /\ n \in Nat \ {0} /\ 0..(n - 1) \subseteq D
      BY <1>3, <1>4, <2>2
    <3>2. \A t \in EntriesOf(a, n) : expire[t] \in Nat
      BY <1>4, <1>5, <1>9
    <3> HIDE DEF D, V
    <3> QED
      BY <1>9, <1>10, <3>1, <3>2, HeapifyOrders
  <2> QED
    BY <2>1, <2>2
<1>12. ArrayInv /\ capacity = cap
  <2>1. DOMAIN array = D
    BY <1>11
  <2>2. Cardinality(D) = cap
    BY <1>4, FS_Interval
  <2> QED
    BY <1>4, <2>1, <2>2 DEF ArrayInv, capacity
<1>13. Entries = S
  BY <1>11 DEF Entries, EntriesOf, n
<1>14. HeapOrder
  <2>1. \A i \in 1..(n - 1) : Parent(i) >= 0
    BY <1>4, ParentOf
  <2> QED
    BY <1>11, <2>1 DEF HeapOrder, OrderFrom, n
<1>15. EntriesLive /\ RoomUnlessNone /\ CallInv
  BY <1>1, <1>13 DEF EntriesLive, RoomUnlessNone, CallInv
<1>16. TypeOK
  <2>1. array \in [DOMAIN array -> Timer \cup {NULL}]
    BY <1>11
  <2>2. cur_size \in 0..capacity
    BY <1>4, <1>12 DEF n
  <2>3. clock \in 0..MaxTime /\ cur \in 0..clock
    BY <1>1, TimerAssumption
  <2> QED
    BY <1>1, <1>4, <1>5, <1>13, <2>1, <2>2, <2>3 DEF TypeOK
<1> QED
  BY <1>12, <1>14, <1>15, <1>16 DEF IInv

-----------------------------------------------------------------------------
(* The steps that move timers.                                             *)

(* What IInv says of the array, for use outside it.                        *)
LEMMA ArrayIs ==
    ASSUME IInv
    PROVE  /\ capacity \in Nat /\ DOMAIN array = 0..(capacity - 1)
           /\ array \in [0..(capacity - 1) -> Timer \cup {NULL}]
           /\ cur_size \in Nat /\ cur_size <= capacity
           /\ 0..(cur_size - 1) \subseteq 0..(capacity - 1)
           /\ expire \in [Timer -> Nat]
           /\ Entries = EntriesOf(array, cur_size) /\ Entries \subseteq Timer
           /\ \A i \in 0..(cur_size - 1) : array[i] \in Entries
           /\ made \subseteq Timer /\ freed \subseteq made /\ IsFiniteSet(made)
<1>1. /\ capacity \in Nat /\ DOMAIN array = 0..(capacity - 1)
      /\ array \in [0..(capacity - 1) -> Timer \cup {NULL}]
      /\ cur_size \in 0..capacity /\ NULL \notin Entries
      /\ expire \in [Timer -> Nat]
      /\ made \subseteq Timer /\ freed \subseteq made
  BY DEF IInv, TypeOK, ArrayInv
<1> HIDE DEF capacity
<1>2. cur_size \in Nat /\ cur_size <= capacity /\ 0..(cur_size - 1) \subseteq 0..(capacity - 1)
  BY <1>1
<1>3. \A i \in 0..(cur_size - 1) : array[i] \in Entries
  BY DEF Entries
<1>4. \A i \in 0..(cur_size - 1) : array[i] \in Timer
  BY <1>1, <1>2, <1>3
<1>5. Entries \subseteq Timer /\ Entries = EntriesOf(array, cur_size)
  BY <1>4 DEF Entries, EntriesOf
<1>6. IsFiniteSet(made)
  BY <1>1, TimerAssumption, FS_Subset
<1> QED
  BY <1>1, <1>2, <1>3, <1>5, <1>6

(* pop_timer takes the top out of the entries and nothing else.            *)
LEMMA PopIs ==
    ASSUME IInv, pc # "overrun", cur_size > 0, Pop
    PROVE  /\ array' \in [0..(capacity - 1) -> Timer \cup {NULL}]
           /\ EntriesOf(array', cur_size - 1) = EntriesOf(array, cur_size) \ {array[0]}
           /\ OrderFrom(array', cur_size - 1, 0, expire)
           /\ Cardinality(EntriesOf(array', cur_size - 1)) = cur_size - 1
<1> DEFINE n == cur_size
           m == n - 1
           a == [array EXCEPT ![0] = array[m]]
           D == 0..(capacity - 1)
           V == Timer \cup {NULL}
<1>1. /\ capacity \in Nat /\ array \in [D -> V]
      /\ n \in Nat /\ n > 0 /\ n <= capacity /\ 0..(n - 1) \subseteq D
      /\ expire \in [Timer -> Nat]
      /\ \A i \in 0..(n - 1) : array[i] \in Timer
  BY ArrayIs
<1>2. Cardinality(EntriesOf(array, n)) = n
  BY ArrayIs DEF IInv, EntriesLive
<1>3. \A i \in 1..(n - 1) : expire[array[Parent(i)]] <= expire[array[i]]
  BY DEF IInv, HeapOrder
<1>4. array' = PercolateDown(a, m, 0, expire)
  BY DEF Pop
<1> HIDE DEF n, D, capacity
<1>5. m \in Nat /\ m \in 0..(n - 1) /\ 0 \in 0..(n - 1) /\ 0 \in 0..m
      /\ 0..(m - 1) \subseteq 0..(n - 1) /\ 0..(m - 1) \subseteq D
  BY <1>1
<1>6. \A i \in 0..(m - 1) : a[i] = IF i = 0 THEN array[m] ELSE array[i]
  BY <1>1, <1>5
<1>7. a \in [D -> V]
  BY <1>1, <1>5
<1>8. EntriesOf(a, m) = {array[i] : i \in 1..m}
  <2>1. \A i \in 0..(m - 1) : \E j \in 1..m : a[i] = array[j]
    <3> TAKE i \in 0..(m - 1)
    <3>1. CASE i = 0
      BY <1>5, <1>6, <3>1
    <3>2. CASE i # 0
      <4>1. i \in 1..m
        BY <1>5, <3>2
      <4> QED
        BY <1>6, <3>2, <4>1
    <3> QED
      BY <3>1, <3>2
  <2>2. \A j \in 1..m : \E i \in 0..(m - 1) : a[i] = array[j]
    <3> TAKE j \in 1..m
    <3>1. CASE j = m
      BY <1>5, <1>6, <3>1
    <3>2. CASE j # m
      <4>1. j \in 0..(m - 1) /\ j # 0
        BY <1>5, <3>2
      <4> QED
        BY <1>6, <4>1
    <3> QED
      BY <3>1, <3>2
  <2> HIDE DEF a, m
  <2> QED
    BY <2>1, <2>2 DEF EntriesOf
<1> DEFINE R == {array[i] : i \in 1..m}
<1>9. IsFiniteSet(R) /\ Cardinality(R) \in Nat /\ Cardinality(R) <= m
  <2> DEFINE f == [i \in 1..m |-> array[i]]
  <2>1. IsFiniteSet(1..m) /\ Cardinality(1..m) = m
    BY <1>5, FS_Interval
  <2>2. f \in Surjection(1..m, R)
    BY DEF Surjection
  <2> HIDE DEF f, R, m
  <2> QED
    BY <2>1, <2>2, FS_Surjection, FS_CardinalityType
<1>10. EntriesOf(array, n) = R \cup {array[0]}
  <2>1. \A i \in 0..(n - 1) : i = 0 \/ i \in 1..m
    BY <1>1
  <2>2. \A i \in 1..m : i \in 0..(n - 1)
    BY <1>1
  <2> HIDE DEF m
  <2> QED
    BY <1>5, <2>1, <2>2 DEF EntriesOf
<1>11. array[0] \notin R /\ Cardinality(R) = m
  <2>1. Cardinality(R \cup {array[0]}) = IF array[0] \in R THEN Cardinality(R) ELSE Cardinality(R) + 1
    BY <1>9, FS_AddElement
  <2>2. Cardinality(R \cup {array[0]}) = n
    BY <1>2, <1>10
  <2> HIDE DEF R
  <2> QED
    BY <1>1, <1>9, <2>1, <2>2
<1>12. R = EntriesOf(array, n) \ {array[0]}
  BY <1>10, <1>11
<1>13. /\ array' \in [D -> V] /\ EntriesOf(array', m) = EntriesOf(a, m)
       /\ OrderFrom(array', m, 0, expire)
  <2>1. CASE m = 0
    <3>1. 0 \in D
      BY <1>1, <1>5
    <3>2. array' \in [D -> V]
      <4> HIDE DEF a, m, V
      <4> QED
        BY <1>4, <1>5, <1>7, <3>1, PercolateType
    <3>3. 0..(m - 1) = {} /\ 1..(m - 1) = {}
      BY <2>1
    <3> HIDE DEF m, a
    <3> QED
      BY <3>2, <3>3 DEF EntriesOf, OrderFrom
  <2>2. CASE m # 0
    <3>1. 0 \in 0..(m - 1)
      <4> HIDE DEF m
      <4> QED
        BY <1>5, <2>2
    <3>2. \A t \in EntriesOf(a, m) : expire[t] \in Nat
      <4>1. \A i \in 1..m : array[i] \in Timer
        BY <1>1
      <4> HIDE DEF a, m
      <4> QED
        BY <1>1, <1>8, <4>1
    <3>3. OrderFrom(a, m, 0 + 1, expire)
      <4> SUFFICES ASSUME NEW i \in 1..(m - 1), Parent(i) >= 1
                   PROVE  expire[a[Parent(i)]] <= expire[a[i]]
        BY DEF OrderFrom
      <4>1. Parent(i) \in 0..(m - 1) /\ Parent(i) # 0 /\ i \in 0..(m - 1) /\ i # 0
        BY <1>5, ParentOf
      <4>2. a[Parent(i)] = array[Parent(i)] /\ a[i] = array[i]
        BY <1>6, <4>1
      <4>3. i \in 1..(n - 1)
        BY <1>1
      <4> QED
        BY <1>3, <4>2, <4>3
    <3> HIDE DEF a, m, V
    <3> QED
      BY <1>4, <1>5, <1>7, <3>1, <3>2, <3>3, SinkStep
  <2> QED
    BY <2>1, <2>2
<1> QED
  BY <1>8, <1>11, <1>12, <1>13 DEF n, D

(* A timer that is added comes in, and takes the top only if it expires    *)
(* first.                                                                  *)
LEMMA AddIs ==
    ASSUME IInv, NEW t \in Timer, NEW e \in Nat, t \notin Entries,
           cur_size \in DOMAIN Room
    PROVE  LET new == Shift(Room, Rise(Room, cur_size, e, expire), cur_size, t)
               at  == [expire EXCEPT ![t] = e]
           IN  /\ \E c \in Nat : /\ new \in [0..(c - 1) -> Timer \cup {NULL}]
                                 /\ cur_size + 1 <= c
               /\ EntriesOf(new, cur_size + 1) = Entries \cup {t}
               /\ OrderFrom(new, cur_size + 1, 0, at)
               /\ cur_size > 0 /\ expire[array[0]] <= e => new[0] = array[0]
<1> DEFINE n == cur_size
           a == Room
           at == [expire EXCEPT ![t] = e]
           V == Timer \cup {NULL}
           next == Rise(a, n, e, expire)
           new == Shift(a, next, n, t)
<1>1. /\ n \in Nat /\ expire \in [Timer -> Nat]
      /\ Entries = EntriesOf(array, n) /\ Entries \subseteq Timer
      /\ \A i \in 0..(n - 1) : array[i] \in Entries
  BY ArrayIs
<1>2. PICK c \in Nat :
              /\ a \in [0..(c - 1) -> V]
              /\ \A i \in 0..(n - 1) : i \in 0..(c - 1) /\ a[i] = array[i]
  BY RoomIs
<1>3. \A i \in 1..(n - 1) : expire[array[Parent(i)]] <= expire[array[i]]
  BY DEF IInv, HeapOrder
<1>4. n \in DOMAIN a
  OBVIOUS
<1> HIDE DEF n, a
<1> DEFINE D == 0..(c - 1)
<1>5. 0..n \subseteq D /\ n + 1 <= c
  BY <1>1, <1>2, <1>4
<1>6. at \in [Timer -> Nat] /\ at[t] = e /\ \A u \in Timer : u # t => at[u] = expire[u]
  BY <1>1
<1> HIDE DEF at
<1>7. \A i \in 0..(n - 1) : /\ a[i] \in Timer /\ a[i] = array[i]
                            /\ at[a[i]] = expire[array[i]] /\ at[a[i]] = expire[a[i]]
                            /\ at[a[i]] \in Nat
  BY <1>1, <1>2, <1>6
<1>8. \A i \in 1..n : Parent(i) \in 0..(n - 1)
  BY <1>1, ParentOf
<1>9. \A i \in 1..(n - 1) : at[a[Parent(i)]] <= at[a[i]]
  <2> TAKE i \in 1..(n - 1)
  <2>1. i \in 0..(n - 1) /\ Parent(i) \in 0..(n - 1)
    BY <1>1, <1>8
  <2> QED
    BY <1>3, <1>7, <2>1
<1>10. next = Rise(a, n, at[t], at)
  <2>1. \A h \in 0..n : h # 0 => at[a[Parent(h)]] = expire[a[Parent(h)]]
    <3> TAKE h \in 0..n
    <3>1. h # 0 => Parent(h) \in 0..(n - 1)
      BY <1>1, <1>8
    <3> QED
      BY <1>7, <3>1
  <2>2. \A h \in 0..n : (IF h = 0 \/ expire[a[Parent(h)]] <= e THEN h ELSE Parent(h))
                      = (IF h = 0 \/ at[a[Parent(h)]] <= at[t] THEN h ELSE Parent(h))
    BY <1>6, <2>1
  <2> QED
    BY <2>2 DEF Rise
<1>11. new = Shift(a, Rise(a, n, at[t], at), n, t)
  BY <1>10
<1>12. 0..n \subseteq DOMAIN a /\ at[t] \in Nat
  BY <1>2, <1>5, <1>6
<1> DEFINE new2 == Shift(a, Rise(a, n, at[t], at), n, t)
<1>13. /\ EntriesOf(new2, n + 1) = EntriesOf(a, n) \cup {t}
       /\ \A i \in 1..n : at[new2[Parent(i)]] <= at[new2[i]]
       /\ n > 0 /\ at[a[0]] <= at[t] => new2[0] = a[0]
  BY <1>1, <1>7, <1>9, <1>12, HoleRises
<1>14. new2 \in [D -> V]
  <2> DEFINE nx == Rise(a, n, at[t], at)
  <2>1. GoodWay(nx, n, 0..n)
    BY <1>1, WayUp
  <2>2. Way(nx, n) \subseteq D /\ \A i \in Way(nx, n) : nx[i] \in Way(nx, n)
    <3> HIDE DEF nx, D
    <3> QED
      BY <1>5, <2>1 DEF GoodWay
  <2>3. t \in V
    OBVIOUS
  <2> HIDE DEF nx, D, V
  <2>4. Shift(a, nx, n, t) \in [D -> V]
    BY <1>2, <2>2, <2>3, ShiftType DEF D
  <2> QED
    BY <2>4 DEF nx
<1>15. EntriesOf(a, n) = Entries
  BY <1>1, <1>2 DEF EntriesOf
<1> HIDE DEF new2, next
<1>16. OrderFrom(new2, n + 1, 0, at)
  <2>1. 1..((n + 1) - 1) = 1..n
    BY <1>1
  <2> QED
    BY <1>13, <2>1 DEF OrderFrom
<1>17. n > 0 /\ expire[array[0]] <= e => new2[0] = array[0]
  <2>1. n > 0 => 0 \in 0..(n - 1)
    BY <1>1
  <2> QED
    BY <1>6, <1>7, <1>13, <2>1
<1>18. new = new2
  BY <1>11 DEF new2
<1> HIDE DEF new
<1> QED
  BY <1>5, <1>13, <1>14, <1>15, <1>16, <1>17, <1>18 DEF new, n, a, at, next

-----------------------------------------------------------------------------
(* Every step keeps the invariant.                                         *)

LEMMA ArrayAfter ==
    ASSUME NEW c \in Nat, array' \in [0..(c - 1) -> Timer \cup {NULL}]
    PROVE  capacity' = c /\ ArrayInv' /\ array' \in [DOMAIN array' -> Timer \cup {NULL}]
<1>1. DOMAIN array' = 0..(c - 1)
  OBVIOUS
<1>2. Cardinality(0..(c - 1)) = c
  BY FS_Interval
<1> QED
  BY <1>1, <1>2 DEF ArrayInv, capacity

LEMMA AddKeepsInv ==
    ASSUME IInv, NEW t \in Timer, NEW d \in Delay, AddTimer(t, d)
    PROVE  IInv'
<1> DEFINE e == clock + d
<1>1. /\ pc \in {"idle", "callback"} /\ t \notin made
      /\ made' = made \cup {t} /\ expire' = [expire EXCEPT ![t] = e]
      /\ cb_func' = cb_func \cup {t}
      /\ clock' = clock /\ cur' = cur /\ freed' = freed /\ called' = called
  BY DEF AddTimer, User
<1>2. /\ capacity \in Nat /\ DOMAIN array = 0..(capacity - 1)
      /\ cur_size \in Nat /\ cur_size <= capacity
      /\ expire \in [Timer -> Nat]
      /\ Entries = EntriesOf(array, cur_size) /\ Entries \subseteq Timer
      /\ \A i \in 0..(cur_size - 1) : array[i] \in Entries
      /\ made \subseteq Timer /\ freed \subseteq made /\ IsFiniteSet(made)
  BY ArrayIs
<1>3. /\ clock \in 0..MaxTime /\ cur \in 0..clock /\ cb_func \subseteq made \ freed
      /\ called \in Timer \cup {NULL}
      /\ array \in [DOMAIN array -> Timer \cup {NULL}]
      /\ cur_size \in 0..capacity /\ NULL \notin Entries
  BY DEF IInv, TypeOK
<1>4. Entries = made \ freed /\ Cardinality(Entries) = cur_size
  BY <1>1 DEF IInv, EntriesLive
<1>5. e \in Nat /\ clock <= e /\ t \notin Entries
  BY <1>1, <1>3, <1>4, TimerAssumption
<1>6. /\ made' \subseteq Timer /\ freed' \subseteq made' /\ cb_func' \subseteq made' \ freed'
      /\ clock' \in 0..MaxTime /\ cur' \in 0..clock' /\ called' \in Timer \cup {NULL}
  BY <1>1, <1>2, <1>3
<1>7. expire' \in [Timer -> Nat] /\ expire'[t] = e /\ \A u \in Timer : u # t => expire'[u] = expire[u]
  BY <1>1, <1>2, <1>5
<1>8. CASE cur_size \in DOMAIN Room
  <2>1. /\ array' = Shift(Room, Rise(Room, cur_size, e, expire), cur_size, t)
        /\ cur_size' = cur_size + 1 /\ pc' = pc
    BY <1>8 DEF AddTimer
  <2>2. /\ \E c \in Nat : array' \in [0..(c - 1) -> Timer \cup {NULL}] /\ cur_size + 1 <= c
        /\ EntriesOf(array', cur_size + 1) = Entries \cup {t}
        /\ OrderFrom(array', cur_size + 1, 0, expire')
        /\ cur_size > 0 /\ expire[array[0]] <= e => array'[0] = array[0]
    <3> HIDE DEF e
    <3> QED
      BY <1>1, <1>5, <1>8, <2>1, AddIs
  <2>3. PICK c \in Nat : array' \in [0..(c - 1) -> Timer \cup {NULL}] /\ cur_size + 1 <= c
    BY <2>2
  <2>4. ArrayInv' /\ capacity' = c /\ array' \in [DOMAIN array' -> Timer \cup {NULL}]
    BY <2>3, ArrayAfter
  <2>5. Entries' = Entries \cup {t}
    BY <2>1, <2>2 DEF Entries, EntriesOf
  <2>6. TypeOK'
    <3>1. cur_size' \in 0..capacity'
      BY <1>2, <2>1, <2>3, <2>4
    <3>2. NULL \notin Entries'
      BY <1>2, <2>5, TimerAssumption
    <3>3. pc' \in {"idle", "tick", "callback", "overrun"}
      BY <1>1, <2>1
    <3> QED
      BY <1>6, <1>7, <2>4, <3>1, <3>2, <3>3 DEF TypeOK
  <2>7. HeapOrder'
    <3>1. \A i \in 1..((cur_size + 1) - 1) : Parent(i) >= 0
      BY <1>2, ParentOf
    <3> QED
      BY <2>1, <2>2, <3>1 DEF HeapOrder, OrderFrom
  <2>8. EntriesLive'
    <3>1. Entries' = made' \ freed'
      BY <1>1, <1>2, <1>4, <2>5
    <3>2. IsFiniteSet(Entries)
      BY <1>2, <1>4, FS_Subset
    <3>3. Cardinality(Entries \cup {t}) = cur_size + 1
      BY <1>4, <1>5, <3>2, FS_AddElement
    <3> QED
      BY <2>1, <2>5, <3>1, <3>3 DEF EntriesLive
  <2>9. RoomUnlessNone'
    BY <1>1, <2>1 DEF RoomUnlessNone
  <2>10. CallInv'
    <3> SUFFICES ASSUME pc = "callback"
                 PROVE  /\ cur_size' > 0
                        /\ called' = array'[0] /\ called' \in Timer
                        /\ expire'[called'] <= cur'
      BY <2>1 DEF CallInv
    <3>1. cur_size > 0 /\ called = array[0] /\ called \in Timer /\ expire[called] <= cur
      BY DEF IInv, CallInv
    <3>2. expire[array[0]] <= e
      <4>1. expire[called] \in Nat /\ cur <= clock
        BY <1>2, <1>3, <3>1
      <4> QED
        BY <1>3, <1>5, <3>1, <4>1
    <3>3. called # t
      BY <1>2, <1>5, <3>1
    <3> QED
      BY <1>1, <1>2, <1>7, <2>1, <2>2, <3>1, <3>2, <3>3
  <2> QED
    BY <2>4, <2>6, <2>7, <2>8, <2>9, <2>10 DEF IInv
<1>9. CASE cur_size \notin DOMAIN Room
  <2>1. pc' = "overrun" /\ array' = array /\ cur_size' = cur_size
    BY <1>9 DEF AddTimer, heapVars
  <2>2. Entries' = Entries /\ capacity' = capacity
    BY <2>1 DEF Entries, capacity
  <2>3. capacity = 0
    BY <1>9, RoomIs
  <2>4. TypeOK'
    <3>1. /\ array' \in [DOMAIN array' -> Timer \cup {NULL}]
          /\ cur_size' \in 0..capacity' /\ NULL \notin Entries'
          /\ pc' \in {"idle", "tick", "callback", "overrun"}
      BY <1>3, <2>1, <2>2
    <3> QED
      BY <1>6, <1>7, <3>1 DEF TypeOK
  <2>5. ArrayInv'
    BY <1>2, <2>1, <2>2 DEF ArrayInv
  <2>6. HeapOrder'
    <3>1. 1..(cur_size - 1) = {}
      BY <1>2, <2>3
    <3> QED
      BY <2>1, <3>1 DEF HeapOrder
  <2>7. EntriesLive' /\ RoomUnlessNone' /\ CallInv'
    BY <2>1, <2>2, <2>3 DEF EntriesLive, RoomUnlessNone, CallInv
  <2> QED
    BY <2>4, <2>5, <2>6, <2>7 DEF IInv
<1> QED
  BY <1>8, <1>9

LEMMA PopKeepsInv ==
    ASSUME IInv, pc # "overrun", pc' \in {"idle", "tick"}, cur_size > 0, Pop,
           UNCHANGED <<clock, expire, cur, made, called>>
    PROVE  /\ IInv'
           /\ array[0] \in Entries
           /\ freed' = freed \cup {array[0]} /\ cb_func' = cb_func \ {array[0]}
<1> DEFINE t == array[0]
<1>1. /\ cur_size' = cur_size - 1 /\ cb_func' = cb_func \ {t} /\ freed' = freed \cup {t}
      /\ clock' = clock /\ expire' = expire /\ cur' = cur /\ made' = made /\ called' = called
  BY DEF Pop
<1>2. /\ array' \in [0..(capacity - 1) -> Timer \cup {NULL}]
      /\ EntriesOf(array', cur_size - 1) = EntriesOf(array, cur_size) \ {t}
      /\ OrderFrom(array', cur_size - 1, 0, expire)
      /\ Cardinality(EntriesOf(array', cur_size - 1)) = cur_size - 1
  BY PopIs
<1>3. /\ capacity \in Nat /\ cur_size \in Nat /\ cur_size <= capacity
      /\ expire \in [Timer -> Nat]
      /\ Entries = EntriesOf(array, cur_size) /\ Entries \subseteq Timer
      /\ made \subseteq Timer /\ freed \subseteq made
  BY ArrayIs
<1>4. Entries = made \ freed
  BY DEF IInv, EntriesLive
<1>5. t \in Entries
  BY TopIsEarliest
<1> HIDE DEF t
<1>6. ArrayInv' /\ capacity' = capacity /\ array' \in [DOMAIN array' -> Timer \cup {NULL}]
  BY <1>2, <1>3, ArrayAfter
<1>7. Entries' = Entries \ {t} /\ Cardinality(Entries') = cur_size'
  <2>1. Entries' = EntriesOf(array', cur_size - 1)
    BY <1>1 DEF Entries, EntriesOf
  <2> QED
    BY <1>1, <1>2, <1>3, <2>1
<1>8. TypeOK'
  <2>1. cur_size' \in 0..capacity' /\ NULL \notin Entries'
    BY <1>1, <1>3, <1>6, <1>7, TimerAssumption
  <2>2. freed' \subseteq made' /\ made' \subseteq Timer /\ cb_func' \subseteq made' \ freed'
    BY <1>1, <1>3, <1>4, <1>5 DEF IInv, TypeOK
  <2>3. /\ clock' \in 0..MaxTime /\ cur' \in 0..clock' /\ expire' \in [Timer -> Nat]
        /\ called' \in Timer \cup {NULL} /\ pc' \in {"idle", "tick", "callback", "overrun"}
    BY <1>1, <1>3 DEF IInv, TypeOK
  <2> QED
    BY <1>6, <2>1, <2>2, <2>3 DEF TypeOK
<1>9. HeapOrder'
  <2>1. \A i \in 1..((cur_size - 1) - 1) : Parent(i) >= 0
    BY <1>3, ParentOf
  <2> QED
    BY <1>1, <1>2, <2>1 DEF HeapOrder, OrderFrom
<1>10. EntriesLive'
  BY <1>1, <1>4, <1>7 DEF EntriesLive
<1>11. RoomUnlessNone' /\ CallInv'
  BY DEF RoomUnlessNone, CallInv
<1> QED
  BY <1>1, <1>5, <1>6, <1>8, <1>9, <1>10, <1>11 DEF IInv, t

LEMMA NextInv == IInv /\ [Next]_vars => IInv'
<1> SUFFICES ASSUME IInv, [Next]_vars PROVE IInv'
  OBVIOUS
<1> USE DEF timerVars, heapVars, histVars
<1>1. CASE Second
  <2>1. clock + 1 \in 0..MaxTime /\ cur \in 0..(clock + 1)
    BY <1>1, TimerAssumption DEF Second, IInv, TypeOK
  <2>2. UNCHANGED <<timerVars, heapVars, pc, cur, histVars>> /\ clock' = clock + 1
    BY <1>1 DEF Second
  <2>3. Entries' = Entries /\ capacity' = capacity
    BY <2>2 DEF Entries, capacity
  <2>4. TypeOK'
    BY <2>1, <2>2, <2>3 DEF IInv, TypeOK
  <2>5. ArrayInv' /\ HeapOrder' /\ EntriesLive' /\ RoomUnlessNone' /\ CallInv'
    BY <2>2, <2>3 DEF IInv, ArrayInv, HeapOrder, EntriesLive, RoomUnlessNone, CallInv
  <2> QED
    BY <2>4, <2>5 DEF IInv
<1>2. CASE PopTimer
  BY <1>2, PopKeepsInv DEF PopTimer
<1>3. CASE Tick \/ Return \/ Call
  <2>1. /\ UNCHANGED <<clock, timerVars, heapVars, made, freed>>
        /\ pc' \in {"idle", "tick", "callback"} /\ pc \in {"idle", "tick"}
    BY <1>3 DEF Tick, Return, Call
  <2>2. Entries' = Entries /\ capacity' = capacity
    BY <2>1 DEF Entries, capacity
  <2>3. Call => cur_size > 0 /\ array[0] \in Timer /\ expire[array[0]] <= cur
    <3> SUFFICES ASSUME Call PROVE cur_size > 0 /\ array[0] \in Timer /\ expire[array[0]] <= cur
      OBVIOUS
    <3>1. cur_size > 0 /\ ~(expire[array[0]] > cur)
      BY DEF Call, Later
    <3>2. array[0] \in Timer /\ expire[array[0]] \in Nat /\ cur \in Nat
      BY <3>1, TopIsEarliest, ArrayIs DEF IInv, TypeOK
    <3> QED
      BY <3>1, <3>2
  <2>4. TypeOK'
    <3>1. cur' \in 0..clock /\ called' \in Timer \cup {NULL}
      BY <1>3, <2>3 DEF Tick, Return, Call, IInv, TypeOK
    <3> QED
      BY <2>1, <2>2, <3>1 DEF IInv, TypeOK
  <2>5. ArrayInv' /\ HeapOrder' /\ EntriesLive' /\ RoomUnlessNone'
    BY <2>1, <2>2 DEF IInv, ArrayInv, HeapOrder, EntriesLive, RoomUnlessNone
  <2>6. CallInv'
    BY <1>3, <2>1, <2>3 DEF Tick, Return, Call, CallInv
  <2> QED
    BY <2>4, <2>5, <2>6 DEF IInv
<1>4. CASE PopDue
  <2>1. pc \in {"tick", "callback"} /\ pc' = "tick" /\ Pop
    BY <1>4 DEF PopDue
  <2>2. cur_size > 0
    BY <1>4 DEF PopDue, Later, IInv, CallInv
  <2> QED
    BY <1>4, <2>1, <2>2, PopKeepsInv DEF PopDue
<1>5. ASSUME NEW t \in Timer, DelTimer(t) PROVE IInv'
  <2>1. UNCHANGED <<clock, expire, heapVars, pc, cur, histVars>> /\ cb_func' = cb_func \ {t}
    BY <1>5 DEF DelTimer
  <2>2. Entries' = Entries /\ capacity' = capacity
    BY <2>1 DEF Entries, capacity
  <2>3. TypeOK'
    BY <2>1, <2>2 DEF IInv, TypeOK
  <2>4. ArrayInv' /\ HeapOrder' /\ EntriesLive' /\ RoomUnlessNone' /\ CallInv'
    BY <2>1, <2>2 DEF IInv, ArrayInv, HeapOrder, EntriesLive, RoomUnlessNone, CallInv
  <2> QED
    BY <2>3, <2>4 DEF IInv
<1>6. ASSUME NEW t \in Timer, NEW d \in Delay, AddTimer(t, d) PROVE IInv'
  BY <1>6, AddKeepsInv
<1>7. CASE UNCHANGED vars
  <2>1. UNCHANGED <<clock, timerVars, heapVars, pc, cur, histVars>>
    BY <1>7 DEF vars
  <2>2. Entries' = Entries /\ capacity' = capacity
    BY <2>1 DEF Entries, capacity
  <2>3. TypeOK'
    BY <2>1, <2>2 DEF IInv, TypeOK
  <2>4. ArrayInv' /\ HeapOrder' /\ EntriesLive' /\ RoomUnlessNone' /\ CallInv'
    BY <2>1, <2>2 DEF IInv, ArrayInv, HeapOrder, EntriesLive, RoomUnlessNone, CallInv
  <2> QED
    BY <2>3, <2>4 DEF IInv
<1> QED
  BY <1>1, <1>2, <1>3, <1>4, <1>5, <1>6, <1>7 DEF Next

LEMMA Invariance == Spec => []IInv
BY InitInv, NextInv, PTL DEF Spec

-----------------------------------------------------------------------------
(* What follows.                                                           *)

\* The clock, the timers and the heap have their types, whatever callbacks
\* add and delete in the middle of a tick.
THEOREM TypeCorrect == Spec => []TypeOK
BY Invariance, PTL DEF IInv

\* Both loops of src/timer.cc and the constructor leave the array in heap
\* order, whatever its size.
THEOREM HeapKeepsOrder == Spec => []HeapOrder
BY Invariance, PTL DEF IInv

\* They lose no timer and double none.
THEOREM HeapKeepsEntries == Spec => []EntriesLive
BY Invariance, PTL DEF IInv

\* add_timer writes beyond the array only in a heap that was made without any
\* capacity.
THEOREM RoomOnlyLacksAtZero == Spec => []RoomUnlessNone
BY Invariance, PTL DEF IInv

\* tick stops at the first timer that is not due, and then none is.
THEOREM TickIsThorough == Spec => NothingDueIsLeft
<1>1. IInv /\ [Next]_vars =>
         [pc = "tick" /\ pc' = "idle" => \A t \in made \ freed : expire[t] > cur]_vars
  <2> SUFFICES ASSUME IInv, Next, pc = "tick", pc' = "idle", NEW t \in made \ freed
               PROVE  expire[t] > cur
    OBVIOUS
  <2>1. Return
    BY DEF Next, Second, PopTimer, Tick, Call, PopDue, DelTimer, AddTimer, User
  <2>2. t \in Entries
    BY DEF IInv, EntriesLive
  <2>3. cur_size > 0
    <3>1. cur_size \in Nat
      BY ArrayIs
    <3>2. cur_size # 0
      BY <2>2 DEF Entries
    <3> QED
      BY <3>1, <3>2
  <2>4. expire[array[0]] > cur
    BY <2>1, <2>3 DEF Return, Later
  <2>5. expire[array[0]] <= expire[t] /\ t \in Timer /\ array[0] \in Timer
    BY <2>2, <2>3, TopIsEarliest
  <2>6. expire[t] \in Nat /\ expire[array[0]] \in Nat /\ cur \in Nat
    BY <2>5 DEF IInv, TypeOK
  <2> QED
    BY <2>4, <2>5, <2>6
<1> QED
  BY <1>1, Invariance, PTL DEF Spec, NothingDueIsLeft

LEMMA QueueInit == Init => Queue!Init
<1> SUFFICES ASSUME Init PROVE Queue!Init
  OBVIOUS
<1>1. IInv
  BY InitInv
<1>2. clock = 0 /\ pc = "idle" /\ freed = {} /\ cb_func = made
  BY DEF Init
<1> QED
  BY <1>1, <1>2 DEF Queue!Init, IInv, TypeOK

LEMMA QueueStep == IInv /\ [Next]_vars => [Queue!Next]_(Queue!vars)
<1> SUFFICES ASSUME IInv, [Next]_vars PROVE Queue!Next \/ UNCHANGED Queue!vars
  BY DEF Queue!vars
<1> USE DEF timerVars, heapVars, histVars
<1>1. cur_size > 0 /\ pc # "overrun" => array[0] \in Timer /\ Queue!Earliest(array[0])
  <2> SUFFICES ASSUME cur_size > 0, pc # "overrun"
               PROVE  array[0] \in Timer /\ Queue!Earliest(array[0])
    OBVIOUS
  <2>1. Entries = made \ freed
    BY DEF IInv, EntriesLive
  <2> QED
    BY <2>1, TopIsEarliest DEF Queue!Earliest
<1>2. CASE Second
  BY <1>2 DEF Second, Queue!Next, Queue!Pass
<1>3. CASE PopTimer
  <2>1. /\ freed' = freed \cup {array[0]} /\ cb_func' = cb_func \ {array[0]}
        /\ pc = "idle" /\ pc' = "idle" /\ clock' = clock /\ expire' = expire /\ made' = made
        /\ cur_size > 0
    BY <1>3 DEF PopTimer, Pop
  <2>2. made' \ freed' = (made \ freed) \ {array[0]}
    BY <2>1
  <2>3. array[0] \in Timer /\ Queue!Earliest(array[0])
    BY <1>1, <2>1
  <2>4. Queue!Leave(array[0])
    BY <2>1, <2>2, <2>3 DEF Queue!Leave
  <2> QED
    BY <2>3, <2>4 DEF Queue!Next
<1>4. CASE Tick \/ Return
  BY <1>4 DEF Tick, Return, Queue!vars
<1>5. CASE Call
  <2>1. /\ pc = "tick" /\ cur_size > 0 /\ ~(expire[array[0]] > cur) /\ array[0] \in cb_func
        /\ called' = array[0] /\ pc' = "callback"
        /\ UNCHANGED <<clock, expire, cb_func, made, freed>>
    BY <1>5 DEF Call, Later
  <2>2. array[0] \in Timer /\ Queue!Earliest(array[0])
    BY <1>1, <2>1
  <2>3. expire[array[0]] <= clock
    <3>1. expire[array[0]] \in Nat /\ clock \in Nat /\ cur \in 0..clock
      BY <2>2 DEF IInv, TypeOK
    <3> QED
      BY <2>1, <3>1
  <2>4. Queue!Call(array[0])
    BY <2>1, <2>2, <2>3 DEF Queue!Call
  <2> QED
    BY <2>2, <2>4 DEF Queue!Next
<1>6. CASE PopDue
  <2>1. /\ freed' = freed \cup {array[0]} /\ cb_func' = cb_func \ {array[0]}
        /\ pc' = "tick" /\ clock' = clock /\ expire' = expire /\ made' = made
    BY <1>6 DEF PopDue, Pop
  <2>2. made' \ freed' = (made \ freed) \ {array[0]}
    BY <2>1
  <2>3. CASE pc = "callback"
    <3>1. called = array[0] /\ called \in Timer /\ called # NULL
      BY <2>3, TimerAssumption DEF IInv, CallInv
    <3>2. Queue!Leave(called)
      BY <2>1, <2>2, <2>3, <3>1 DEF Queue!Leave
    <3> QED
      BY <3>1, <3>2 DEF Queue!Next
  <2>4. CASE pc # "callback"
    <3>1. pc = "tick" /\ cur_size > 0
      BY <1>6, <2>4 DEF PopDue, Later
    <3>2. array[0] \in Timer /\ Queue!Earliest(array[0])
      BY <1>1, <3>1
    <3>3. Queue!Leave(array[0])
      BY <2>1, <2>2, <3>1, <3>2 DEF Queue!Leave
    <3> QED
      BY <3>2, <3>3 DEF Queue!Next
  <2> QED
    BY <2>3, <2>4
<1>7. ASSUME NEW t \in Timer, DelTimer(t) PROVE Queue!Next
  <2>1. /\ t \in Entries /\ pc # "overrun" /\ cb_func' = cb_func \ {t}
        /\ UNCHANGED <<clock, expire, pc, made, freed, called>>
    BY <1>7 DEF DelTimer, User
  <2>2. t \in made \ freed
    BY <2>1 DEF IInv, EntriesLive
  <2>3. Queue!Cancel(t)
    BY <2>1, <2>2 DEF Queue!Cancel
  <2> QED
    BY <2>3 DEF Queue!Next
<1>8. ASSUME NEW t \in Timer, NEW d \in Delay, AddTimer(t, d) PROVE Queue!Next
  <2>1. /\ pc \in {"idle", "callback"} /\ t \notin made
        /\ made' = made \cup {t} /\ expire' = [expire EXCEPT ![t] = clock + d]
        /\ cb_func' = cb_func \cup {t}
        /\ clock' = clock /\ freed' = freed /\ called' = called
    BY <1>8 DEF AddTimer, User
  <2>2. expire \in [Timer -> Nat] /\ freed \subseteq made /\ clock \in Nat /\ d \in Nat
    BY TimerAssumption DEF IInv, TypeOK
  <2>3. expire'[t] = clock + d /\ expire'[t] >= clock
    BY <2>1, <2>2
  <2>4. made' \ freed' = (made \ freed) \cup {t} /\ t \notin made \ freed
    BY <2>1, <2>2
  <2>5. (pc' = "callback") = (pc = "callback")
    <3>1. pc' = pc \/ (pc' = "overrun" /\ cur_size \notin DOMAIN Room)
      BY <1>8 DEF AddTimer
    <3>2. cur_size \notin DOMAIN Room => cur_size = 0
      BY RoomIs
    <3>3. pc = "callback" => cur_size > 0
      BY DEF IInv, CallInv
    <3> QED
      BY <3>1, <3>2, <3>3
  <2>6. Queue!Set(t)
    BY <2>1, <2>3, <2>4, <2>5 DEF Queue!Set
  <2> QED
    BY <2>6 DEF Queue!Next
<1>9. CASE UNCHANGED vars
  BY <1>9 DEF vars, Queue!vars
<1> QED
  BY <1>2, <1>3, <1>4, <1>5, <1>6, <1>7, <1>8, <1>9 DEF Next

\* The heap, with its callbacks that change it, is a timer queue: callbacks
\* run in the order of their time, never early, and what is deleted behind
\* one is the timer that was called.
THEOREM HeapImplementsQueue == Spec => ImplementsTimerQueue
BY QueueInit, QueueStep, Invariance, PTL DEF Spec, ImplementsTimerQueue, Queue!Spec
=============================================================================
