---------------------------- MODULE LoggerProofs ----------------------------
(***************************************************************************)
(* Proofs about Logger, for any loggers, any patterns and any number of    *)
(* calls.  The first half is about LogFormatter alone: the loop of init    *)
(* finds the reading of a pattern of any length, if it has one.  The state *)
(* of the loggers is the second half, where IsError is never expanded.     *)
(***************************************************************************)
EXTENDS Logger, LeastElement, FiniteSetTheorems, SequenceTheorems

-----------------------------------------------------------------------------
(* Runs of characters.                                                     *)

\* A run has an end.
LEMMA EndOfRunIs ==
    ASSUME NEW p \in Seq(Char), NEW n \in 1..(Len(p) + 1), NEW S
    PROVE  /\ EndOfRun(p, n, S) \in n..(Len(p) + 1)
           /\ \A j \in n..(EndOfRun(p, n, S) - 1) : p[j] \in S
           /\ EndOfRun(p, n, S) <= Len(p) => p[EndOfRun(p, n, S)] \notin S
<1> DEFINE Stops == {k \in n..(Len(p) + 1) : k = Len(p) + 1 \/ p[k] \notin S}
<1>1. Len(p) \in Nat
  OBVIOUS
<1>2. PICK k \in Stops : \A m \in Stops : k <= m
  <2>1. Stops \in SUBSET Nat
    BY <1>1
  <2>2. Len(p) + 1 \in Stops
    BY <1>1
  <2> HIDE DEF Stops
  <2> QED
    BY <2>1, <2>2, LeastNatural
<1>3. k \in n..(Len(p) + 1) /\ (k <= Len(p) => p[k] \notin S)
  BY <1>1, <1>2
<1>4. ASSUME NEW j \in n..(k - 1) PROVE p[j] \in S
  <2>1. j \in n..(Len(p) + 1) /\ j # Len(p) + 1 /\ ~(k <= j)
    BY <1>1, <1>3
  <2>2. j \notin Stops
    <3> HIDE DEF Stops
    <3> QED
      BY <1>2, <2>1
  <2> QED
    BY <2>1, <2>2
<1> HIDE DEF Stops
<1> QED
  BY <1>3, <1>4 DEF EndOfRun

\* It has one end only.
LEMMA EndOfRunUnique ==
    ASSUME NEW p \in Seq(Char), NEW n \in 1..(Len(p) + 1), NEW S,
           NEW m \in n..(Len(p) + 1),
           \A j \in n..(m - 1) : p[j] \in S,
           m <= Len(p) => p[m] \notin S
    PROVE  EndOfRun(p, n, S) = m
<1> DEFINE k == EndOfRun(p, n, S)
<1>1. /\ k \in n..(Len(p) + 1)
      /\ \A j \in n..(k - 1) : p[j] \in S
      /\ k <= Len(p) => p[k] \notin S
  BY EndOfRunIs
<1>2. Len(p) \in Nat
  OBVIOUS
<1> HIDE DEF k
<1>3. ~(k < m)
  <2> SUFFICES ASSUME k < m PROVE FALSE
    OBVIOUS
  <2>1. k \in n..(m - 1) /\ k <= Len(p)
    BY <1>1, <1>2
  <2> QED
    BY <1>1, <2>1
<1>4. ~(m < k)
  <2> SUFFICES ASSUME m < k PROVE FALSE
    OBVIOUS
  <2>1. m \in n..(k - 1) /\ m <= Len(p)
    BY <1>1, <1>2
  <2> QED
    BY <1>1, <2>1
<1>5. k = m
  BY <1>1, <1>2, <1>3, <1>4
<1> QED
  BY <1>5 DEF k

-----------------------------------------------------------------------------
(* One turn of the loop.                                                   *)

Piece == [kind : {"text", "directive", "unclosed"}, name : Seq(Char), fmt : Seq(Char)]
State(p) == [i : 1..(Len(p) + 1), nstr : Seq(Char), vec : Seq(Piece)]

TextAt(p, i) == p[i] # "%" \/ (i < Len(p) /\ p[i + 1] = "%")
NameEnd(p, i) == EndOfRun(p, i + 1, Letter \cup {"}"})
IsOpen(p, i) == NameEnd(p, i) <= Len(p) /\ p[NameEnd(p, i)] = "{"
FormatEnd(p, i) == Closing(p, NameEnd(p, i) + 1)

\* What was read as text goes into vec, if there is any.
LEMMA FlushIs ==
    ASSUME NEW p \in Seq(Char), NEW s \in State(p)
    PROVE  /\ Flush(s) \in Seq(Piece)
           /\ s.nstr = <<>> => Flush(s) = s.vec
           /\ s.nstr # <<>> => Flush(s) = Append(s.vec, Text(s.nstr))
<1>1. s.nstr \in Seq(Char) /\ s.vec \in Seq(Piece)
  BY DEF State
<1>2. Text(s.nstr) \in Piece
  BY <1>1 DEF Text, Piece
<1> QED
  BY <1>1, <1>2 DEF Flush

\* A character of text.
LEMMA ScanText ==
    ASSUME NEW p \in Seq(Char), NEW s \in State(p), s.i <= Len(p), TextAt(p, s.i)
    PROVE  /\ Scan(p, s) \in State(p)
           /\ Scan(p, s).i = s.i + 1
           /\ Scan(p, s).nstr = Append(s.nstr, p[s.i])
           /\ Scan(p, s).vec = s.vec
<1>1. s.i \in 1..(Len(p) + 1) /\ s.nstr \in Seq(Char) /\ s.vec \in Seq(Piece) /\ Len(p) \in Nat
  BY DEF State
<1>2. Scan(p, s) = [s EXCEPT !.i = @ + 1, !.nstr = Append(@, p[s.i])]
  BY DEF Scan, TextAt
<1>3. p[s.i] \in Char
  BY <1>1
<1>4. s.i + 1 \in 1..(Len(p) + 1) /\ Append(s.nstr, p[s.i]) \in Seq(Char)
  BY <1>1, <1>3
<1> QED
  BY <1>2, <1>4 DEF State

\* The name of a directive ends where the letters and closing braces do.
LEMMA NameEndIs ==
    ASSUME NEW p \in Seq(Char), NEW i \in 1..Len(p)
    PROVE  /\ NameEnd(p, i) \in (i + 1)..(Len(p) + 1)
           /\ \A j \in (i + 1)..(NameEnd(p, i) - 1) : p[j] \in Letter \cup {"}"}
           /\ NameEnd(p, i) <= Len(p) => p[NameEnd(p, i)] \notin Letter \cup {"}"}
<1>1. i + 1 \in 1..(Len(p) + 1)
  OBVIOUS
<1> QED
  BY <1>1, EndOfRunIs DEF NameEnd

\* Its format ends at the first closing brace, if there is one.
LEMMA FormatEndIs ==
    ASSUME NEW p \in Seq(Char), NEW i \in 1..Len(p), IsOpen(p, i)
    PROVE  /\ FormatEnd(p, i) \in (NameEnd(p, i) + 1)..(Len(p) + 1)
           /\ \A j \in (NameEnd(p, i) + 1)..(FormatEnd(p, i) - 1) : p[j] # "}"
           /\ FormatEnd(p, i) <= Len(p) => p[FormatEnd(p, i)] = "}"
<1> DEFINE n == NameEnd(p, i)
           k == FormatEnd(p, i)
<1>0. Len(p) \in Nat
  OBVIOUS
<1>1. n \in Nat /\ n + 1 \in 1..(Len(p) + 1)
  <2>1. n \in (i + 1)..(Len(p) + 1)
    BY NameEndIs
  <2>2. n <= Len(p)
    BY DEF IsOpen
  <2> HIDE DEF n
  <2> QED
    BY <1>0, <2>1, <2>2
<1> HIDE DEF n
<1>2. /\ k \in (n + 1)..(Len(p) + 1)
      /\ \A j \in (n + 1)..(k - 1) : p[j] \in Char \ {"}"}
      /\ k <= Len(p) => p[k] \notin Char \ {"}"}
  BY <1>1, EndOfRunIs DEF Closing, FormatEnd, n
<1> HIDE DEF k
<1>3. ASSUME k <= Len(p) PROVE p[k] \in Char
  <2> DEFINE len == Len(p)
  <2>0. k \in (n + 1)..(len + 1) /\ k <= len
    BY <1>2, <1>3
  <2>1. k \in 1..Len(p)
    <3> HIDE DEF len
    <3>1. k \in 1..len
      BY <1>0, <1>1, <2>0 DEF len
    <3> QED
      BY <3>1 DEF len
  <2> QED
    BY <2>1
<1> QED
  BY <1>2, <1>3 DEF n, k

\* A directive, closed or not.
LEMMA ScanDirective ==
    ASSUME NEW p \in Seq(Char), NEW s \in State(p), s.i <= Len(p), ~TextAt(p, s.i)
    PROVE  LET t == Scan(p, s)
               i == s.i
               n == NameEnd(p, i)
               k == FormatEnd(p, i)
           IN  /\ t \in State(p) /\ t.i > i
               /\ IsOpen(p, i) /\ k > Len(p) => t.vec = Append(s.vec, PatternError)
               /\ IsOpen(p, i) /\ k <= Len(p) =>
                     /\ t.i = k + 1 /\ t.nstr = <<>>
                     /\ t.vec = Append(Flush(s), Directive(SubSeq(p, i + 1, n - 1), SubSeq(p, n + 1, k - 1)))
               /\ ~IsOpen(p, i) =>
                     /\ t.i = n /\ t.nstr = <<>>
                     /\ t.vec = Append(Flush(s), Directive(SubSeq(p, i + 1, n - 1), <<>>))
<1> DEFINE t == Scan(p, s)
           i == s.i
           n == NameEnd(p, i)
           k == FormatEnd(p, i)
           name == SubSeq(p, i + 1, n - 1)
           fmt == SubSeq(p, n + 1, k - 1)
<1>1. i \in 1..Len(p) /\ s.nstr \in Seq(Char) /\ s.vec \in Seq(Piece) /\ Len(p) \in Nat
  BY DEF State
<1>2. n \in (i + 1)..(Len(p) + 1)
  BY <1>1, NameEndIs
<1>3. IsOpen(p, i) => k \in (n + 1)..(Len(p) + 1)
  BY <1>1, FormatEndIs
<1>4. Scan(p, s) = IF IsOpen(p, i) /\ k > Len(p)
                   THEN [s EXCEPT !.i = @ + 1, !.vec = Append(@, PatternError)]
                   ELSE [i    |-> IF IsOpen(p, i) THEN k + 1 ELSE n,
                         nstr |-> <<>>,
                         vec  |-> Append(Flush(s), Directive(name, IF IsOpen(p, i) THEN fmt ELSE <<>>))]
  BY DEF Scan, TextAt, IsOpen, NameEnd, FormatEnd
<1>5. Flush(s) \in Seq(Piece)
  BY FlushIs
<1> HIDE DEF t, i, n, k
<1>6. name \in Seq(Char)
  BY <1>1, <1>2
<1>7. IsOpen(p, i) /\ k <= Len(p) => fmt \in Seq(Char)
  BY <1>1, <1>2, <1>3
<1> HIDE DEF name, fmt
<1>8. CASE IsOpen(p, i) /\ k > Len(p)
  <2>1. t = [s EXCEPT !.i = @ + 1, !.vec = Append(@, PatternError)]
    BY <1>4, <1>8 DEF t
  <2>2. PatternError \in Piece
    BY DEF PatternError, Piece
  <2>3. i + 1 \in 1..(Len(p) + 1) /\ Append(s.vec, PatternError) \in Seq(Piece)
    BY <1>1, <2>2
  <2>4. t \in State(p) /\ t.i = i + 1 /\ t.vec = Append(s.vec, PatternError)
    BY <2>1, <2>3 DEF State, i
  <2>5. t.i > i
    BY <1>1, <2>4
  <2> QED
    BY <1>1, <1>3, <1>8, <2>4, <2>5 DEF t, i, n, k
<1>9. CASE IsOpen(p, i) /\ k <= Len(p)
  <2>1. t = [i |-> k + 1, nstr |-> <<>>, vec |-> Append(Flush(s), Directive(name, fmt))]
    BY <1>1, <1>3, <1>4, <1>9 DEF t
  <2>2. Directive(name, fmt) \in Piece
    BY <1>6, <1>7, <1>9 DEF Directive, Piece
  <2>3. k + 1 \in 1..(Len(p) + 1) /\ k + 1 > i
    BY <1>1, <1>2, <1>3, <1>9
  <2>4. Append(Flush(s), Directive(name, fmt)) \in Seq(Piece)
    BY <1>5, <2>2
  <2>5. t \in State(p)
    BY <2>1, <2>3, <2>4 DEF State
  <2>6. ~(k > Len(p))
    BY <1>1, <1>3, <1>9
  <2> QED
    BY <1>9, <2>1, <2>3, <2>5, <2>6 DEF t, i, n, k, name, fmt
<1>10. CASE ~IsOpen(p, i)
  <2>1. t = [i |-> n, nstr |-> <<>>, vec |-> Append(Flush(s), Directive(name, <<>>))]
    BY <1>4, <1>10 DEF t
  <2>2. Directive(name, <<>>) \in Piece
    BY <1>6 DEF Directive, Piece
  <2>3. n \in 1..(Len(p) + 1) /\ n > i
    BY <1>1, <1>2
  <2>4. Append(Flush(s), Directive(name, <<>>)) \in Seq(Piece)
    BY <1>5, <2>2
  <2>5. t \in State(p)
    BY <2>1, <2>3, <2>4 DEF State
  <2> QED
    BY <1>10, <2>1, <2>3, <2>5 DEF t, i, n, k, name
<1>11. IsOpen(p, i) => k > Len(p) \/ k <= Len(p)
  BY <1>1, <1>3
<1> QED
  BY <1>8, <1>9, <1>10, <1>11

-----------------------------------------------------------------------------
(* The loop: where it comes to.                                            *)

Start == [i |-> 1, nstr |-> <<>>, vec |-> <<>>]
Turn(p, s) == IF s.i > Len(p) THEN s ELSE Scan(p, s)
Reached(p) == {Scans(p)[k] : k \in 0..Len(p)}

\* The loop starts at the first character, with nothing.
LEMMA StartIs ==
    ASSUME NEW p \in Seq(Char)
    PROVE  Start \in State(p) /\ Start.i = 1 /\ Start.nstr = <<>> /\ Start.vec = <<>>
<1>1. 1 \in 1..(Len(p) + 1) /\ <<>> \in Seq(Char) /\ <<>> \in Seq(Piece)
  OBVIOUS
<1> QED
  BY <1>1 DEF Start, State

\* Every turn takes a character.
LEMMA ScanIs ==
    ASSUME NEW p \in Seq(Char), NEW s \in State(p), s.i <= Len(p)
    PROVE  Scan(p, s) \in State(p) /\ Scan(p, s).i > s.i
<1>1. CASE TextAt(p, s.i)
  <2>1. Scan(p, s) \in State(p) /\ Scan(p, s).i = s.i + 1
    BY <1>1, ScanText
  <2>2. s.i \in Nat
    BY DEF State
  <2> QED
    BY <2>1, <2>2
<1>2. CASE ~TextAt(p, s.i)
  BY <1>2, ScanDirective
<1> QED
  BY <1>1, <1>2

\* The recursive function is what its definition says.
LEMMA ScansIs ==
    ASSUME NEW p \in Seq(Char)
    PROVE  /\ Scans(p)[0] = Start
           /\ \A k \in 1..Len(p) : Scans(p)[k] = Turn(p, Scans(p)[k - 1])
<1> DEFINE n == Len(p)
           Def(f, m) == [k \in 0..m |-> IF k = 0 THEN Start ELSE Turn(p, f[k - 1])]
           Good == {m \in 0..n : \E f : f = Def(f, m)}
<1>0. n \in Nat
  OBVIOUS
<1> HIDE DEF n
<1>1. 0 \in Good
  <2> DEFINE g == [k \in 0..0 |-> Start]
  <2>1. g = Def(g, 0)
    OBVIOUS
  <2> HIDE DEF g
  <2> QED
    BY <1>0, <2>1
<1>2. ASSUME NEW m \in 1..n, m - 1 \in Good PROVE m \in Good
  <2>1. PICK f : f = Def(f, m - 1)
    BY <1>2
  <2> DEFINE g == Def(f, m)
  <2>2. \A k \in 0..(m - 1) : g[k] = f[k]
    <3>1. \A k \in 0..(m - 1) : f[k] = Def(f, m - 1)[k]
      BY <2>1
    <3> QED
      BY <3>1
  <2>3. g = Def(g, m)
    <3>1. \A k \in 0..m : k # 0 => k - 1 \in 0..(m - 1)
      BY <1>0
    <3>2. g = Def(f, m)
      OBVIOUS
    <3> HIDE DEF g
    <3>3. \A k \in 0..m : k # 0 => g[k - 1] = f[k - 1]
      BY <2>2, <3>1
    <3>4. \A k \in 0..m : (IF k = 0 THEN Start ELSE Turn(p, f[k - 1])) = (IF k = 0 THEN Start ELSE Turn(p, g[k - 1]))
      BY <3>3
    <3> QED
      BY <3>2, <3>4
  <2>4. \E f1 : f1 = Def(f1, m)
    <3> HIDE DEF g
    <3> QED
      BY <2>3
  <2>5. m \in 0..n
    BY <1>0
  <2> QED
    BY <2>4, <2>5
<1>3. \E f : f = Def(f, n)
  <2>1. 0..n \subseteq Good
    <3> HIDE DEF Good
    <3> QED
      BY <1>0, <1>1, <1>2, IntervalInduction
  <2>2. n \in Good
    <3> HIDE DEF Good
    <3> QED
      BY <1>0, <2>1
  <2> QED
    BY <2>2
<1> DEFINE H == Scans(p)
<1>4. H = Def(H, n)
  <2>1. H = CHOOSE f : f = Def(f, n)
    BY DEF Scans, Start, Turn, n
  <2> HIDE DEF H
  <2> QED
    BY <1>3, <2>1
<1> HIDE DEF H
<1>5. \A k \in 0..n : H[k] = IF k = 0 THEN Start ELSE Turn(p, H[k - 1])
  BY <1>4
<1>6. 0 \in 0..n /\ \A k \in 1..n : k \in 0..n /\ k # 0
  BY <1>0
<1>7. H[0] = Start /\ \A k \in 1..n : H[k] = Turn(p, H[k - 1])
  <2> HIDE DEF Def
  <2> QED
    BY <1>5, <1>6
<1> QED
  BY <1>7 DEF H, n

\* After k turns it has taken k characters, if there are as many.
LEMMA ScansMove ==
    ASSUME NEW p \in Seq(Char), NEW k \in 0..Len(p)
    PROVE  Scans(p)[k] \in State(p) /\ Scans(p)[k].i >= k + 1
<1> DEFINE n == Len(p)
           H == Scans(p)
           Good == {m \in 0..n : H[m] \in State(p) /\ H[m].i >= m + 1}
<1>0. n \in Nat
  OBVIOUS
<1>1. H[0] = Start /\ \A m \in 1..n : H[m] = Turn(p, H[m - 1])
  BY ScansIs
<1> HIDE DEF H
<1>2. 0 \in Good
  BY <1>0, <1>1, StartIs
<1>3. ASSUME NEW m \in 1..n, m - 1 \in Good PROVE m \in Good
  <2>1. H[m - 1] \in State(p) /\ H[m - 1].i >= m /\ H[m - 1].i \in Nat
    BY <1>3 DEF State
  <2>2. H[m] = Turn(p, H[m - 1])
    BY <1>1
  <2>3. m \in 0..n /\ m \in Nat
    OBVIOUS
  <2>4. CASE H[m - 1].i > Len(p)
    <3>1. H[m] = H[m - 1]
      BY <2>2, <2>4 DEF Turn
    <3>2. H[m].i >= m + 1
      BY <1>0, <2>1, <2>4, <3>1
    <3> QED
      BY <2>1, <2>3, <3>1, <3>2
  <2>5. CASE ~(H[m - 1].i > Len(p))
    <3>1. H[m] = Scan(p, H[m - 1])
      BY <2>2, <2>5 DEF Turn
    <3>2. H[m - 1].i <= Len(p)
      BY <1>0, <2>1, <2>5
    <3>3. H[m] \in State(p) /\ H[m].i > H[m - 1].i
      BY <2>1, <3>1, <3>2, ScanIs
    <3>4. H[m].i \in Nat
      BY <3>3 DEF State
    <3>5. H[m].i >= m + 1
      BY <2>1, <2>3, <3>3, <3>4
    <3> QED
      BY <2>3, <3>3, <3>5
  <2> QED
    BY <2>4, <2>5
<1>4. 0..n \subseteq Good
  <2> HIDE DEF Good
  <2> QED
    BY <1>0, <1>2, <1>3, IntervalInduction
<1> QED
  BY <1>4 DEF H

\* What holds at the start and is kept by a turn holds wherever the loop comes.
LEMMA ReachedInduction ==
    ASSUME NEW p \in Seq(Char), NEW S,
           Start \in S,
           \A s \in State(p) : s \in S /\ s.i <= Len(p) => Scan(p, s) \in S
    PROVE  Reached(p) \subseteq S
<1> DEFINE n == Len(p)
           H == Scans(p)
           Good == {m \in 0..n : H[m] \in S}
<1>0. n \in Nat
  OBVIOUS
<1>1. H[0] = Start /\ \A m \in 1..n : H[m] = Turn(p, H[m - 1])
  BY ScansIs
<1>2. \A m \in 0..n : H[m] \in State(p)
  BY ScansMove
<1> HIDE DEF H
<1>3. 0 \in Good
  BY <1>0, <1>1
<1>4. ASSUME NEW m \in 1..n, m - 1 \in Good PROVE m \in Good
  <2>1. H[m - 1] \in S /\ m - 1 \in 0..n /\ m \in 0..n
    BY <1>4
  <2>2. H[m - 1] \in State(p) /\ H[m - 1].i \in Nat
    BY <1>2, <2>1 DEF State
  <2>3. H[m - 1].i > Len(p) \/ H[m - 1].i <= Len(p)
    BY <1>0, <2>2
  <2>4. H[m] \in S
    BY <1>1, <2>1, <2>2, <2>3 DEF Turn
  <2> QED
    BY <2>1, <2>4
<1>5. 0..n \subseteq Good
  <2> HIDE DEF Good
  <2> QED
    BY <1>0, <1>3, <1>4, IntervalInduction
<1> QED
  BY <1>5 DEF H, Reached

\* The loop goes on until the pattern is at its end, and then has its items.
LEMMA ReachedIs ==
    ASSUME NEW p \in Seq(Char)
    PROVE  /\ Start \in Reached(p)
           /\ Reached(p) \subseteq State(p)
           /\ \A s \in Reached(p) : s.i <= Len(p) => Scan(p, s) \in Reached(p)
           /\ \A s \in Reached(p) : s.i = Len(p) + 1 => Items(p) = Flush(s)
           /\ \E s \in Reached(p) : s.i = Len(p) + 1
<1> DEFINE n == Len(p)
           H == Scans(p)
<1>0. n \in Nat
  OBVIOUS
<1>1. H[0] = Start /\ \A m \in 1..n : H[m] = Turn(p, H[m - 1])
  BY ScansIs
<1>2. \A m \in 0..n : H[m] \in State(p) /\ H[m].i >= m + 1
  BY ScansMove
<1>3. \A m \in 0..n : H[m].i \in 1..(n + 1)
  BY <1>2 DEF State
<1>4. Reached(p) = {H[k] : k \in 0..n} /\ Items(p) = Flush(H[n])
  BY DEF Reached, Items
<1> HIDE DEF H
<1>5. 0 \in 0..n /\ n \in 0..n
  BY <1>0
<1>6. ASSUME NEW k \in 0..n, H[k].i <= n PROVE Scan(p, H[k]) \in Reached(p)
  <2>1. k + 1 \in 1..n /\ k + 1 \in 0..n /\ (k + 1) - 1 = k
    BY <1>0, <1>2, <1>3, <1>6
  <2>2. ~(H[k].i > n)
    BY <1>0, <1>3, <1>6
  <2>3. H[k + 1] = Scan(p, H[k])
    BY <1>1, <2>1, <2>2 DEF Turn
  <2> QED
    BY <1>4, <2>1, <2>3
<1>7. ASSUME NEW k \in 0..n, H[k].i = n + 1 PROVE H[n] = H[k]
  <2> DEFINE Good == {m \in 0..n : k + m <= n => H[k + m] = H[k]}
  <2>1. 0 \in Good
    BY <1>0
  <2>2. ASSUME NEW m \in 1..n, m - 1 \in Good PROVE m \in Good
    <3> SUFFICES ASSUME k + m <= n PROVE H[k + m] = H[k]
      BY <1>0
    <3>1. k + (m - 1) <= n /\ k + m \in 1..n /\ (k + m) - 1 = k + (m - 1)
      BY <1>0
    <3>2. H[k + (m - 1)] = H[k]
      BY <2>2, <3>1
    <3>3. H[k + m] = Turn(p, H[k])
      BY <1>1, <3>1, <3>2
    <3>4. H[k].i > n
      BY <1>0, <1>7
    <3> QED
      BY <3>3, <3>4 DEF Turn
  <2>3. 0..n \subseteq Good
    <3> HIDE DEF Good
    <3> QED
      BY <1>0, <2>1, <2>2, IntervalInduction
  <2>4. n - k \in 0..n /\ k + (n - k) = n
    BY <1>0
  <2>5. n - k \in Good
    <3> HIDE DEF Good
    <3> QED
      BY <2>3, <2>4
  <2> QED
    BY <1>0, <2>4, <2>5
<1>8. H[n].i = n + 1
  BY <1>0, <1>2, <1>3, <1>5
<1>9. H[n] \in Reached(p)
  BY <1>4, <1>5
<1>10. Start \in Reached(p) /\ Reached(p) \subseteq State(p)
  BY <1>1, <1>2, <1>4, <1>5
<1>11. \A s \in Reached(p) : s.i <= n => Scan(p, s) \in Reached(p)
  BY <1>4, <1>6
<1>12. \A s \in Reached(p) : s.i = n + 1 => Items(p) = Flush(s)
  BY <1>4, <1>7
<1> QED
  BY <1>8, <1>9, <1>10, <1>11, <1>12

-----------------------------------------------------------------------------
(* From a reading to the items: the loop takes the pieces one by one.      *)

\* One more character of the pattern.
LEMMA SubSeqGrows ==
    ASSUME NEW p \in Seq(Char), NEW a \in 1..Len(p), NEW b \in a..Len(p)
    PROVE  Append(SubSeq(p, a, b - 1), p[b]) = SubSeq(p, a, b)
<1>1. a \in Nat /\ b \in Nat /\ Len(p) \in Nat /\ a >= 1 /\ a <= b /\ b <= Len(p)
  OBVIOUS
<1> DEFINE u == SubSeq(p, a, b - 1)
           v == SubSeq(p, a, b)
<1>2. u \in Seq(Char) /\ Len(u) = b - a /\ \A j \in 1..(b - a) : u[j] = p[a + j - 1]
  BY <1>1
<1>3. v \in Seq(Char) /\ Len(v) = b - a + 1 /\ \A j \in 1..(b - a + 1) : v[j] = p[a + j - 1]
  BY <1>1
<1> HIDE DEF u, v
<1>4. p[b] \in Char
  BY <1>1
<1>5. Append(u, p[b]) \in Seq(Char) /\ Len(Append(u, p[b])) = b - a + 1
  BY <1>1, <1>2, <1>4
<1>6. ASSUME NEW j \in 1..(b - a + 1) PROVE Append(u, p[b])[j] = v[j]
  <2>1. CASE j = b - a + 1
    <3>1. Append(u, p[b])[j] = p[b]
      <4>1. j = Len(u) + 1
        BY <1>1, <1>2, <2>1
      <4> QED
        BY <1>2, <1>4, <4>1, AppendProperties
    <3>2. a + j - 1 = b
      BY <1>1, <2>1
    <3> QED
      BY <1>3, <3>1, <3>2
  <2>2. CASE j # b - a + 1
    <3>1. j \in 1..(b - a)
      BY <1>1, <2>2
    <3>2. Append(u, p[b])[j] = u[j]
      BY <1>1, <1>2, <1>4, <3>1
    <3> QED
      BY <1>2, <1>3, <3>1, <3>2
  <2> QED
    BY <2>1, <2>2
<1>7. Append(u, p[b]) = v
  BY <1>3, <1>5, <1>6, SeqEqual
<1> QED
  BY <1>7 DEF u, v

\* Where no two percent signs meet, text is what is not a percent sign.
LEMMA TextIs ==
    ASSUME NEW p \in Seq(Char), ~Escaped(p), NEW i \in 1..Len(p)
    PROVE  TextAt(p, i) <=> p[i] # "%"
<1>1. i < Len(p) => i \in 1..(Len(p) - 1)
  OBVIOUS
<1> QED
  BY <1>1 DEF Escaped, TextAt

\* Nor is there a piece of two percent signs.
LEMMA NoPercent ==
    ASSUME NEW p \in Seq(Char), ~Escaped(p), NEW a \in 1..Len(p), NEW e \in 1..Len(p)
    PROVE  ~IsPercent(p, <<a, e>>)
<1>1. e = a + 1 => a \in 1..(Len(p) - 1)
  OBVIOUS
<1> QED
  BY <1>1 DEF Escaped, IsPercent

\* A text is taken character by character.
LEMMA TakeText ==
    ASSUME NEW p \in Seq(Char), NEW s \in Reached(p), NEW e \in (s.i)..Len(p),
           IsText(p, <<s.i, e>>), s.nstr = <<>>
    PROVE  \E t \in Reached(p) : t.i = e + 1 /\ t.nstr = SubSeq(p, s.i, e) /\ t.vec = s.vec
<1> DEFINE n == Len(p)
           a == s.i
           At(m, t) == t.i = a + m /\ t.nstr = SubSeq(p, a, a + m - 1) /\ t.vec = s.vec
           Good == {m \in 0..(e - a + 1) : \E t \in Reached(p) : At(m, t)}
<1>1. n \in Nat /\ a \in 1..n /\ e \in 1..n /\ a <= e /\ e - a + 1 \in Nat
  <2>1. s \in State(p)
    BY ReachedIs
  <2>2. a \in 1..(n + 1) /\ n \in Nat /\ e \in a..n
    BY <2>1 DEF State
  <2> HIDE DEF a, n
  <2> QED
    BY <2>2
<1>2. \A k \in a..e : TextAt(p, k)
  BY DEF IsText, TextAt
<1>3. \A t \in Reached(p) : t \in State(p) /\ (t.i <= n => Scan(p, t) \in Reached(p))
  BY ReachedIs
<1> HIDE DEF n, a
<1>4. 0 \in Good
  <2>1. SubSeq(p, a, a + 0 - 1) = <<>>
    BY <1>1 DEF n
  <2>2. At(0, s) /\ 0 \in 0..(e - a + 1)
    BY <1>1, <2>1 DEF a
  <2> HIDE DEF At
  <2> QED
    BY <2>2
<1>5. ASSUME NEW m \in 1..(e - a + 1), m - 1 \in Good PROVE m \in Good
  <2> DEFINE b == a + (m - 1)
  <2>0. PICK t \in Reached(p) : At(m - 1, t)
    <3> HIDE DEF At
    <3> QED
      BY <1>5
  <2>1. t.i = b /\ t.nstr = SubSeq(p, a, b - 1) /\ t.vec = s.vec
    <3>1. t.i = b
      BY <2>0
    <3>2. t.nstr = SubSeq(p, a, b - 1)
      BY <1>1, <2>0
    <3>3. t.vec = s.vec
      BY <2>0
    <3> QED
      BY <3>1, <3>2, <3>3
  <2>2. b \in a..e /\ b \in a..n /\ b <= n /\ a + m = b + 1 /\ a + m - 1 = b /\ m \in 0..(e - a + 1)
    BY <1>1
  <2> HIDE DEF b
  <2>3. t \in State(p) /\ TextAt(p, t.i) /\ t.i <= Len(p)
    BY <1>2, <1>3, <2>1, <2>2 DEF n
  <2>4. /\ Scan(p, t).i = b + 1
        /\ Scan(p, t).nstr = Append(SubSeq(p, a, b - 1), p[b])
        /\ Scan(p, t).vec = s.vec
    BY <2>1, <2>3, ScanText
  <2>5. Append(SubSeq(p, a, b - 1), p[b]) = SubSeq(p, a, b)
    BY <1>1, <2>2, SubSeqGrows DEF n
  <2>6. Scan(p, t) \in Reached(p)
    BY <1>3, <2>3 DEF n
  <2>7. At(m, Scan(p, t))
    BY <2>2, <2>4, <2>5
  <2> HIDE DEF At
  <2> QED
    BY <2>2, <2>6, <2>7
<1>6. 0..(e - a + 1) \subseteq Good
  <2> HIDE DEF Good
  <2> QED
    BY <1>1, <1>4, <1>5, IntervalInduction
<1>7. e - a + 1 \in Good
  <2>1. e - a + 1 \in 0..(e - a + 1)
    BY <1>1
  <2> HIDE DEF Good
  <2> QED
    BY <1>6, <2>1
<1>8. a + (e - a + 1) = e + 1 /\ a + (e - a + 1) - 1 = e
  BY <1>1
<1> QED
  BY <1>7, <1>8 DEF a

\* What starts with a directive is no text.
LEMMA NotText ==
    ASSUME NEW p \in Seq(Char), NEW a \in 1..Len(p), NEW e \in a..Len(p), ~TextAt(p, a)
    PROVE  ~IsText(p, <<a, e>>)
<1>1. a \in a..e
  OBVIOUS
<1> QED
  BY <1>1 DEF IsText, TextAt

\* A directive has a name, so its percent sign is no text.
LEMMA PlainNotTextAt ==
    ASSUME NEW p \in Seq(Char), NEW a \in 1..Len(p), NEW e \in 1..Len(p), IsPlain(p, <<a, e>>)
    PROVE  p[a] = "%" /\ a < e /\ p[a + 1] \in Letter /\ ~TextAt(p, a)
<1>1. p[a] = "%" /\ e > a /\ \A k \in (a + 1)..e : p[k] \in Letter
  BY DEF IsPlain
<1>2. a < e /\ a + 1 \in (a + 1)..e
  BY <1>1
<1>3. "%" \notin Letter
  BY FormatterAssumption
<1> QED
  BY <1>1, <1>2, <1>3 DEF TextAt

\* A directive without braces takes its piece, if what follows lets it.
LEMMA PlainIs ==
    ASSUME NEW p \in Seq(Char), ~Escaped(p), NEW a \in 1..Len(p), NEW e \in a..Len(p), IsPlain(p, <<a, e>>)
    PROVE  /\ ~IsText(p, <<a, e>>)
           /\ Meaning(p, <<a, e>>) = Directive(SubSeq(p, a + 1, e), <<>>)
           /\ (e < Len(p) => p[e + 1] \notin Letter \cup {"{", "}"}) => NameEnd(p, a) = e + 1 /\ ~IsOpen(p, a)
<1>1. ~TextAt(p, a) /\ ~IsText(p, <<a, e>>)
  BY PlainNotTextAt, NotText
<1>2. Meaning(p, <<a, e>>) = Directive(SubSeq(p, a + 1, e), <<>>)
  <2>1. ~IsPercent(p, <<a, e>>)
    BY NoPercent
  <2> QED
    BY <1>1, <2>1 DEF Meaning
<1>3. ASSUME e < Len(p) => p[e + 1] \notin Letter \cup {"{", "}"}
      PROVE  NameEnd(p, a) = e + 1 /\ ~IsOpen(p, a)
  <2>1. \A k \in (a + 1)..e : p[k] \in Letter \cup {"}"}
    BY DEF IsPlain
  <2>2. a + 1 \in 1..(Len(p) + 1) /\ e + 1 \in (a + 1)..(Len(p) + 1) /\ (e + 1) - 1 = e
    OBVIOUS
  <2>3. e + 1 <= Len(p) => e < Len(p)
    OBVIOUS
  <2>4. NameEnd(p, a) = e + 1
    BY <1>3, <2>1, <2>2, <2>3, EndOfRunUnique DEF NameEnd
  <2> QED
    BY <1>3, <2>3, <2>4 DEF IsOpen
<1> QED
  BY <1>1, <1>2, <1>3

\* So does one with braces.
LEMMA BracedIs ==
    ASSUME NEW p \in Seq(Char), ~Escaped(p), NEW a \in 1..Len(p), NEW e \in a..Len(p),
           NEW b \in (a + 2)..(e - 1), IsBraced(p, <<a, e>>, b)
    PROVE  /\ ~TextAt(p, a) /\ ~IsText(p, <<a, e>>) /\ ~IsPlain(p, <<a, e>>)
           /\ Meaning(p, <<a, e>>) = Directive(SubSeq(p, a + 1, b - 1), SubSeq(p, b + 1, e - 1))
           /\ NameEnd(p, a) = b /\ IsOpen(p, a) /\ FormatEnd(p, a) = e
<1>1. /\ IsPlain(p, <<a, b - 1>>) /\ p[b] = "{" /\ p[e] = "}"
      /\ \A k \in (b + 1)..(e - 1) : p[k] # "}"
  BY DEF IsBraced
<1>2. /\ Len(p) \in Nat /\ a \in Nat /\ b \in Nat /\ e \in Nat
      /\ a >= 1 /\ a + 2 <= b /\ b + 1 <= e /\ e <= Len(p)
  OBVIOUS
<1>3. b - 1 \in a..Len(p) /\ b \in 1..Len(p) /\ b \in (a + 1)..(Len(p) + 1) /\ b <= Len(p)
  BY <1>2
<1>4. ~TextAt(p, a) /\ ~IsText(p, <<a, e>>)
  <2>1. b - 1 \in 1..Len(p)
    BY <1>2
  <2>2. ~TextAt(p, a)
    BY <1>1, <2>1, PlainNotTextAt
  <2> QED
    BY <2>2, NotText
<1>5. "{" \notin Letter \cup {"}"}
  BY FormatterAssumption
<1>6. ~IsPlain(p, <<a, e>>)
  <2>1. b \in (a + 1)..e
    BY <1>2
  <2> QED
    BY <1>1, <1>5, <2>1 DEF IsPlain
<1>7. \A k \in (a + 1)..(b - 1) : p[k] \in Letter
  BY <1>1 DEF IsPlain
<1>8. NameEnd(p, a) = b
  <2>1. a + 1 \in 1..(Len(p) + 1)
    BY <1>2
  <2> QED
    BY <1>1, <1>3, <1>5, <1>7, <2>1, EndOfRunUnique DEF NameEnd
<1>9. IsOpen(p, a)
  BY <1>1, <1>3, <1>8 DEF IsOpen
<1>10. FormatEnd(p, a) = e
  <2>1. b + 1 \in 1..(Len(p) + 1) /\ e \in (b + 1)..(Len(p) + 1)
    BY <1>2
  <2>2. \A k \in (b + 1)..(e - 1) : p[k] \in Char \ {"}"}
    <3>1. \A k \in (b + 1)..(e - 1) : k \in 1..Len(p)
      BY <1>2
    <3>2. \A k \in 1..Len(p) : p[k] \in Char
      OBVIOUS
    <3> QED
      BY <1>1, <3>1, <3>2
  <2> QED
    BY <1>1, <1>8, <2>1, <2>2, EndOfRunUnique DEF FormatEnd, Closing
<1>11. ASSUME NEW d \in a..e, IsBraced(p, <<a, e>>, d) PROVE d = b
  <2>1. p[a] = "%" /\ IsPlain(p, <<a, d - 1>>) /\ p[d] = "{"
    BY <1>11 DEF IsBraced, IsPlain
  <2>2. d - 1 > a /\ \A k \in (a + 1)..(d - 1) : p[k] \in Letter
    BY <2>1 DEF IsPlain
  <2>3. d \in Nat /\ d > a
    BY <1>2, <2>2
  <2>4. ~(d < b)
    <3> SUFFICES ASSUME d < b PROVE FALSE
      OBVIOUS
    <3>1. d \in (a + 1)..(b - 1)
      BY <1>2, <2>3
    <3> QED
      BY <1>5, <1>7, <2>1, <3>1
  <2>5. ~(b < d)
    <3> SUFFICES ASSUME b < d PROVE FALSE
      OBVIOUS
    <3>1. b \in (a + 1)..(d - 1)
      BY <1>2, <2>3
    <3> QED
      BY <1>1, <1>5, <2>2, <3>1
  <2> QED
    BY <1>2, <2>3, <2>4, <2>5
<1>12. (CHOOSE d \in a..e : IsBraced(p, <<a, e>>, d)) = b
  <2>1. b \in a..e
    BY <1>2
  <2> QED
    BY <1>11, <2>1
<1>13. Meaning(p, <<a, e>>) = Directive(SubSeq(p, a + 1, b - 1), SubSeq(p, b + 1, e - 1))
  <2> DEFINE d == CHOOSE d \in a..e : IsBraced(p, <<a, e>>, d)
  <2>0. ~IsPercent(p, <<a, e>>)
    BY NoPercent
  <2>1. Meaning(p, <<a, e>>) = Directive(SubSeq(p, a + 1, d - 1), SubSeq(p, d + 1, e - 1))
    BY <1>4, <1>6, <2>0 DEF Meaning
  <2>2. d = b
    BY <1>12
  <2> HIDE DEF d
  <2> QED
    BY <2>1, <2>2
<1> QED
  BY <1>4, <1>6, <1>8, <1>9, <1>10, <1>13

\* The piece up to e can be taken at s: the texts and names around it end.
Takes(p, s, e) ==
    /\ IsPiece(p, <<s.i, e>>)
    /\ IsText(p, <<s.i, e>>) => s.nstr = <<>>
    /\ IsPlain(p, <<s.i, e>>) /\ e < Len(p) => p[e + 1] \notin Letter \cup {"{", "}"}

\* The next piece of a reading is taken by one turn, or by one for each character.
LEMMA TakePiece ==
    ASSUME NEW p \in Seq(Char), ~Escaped(p), NEW s \in Reached(p), NEW e \in (s.i)..Len(p), Takes(p, s, e)
    PROVE  \E t \in Reached(p) :
              /\ t.i = e + 1
              /\ Flush(t) = Append(Flush(s), Meaning(p, <<s.i, e>>))
              /\ IsText(p, <<s.i, e>>) \/ t.nstr = <<>>
<1> DEFINE a == s.i
           c == <<a, e>>
<1>1. s \in State(p)
  BY ReachedIs
<1>2. /\ Len(p) \in Nat /\ a \in Nat /\ e \in Nat /\ a <= Len(p) /\ e <= Len(p)
      /\ a \in 1..Len(p) /\ e \in 1..Len(p) /\ e \in a..Len(p)
  <2> DEFINE n == Len(p)
  <2>1. n \in Nat
    OBVIOUS
  <2>2. a \in 1..(n + 1)
    BY <1>1 DEF State
  <2>3. e \in a..n
    OBVIOUS
  <2> HIDE DEF a, n
  <2>4. a \in Nat /\ e \in Nat /\ a <= n /\ e <= n /\ a \in 1..n /\ e \in 1..n
    BY <2>1, <2>2, <2>3
  <2> QED
    BY <2>1, <2>3, <2>4 DEF n
<1>3. Scan(p, s) \in Reached(p)
  BY <1>2, ReachedIs
<1>4. CASE IsText(p, c)
  <2>1. s.nstr = <<>>
    BY <1>4 DEF Takes
  <2>2. PICK t \in Reached(p) : t.i = e + 1 /\ t.nstr = SubSeq(p, a, e) /\ t.vec = s.vec
    BY <1>4, <2>1, TakeText
  <2>3. t \in State(p)
    BY ReachedIs
  <2>4. SubSeq(p, a, e) # <<>>
    <3>1. a <= e
      BY <1>2
    <3> HIDE DEF a
    <3> QED
      BY <1>2, <3>1
  <2>5. Flush(s) = s.vec
    BY <1>1, <2>1, FlushIs
  <2>6. Flush(t) = Append(s.vec, Text(SubSeq(p, a, e)))
    BY <2>2, <2>3, <2>4, FlushIs
  <2>7. Meaning(p, c) = Text(SubSeq(p, a, e))
    BY <1>4 DEF Meaning
  <2> QED
    BY <1>4, <2>2, <2>5, <2>6, <2>7
<1>5. CASE IsPlain(p, c)
  <2>2. ~TextAt(p, a)
    BY <1>2, <1>5, PlainNotTextAt
  <2>3. /\ Meaning(p, c) = Directive(SubSeq(p, a + 1, e), <<>>)
        /\ NameEnd(p, a) = e + 1 /\ ~IsOpen(p, a)
    BY <1>2, <1>5, PlainIs DEF Takes
  <2>4. /\ Scan(p, s).i = e + 1 /\ Scan(p, s).nstr = <<>>
        /\ Scan(p, s).vec = Append(Flush(s), Directive(SubSeq(p, a + 1, (e + 1) - 1), <<>>))
    BY <1>1, <1>2, <2>2, <2>3, ScanDirective
  <2>5. (e + 1) - 1 = e
    BY <1>2
  <2>6. Scan(p, s) \in State(p)
    BY <1>3, ReachedIs
  <2>7. Flush(Scan(p, s)) = Scan(p, s).vec
    BY <2>4, <2>6, FlushIs
  <2> QED
    BY <1>3, <2>3, <2>4, <2>5, <2>7
<1>6. ASSUME NEW b \in (a + 2)..(e - 1), IsBraced(p, c, b)
      PROVE  \E t \in Reached(p) :
                t.i = e + 1 /\ Flush(t) = Append(Flush(s), Meaning(p, c)) /\ t.nstr = <<>>
  <2>1. /\ ~TextAt(p, a)
        /\ Meaning(p, c) = Directive(SubSeq(p, a + 1, b - 1), SubSeq(p, b + 1, e - 1))
        /\ NameEnd(p, a) = b /\ IsOpen(p, a) /\ FormatEnd(p, a) = e
    BY <1>2, <1>6, BracedIs
  <2>2. e <= Len(p)
    BY <1>2
  <2>3. /\ Scan(p, s).i = e + 1 /\ Scan(p, s).nstr = <<>>
        /\ Scan(p, s).vec = Append(Flush(s), Directive(SubSeq(p, a + 1, b - 1), SubSeq(p, b + 1, e - 1)))
    BY <1>1, <1>2, <2>1, <2>2, ScanDirective
  <2>4. Scan(p, s) \in State(p)
    BY <1>3, ReachedIs
  <2>5. Flush(Scan(p, s)) = Scan(p, s).vec
    BY <2>3, <2>4, FlushIs
  <2> QED
    BY <1>3, <2>1, <2>3, <2>5
<1>7. IsText(p, c) \/ IsPlain(p, c) \/ \E b \in (a + 2)..(e - 1) : IsBraced(p, c, b)
  <2>1. ~IsPercent(p, c)
    BY <1>2, NoPercent
  <2> QED
    BY <2>1 DEF Takes, IsPiece
<1> QED
  BY <1>4, <1>5, <1>6, <1>7

\* A prefix grows by one.
LEMMA PrefixGrows ==
    ASSUME NEW S, NEW n \in Nat, NEW F \in [1..n -> S], NEW j \in 1..n
    PROVE  Append([k \in 1..(j - 1) |-> F[k]], F[j]) = [k \in 1..j |-> F[k]]
<1> DEFINE u == [k \in 1..(j - 1) |-> F[k]]
           v == [k \in 1..j |-> F[k]]
<1>1. j \in Nat /\ j - 1 \in Nat /\ \A k \in 1..(j - 1) : k \in 1..n
  OBVIOUS
<1>2. \A k \in 1..j : k \in 1..n
  OBVIOUS
<1>3. u \in Seq(S) /\ Len(u) = j - 1
  BY <1>1
<1>4. v \in Seq(S) /\ Len(v) = j
  BY <1>1, <1>2
<1>5. \A k \in 1..(j - 1) : u[k] = F[k]
  OBVIOUS
<1>6. \A k \in 1..j : v[k] = F[k]
  OBVIOUS
<1> HIDE DEF u, v
<1>7. F[j] \in S
  OBVIOUS
<1>8. Append(u, F[j]) \in Seq(S) /\ Len(Append(u, F[j])) = j
  BY <1>1, <1>3, <1>7
<1>9. ASSUME NEW k \in 1..j PROVE Append(u, F[j])[k] = v[k]
  <2>1. CASE k = j
    <3>1. k = Len(u) + 1
      BY <1>1, <1>3, <2>1
    <3> QED
      BY <1>3, <1>6, <1>7, <2>1, <3>1, AppendProperties
  <2>2. CASE k # j
    <3>1. k \in 1..(j - 1)
      BY <1>1, <2>2
    <3>2. Append(u, F[j])[k] = u[k]
      BY <1>1, <1>3, <1>7, <3>1, AppendProperties
    <3> QED
      BY <1>5, <1>6, <3>1, <3>2
  <2> QED
    BY <2>1, <2>2
<1>10. Append(u, F[j]) = v
  BY <1>4, <1>8, <1>9, SeqEqual
<1> QED
  BY <1>10 DEF u, v

First(ends, j) == IF j = 1 THEN 1 ELSE ends[j - 1] + 1

\* The pieces of a cut, one by one.
LEMMA PiecesIs ==
    ASSUME NEW n \in Nat, NEW ends \in [1..n -> Nat]
    PROVE  /\ Len(Pieces(ends)) = n
           /\ \A j \in 1..n : Pieces(ends)[j] = <<First(ends, j), ends[j]>>
<1>1. Pieces(ends) = [j \in 1..n |-> <<First(ends, j), ends[j]>>]
  BY DEF Pieces, First
<1> DEFINE T == {<<First(ends, j), ends[j]>> : j \in 1..n}
<1>2. Pieces(ends) \in Seq(T)
  <2>1. \A j \in 1..n : <<First(ends, j), ends[j]>> \in T
    OBVIOUS
  <2> HIDE DEF T
  <2> QED
    BY <1>1, <2>1
<1> QED
  BY <1>1, <1>2

\* Two facts about a cut: its pieces are not empty, and they are in the pattern.
LEMMA CutIs ==
    ASSUME NEW p \in Seq(Char), NEW n \in 1..Len(p), NEW ends \in Cuts(p, n)
    PROVE  /\ ends \in [1..n -> 1..Len(p)] /\ ends \in [1..n -> Nat] /\ ends[n] = Len(p)
           /\ \A j \in 1..n : First(ends, j) \in Nat /\ ends[j] \in First(ends, j)..Len(p)
           /\ \A j \in 1..n : j < n => ends[j] < Len(p)
<1> DEFINE len == Len(p)
<1>1. len \in Nat /\ n \in 1..len
  OBVIOUS
<1>2. ends \in [1..n -> 1..len] /\ ends[n] = len /\ \A j \in 2..n : ends[j - 1] < ends[j]
  BY DEF Cuts
<1> HIDE DEF len
<1>3. ends \in [1..n -> Nat]
  BY <1>1, <1>2
<1>4. ASSUME NEW j \in 1..n PROVE First(ends, j) \in Nat /\ ends[j] \in First(ends, j)..len
  <2>1. ends[j] \in 1..len
    BY <1>2
  <2>2. CASE j = 1
    BY <1>1, <2>1, <2>2 DEF First
  <2>3. CASE j # 1
    <3>1. j \in 2..n /\ j - 1 \in 1..n
      BY <1>1, <2>3
    <3>2. ends[j - 1] < ends[j] /\ ends[j - 1] \in 1..len
      BY <1>2, <3>1
    <3>3. First(ends, j) = ends[j - 1] + 1
      BY <2>3 DEF First
    <3> QED
      BY <1>1, <2>1, <3>2, <3>3
  <2> QED
    BY <2>2, <2>3
<1>5. ASSUME NEW j \in 1..n, j < n PROVE ends[j] < len
  <2>1. j + 1 \in 2..n /\ j + 1 \in 1..n /\ (j + 1) - 1 = j
    BY <1>1, <1>5
  <2>2. ends[j] < ends[j + 1] /\ ends[j + 1] \in 1..len /\ ends[j] \in 1..len
    BY <1>2, <2>1
  <2> QED
    BY <1>1, <2>2
<1> QED
  BY <1>2, <1>3, <1>4, <1>5 DEF len

(* Whatever reading a pattern has is what the loop makes of it.            *)
LEMMA ReadingIsFound ==
    ASSUME NEW p \in Seq(Char), ~Escaped(p), NEW n \in 1..Len(p), NEW ends \in Cuts(p, n),
           IsReading(p, Pieces(ends))
    PROVE  [j \in 1..n |-> Meaning(p, Pieces(ends)[j])] = Items(p)
<1> DEFINE c(j) == Pieces(ends)[j]
           F == [j \in 1..n |-> Meaning(p, c(j))]
           M(j) == [k \in 1..j |-> F[k]]
           At(j, s) == /\ s.i = First(ends, j + 1)
                       /\ Flush(s) = M(j)
                       /\ s.nstr = <<>> \/ (j > 0 /\ IsText(p, c(j)))
           Good == {j \in 0..n : \E s \in Reached(p) : At(j, s)}
<1>1. Len(p) \in Nat /\ n \in Nat /\ n >= 1 /\ n <= Len(p)
  OBVIOUS
<1>2. /\ ends \in [1..n -> 1..Len(p)] /\ ends \in [1..n -> Nat] /\ ends[n] = Len(p)
      /\ \A j \in 1..n : First(ends, j) \in Nat /\ ends[j] \in First(ends, j)..Len(p)
      /\ \A j \in 1..n : j < n => ends[j] < Len(p)
  BY CutIs
<1>3. Len(Pieces(ends)) = n /\ \A j \in 1..n : c(j) = <<First(ends, j), ends[j]>>
  BY <1>1, <1>2, PiecesIs
<1>4. /\ \A j \in 1..n : IsPiece(p, c(j))
      /\ \A j \in 1..(n - 1) : Fits(p, c(j), c(j + 1))
  BY <1>3 DEF IsReading
<1> HIDE DEF c
<1>5. F \in [1..n -> {Meaning(p, c(j)) : j \in 1..n}] /\ \A j \in 1..n : F[j] = Meaning(p, c(j))
  OBVIOUS
<1> HIDE DEF F
<1>6. M(0) = <<>>
  OBVIOUS
<1>7. \A j \in 1..n : M(j) = Append(M(j - 1), F[j])
  BY <1>1, <1>5, PrefixGrows
<1> HIDE DEF M
<1>8. 0 \in Good
  <2>1. Start \in Reached(p) /\ Start \in State(p)
    BY ReachedIs, StartIs
  <2>2. Flush(Start) = <<>>
    BY <2>1, StartIs, FlushIs
  <2>3. At(0, Start)
    BY <1>6, <2>2, StartIs DEF First
  <2> HIDE DEF At
  <2> QED
    BY <1>1, <2>1, <2>3
<1>9. ASSUME NEW j \in 1..n, j - 1 \in Good PROVE j \in Good
  <2>1. PICK s \in Reached(p) : At(j - 1, s)
    <3> HIDE DEF At
    <3> QED
      BY <1>9
  <2> DEFINE e == ends[j]
  <2>2. (j - 1) + 1 = j /\ j \in 0..n /\ j \in Nat /\ j > 0
    BY <1>1
  <2>3. /\ s.i = First(ends, j) /\ Flush(s) = M(j - 1)
        /\ s.nstr = <<>> \/ (j - 1 > 0 /\ IsText(p, c(j - 1)))
    BY <2>1, <2>2
  <2>4. c(j) = <<s.i, e>> /\ e \in (s.i)..Len(p)
    BY <1>2, <1>3, <2>3
  <2>5. ASSUME IsText(p, c(j)) PROVE s.nstr = <<>>
    <3> SUFFICES ASSUME j - 1 > 0, IsText(p, c(j - 1)) PROVE FALSE
      BY <2>3
    <3>1. j - 1 \in 1..(n - 1)
      BY <1>1
    <3>2. Fits(p, c(j - 1), c(j))
      BY <1>4, <2>2, <3>1
    <3> QED
      BY <2>5, <3>2 DEF Fits
  <2>6. ASSUME IsPlain(p, c(j)), e < Len(p) PROVE p[e + 1] \notin Letter \cup {"{", "}"}
    <3>1. j # n
      BY <1>1, <1>2, <2>6
    <3>2. j \in 1..(n - 1) /\ j + 1 \in 1..n /\ j + 1 # 1 /\ (j + 1) - 1 = j
      BY <1>1, <3>1
    <3>3. c(j + 1)[1] = e + 1
      BY <1>3, <3>2 DEF First
    <3>4. Fits(p, c(j), c(j + 1))
      BY <1>4, <3>2
    <3> QED
      BY <2>6, <3>3, <3>4 DEF Fits
  <2>7. Takes(p, s, e)
    BY <1>4, <2>4, <2>5, <2>6 DEF Takes
  <2>8. PICK t \in Reached(p) :
              /\ t.i = e + 1
              /\ Flush(t) = Append(Flush(s), Meaning(p, <<s.i, e>>))
              /\ IsText(p, <<s.i, e>>) \/ t.nstr = <<>>
    BY <2>4, <2>7, TakePiece
  <2>9. t.i = First(ends, j + 1)
    BY <2>2, <2>8 DEF First
  <2>10. Flush(t) = M(j)
    BY <1>5, <1>7, <2>3, <2>4, <2>8
  <2>11. At(j, t)
    BY <2>2, <2>4, <2>8, <2>9, <2>10
  <2> HIDE DEF At
  <2> QED
    BY <2>2, <2>11
<1>10. n \in Good
  <2>1. 0..n \subseteq Good
    <3> HIDE DEF Good
    <3> QED
      BY <1>1, <1>8, <1>9, IntervalInduction
  <2> HIDE DEF Good
  <2> QED
    BY <1>1, <2>1
<1>11. PICK s \in Reached(p) : At(n, s)
  <2> HIDE DEF At
  <2> QED
    BY <1>10
<1>12. s.i = Len(p) + 1 /\ Flush(s) = M(n)
  <2>1. n + 1 # 1 /\ (n + 1) - 1 = n
    BY <1>1
  <2> QED
    BY <1>2, <1>11, <2>1 DEF First
<1>13. Items(p) = M(n)
  BY <1>12, ReachedIs
<1> QED
  BY <1>5, <1>13 DEF M, F, c

-----------------------------------------------------------------------------
(* From the items to a reading: as long as there is no error, the loop has *)
(* cut what it has taken into pieces.                                      *)

PieceAt(ends, j) == <<First(ends, j), ends[j]>>

Partial(p, s, n, ends) ==
    /\ n \in 0..(s.i - 1) /\ ends \in [1..n -> 1..(s.i - 1)]
    /\ First(ends, n + 1) = s.i
    /\ \A j \in 2..n : ends[j - 1] < ends[j]
    /\ \A j \in 1..n : IsPiece(p, PieceAt(ends, j))
    /\ \A j \in 1..(n - 1) : Fits(p, PieceAt(ends, j), PieceAt(ends, j + 1))
    /\ s.nstr # <<>> <=> n > 0 /\ IsText(p, PieceAt(ends, n))
    /\ n > 0 /\ IsPlain(p, PieceAt(ends, n)) /\ s.i <= Len(p) => p[s.i] \notin Letter \cup {"{", "}"}

\* Pieces lie in what has been taken, and are not empty.
LEMMA PartialIs ==
    ASSUME NEW p \in Seq(Char), NEW s \in State(p), NEW n, NEW ends, Partial(p, s, n, ends)
    PROVE  /\ n \in Nat /\ s.i \in Nat /\ n < s.i
           /\ \A j \in 1..n : ends[j] \in Nat /\ 1 <= ends[j] /\ ends[j] < s.i
           /\ \A j \in 1..n : First(ends, j) \in 1..ends[j]
<1> DEFINE i == s.i
<1>1. i \in Nat /\ i >= 1
  BY DEF State
<1>2. n \in 0..(i - 1) /\ ends \in [1..n -> 1..(i - 1)] /\ \A j \in 2..n : ends[j - 1] < ends[j]
  BY DEF Partial
<1> HIDE DEF i
<1>3. n \in Nat /\ n < i
  BY <1>1, <1>2
<1>4. \A j \in 1..n : ends[j] \in Nat /\ 1 <= ends[j] /\ ends[j] < i
  BY <1>1, <1>2
<1>5. ASSUME NEW j \in 1..n PROVE First(ends, j) \in 1..ends[j]
  <2>1. CASE j = 1
    BY <1>4, <2>1 DEF First
  <2>2. CASE j # 1
    <3>1. j \in 2..n /\ j - 1 \in 1..n
      BY <1>3, <2>2
    <3>2. ends[j - 1] \in Nat /\ ends[j] \in Nat /\ ends[j - 1] < ends[j]
      BY <1>2, <1>4, <3>1
    <3> QED
      BY <2>2, <3>2 DEF First
  <2> QED
    BY <2>1, <2>2
<1> QED
  BY <1>1, <1>3, <1>4, <1>5 DEF i

\* A piece is added behind the others.
LEMMA AddPiece ==
    ASSUME NEW p \in Seq(Char), NEW s \in State(p), NEW n, NEW ends, Partial(p, s, n, ends),
           NEW e \in (s.i)..Len(p), Takes(p, s, e),
           NEW t \in State(p), t.i = e + 1, t.nstr # <<>> <=> IsText(p, <<s.i, e>>)
    PROVE  \E m, f : Partial(p, t, m, f)
<1> DEFINE i == s.i
           f == [j \in 1..(n + 1) |-> IF j = n + 1 THEN e ELSE ends[j]]
<1>1. /\ n \in Nat /\ i \in Nat /\ n < i
      /\ \A j \in 1..n : ends[j] \in Nat /\ 1 <= ends[j] /\ ends[j] < i
  BY PartialIs
<1>2. Len(p) \in Nat /\ e \in Nat /\ i <= e /\ e <= Len(p) /\ t.i - 1 = e /\ i >= 1
  <2>1. i >= 1 /\ e \in i..Len(p)
    BY DEF State
  <2>2. Len(p) \in Nat
    OBVIOUS
  <2> HIDE DEF i
  <2>3. e \in Nat /\ i <= e /\ e <= Len(p)
    BY <1>1, <2>1, <2>2
  <2> QED
    BY <2>1, <2>2, <2>3
<1>3. /\ First(ends, n + 1) = i
      /\ \A j \in 2..n : ends[j - 1] < ends[j]
      /\ \A j \in 1..n : IsPiece(p, PieceAt(ends, j))
      /\ \A j \in 1..(n - 1) : Fits(p, PieceAt(ends, j), PieceAt(ends, j + 1))
      /\ s.nstr # <<>> <=> n > 0 /\ IsText(p, PieceAt(ends, n))
      /\ n > 0 /\ IsPlain(p, PieceAt(ends, n)) /\ i <= Len(p) => p[i] \notin Letter \cup {"{", "}"}
  BY DEF Partial
<1>4. /\ IsPiece(p, <<i, e>>) /\ (IsText(p, <<i, e>>) => s.nstr = <<>>)
      /\ (IsPlain(p, <<i, e>>) /\ e < Len(p) => p[e + 1] \notin Letter \cup {"{", "}"})
  BY DEF Takes
<1>5. t.i = e + 1 /\ (t.nstr # <<>> <=> IsText(p, <<i, e>>))
  OBVIOUS
<1> HIDE DEF i
<1>6. \A j \in 1..n : j \in 1..(n + 1) /\ j # n + 1 /\ j + 1 \in 1..(n + 1)
  BY <1>1
<1>7. n + 1 \in 1..(n + 1) /\ f[n + 1] = e /\ \A j \in 1..n : f[j] = ends[j]
  BY <1>1, <1>6
<1>8. f \in [1..(n + 1) -> 1..e]
  <2>1. ASSUME NEW j \in 1..(n + 1) PROVE (IF j = n + 1 THEN e ELSE ends[j]) \in 1..e
    <3>1. CASE j = n + 1
      BY <1>1, <1>2, <3>1
    <3>2. CASE j # n + 1
      <4>1. j \in 1..n
        BY <1>1, <3>2
      <4> QED
        BY <1>1, <1>2, <3>2, <4>1
    <3> QED
      BY <3>1, <3>2
  <2> QED
    BY <2>1
<1> HIDE DEF f
<1>9. ASSUME NEW j \in 1..n PROVE PieceAt(f, j) = PieceAt(ends, j)
  <2>1. f[j] = ends[j]
    BY <1>7
  <2>2. CASE j = 1
    BY <2>1, <2>2 DEF PieceAt, First
  <2>3. CASE j # 1
    <3>1. j - 1 \in 1..n
      BY <1>1, <2>3
    <3>2. f[j - 1] = ends[j - 1]
      BY <1>7, <3>1
    <3> QED
      BY <2>1, <2>3, <3>2 DEF PieceAt, First
  <2> QED
    BY <2>2, <2>3
<1>10. PieceAt(f, n + 1) = <<i, e>>
  <2>1. CASE n = 0
    <3>1. n + 1 = 1
      BY <2>1
    <3> QED
      BY <1>3, <1>7, <3>1 DEF PieceAt, First
  <2>2. CASE n # 0
    <3>1. n \in 1..n /\ n + 1 # 1 /\ (n + 1) - 1 = n
      BY <1>1, <2>2
    <3>2. f[n] = ends[n]
      BY <1>7, <3>1
    <3> QED
      BY <1>3, <1>7, <3>1, <3>2 DEF PieceAt, First
  <2> QED
    BY <2>1, <2>2
<1>11. n + 1 \in 0..(t.i - 1) /\ f \in [1..(n + 1) -> 1..(t.i - 1)]
  BY <1>1, <1>2, <1>8
<1>12. First(f, (n + 1) + 1) = t.i
  <2>1. (n + 1) + 1 # 1 /\ ((n + 1) + 1) - 1 = n + 1
    BY <1>1
  <2> QED
    BY <1>5, <1>7, <2>1 DEF First
<1>13. ASSUME NEW j \in 2..(n + 1) PROVE f[j - 1] < f[j]
  <2>1. j - 1 \in 1..n
    BY <1>1
  <2>2. CASE j = n + 1
    <3>1. j - 1 = n
      BY <1>1, <2>2
    <3> QED
      BY <1>1, <1>2, <1>7, <2>1, <2>2, <3>1
  <2>3. CASE j # n + 1
    <3>1. j \in 2..n /\ j \in 1..n
      BY <1>1, <2>3
    <3> QED
      BY <1>3, <1>7, <2>1, <3>1
  <2> QED
    BY <2>2, <2>3
<1>14. ASSUME NEW j \in 1..(n + 1) PROVE IsPiece(p, PieceAt(f, j))
  <2>1. CASE j = n + 1
    BY <1>4, <1>10, <2>1
  <2>2. CASE j # n + 1
    <3>1. j \in 1..n
      BY <1>1, <2>2
    <3> QED
      BY <1>3, <1>9, <3>1
  <2> QED
    BY <2>1, <2>2
<1>15. ASSUME NEW j \in 1..n PROVE Fits(p, PieceAt(f, j), PieceAt(f, j + 1))
  <2>1. CASE j = n
    <3>1. n > 0 /\ i <= Len(p)
      BY <1>1, <1>2
    <3>2. IsText(p, PieceAt(ends, n)) => ~IsText(p, <<i, e>>)
      BY <1>3, <1>4, <3>1
    <3>3. IsPlain(p, PieceAt(ends, n)) => p[<<i, e>>[1]] \notin Letter \cup {"{", "}"}
      BY <1>3, <3>1
    <3>4. Fits(p, PieceAt(ends, n), <<i, e>>)
      BY <3>2, <3>3 DEF Fits
    <3> QED
      BY <1>9, <1>10, <2>1, <3>4
  <2>2. CASE j # n
    <3>1. j \in 1..(n - 1) /\ j + 1 \in 1..n
      BY <1>1, <2>2
    <3> QED
      BY <1>3, <1>9, <3>1
  <2> QED
    BY <2>1, <2>2
<1>16. (n + 1) - 1 = n /\ n + 1 > 0
  BY <1>1
<1>17. t.nstr # <<>> <=> n + 1 > 0 /\ IsText(p, PieceAt(f, n + 1))
  BY <1>5, <1>10, <1>16
<1>18. n + 1 > 0 /\ IsPlain(p, PieceAt(f, n + 1)) /\ t.i <= Len(p) => p[t.i] \notin Letter \cup {"{", "}"}
  <2>1. t.i <= Len(p) => e < Len(p)
    BY <1>2, <1>5
  <2> QED
    BY <1>4, <1>5, <1>10, <2>1
<1>19. Partial(p, t, n + 1, f)
  BY <1>11, <1>12, <1>13, <1>14, <1>15, <1>16, <1>17, <1>18 DEF Partial
<1> QED
  BY <1>19

\* The last piece is a text and takes one more character.
LEMMA ExtendText ==
    ASSUME NEW p \in Seq(Char), ~Escaped(p), NEW s \in State(p), NEW n, NEW ends, Partial(p, s, n, ends),
           s.i <= Len(p), s.nstr # <<>>, TextAt(p, s.i),
           NEW t \in State(p), t.i = s.i + 1, t.nstr # <<>>
    PROVE  \E f : Partial(p, t, n, f)
<1> DEFINE i == s.i
           f == [j \in 1..n |-> IF j = n THEN i ELSE ends[j]]
           a == First(ends, n)
<1>1. /\ n \in Nat /\ i \in Nat /\ n < i
      /\ \A j \in 1..n : ends[j] \in Nat /\ 1 <= ends[j] /\ ends[j] < i
      /\ \A j \in 1..n : First(ends, j) \in 1..ends[j]
  BY PartialIs
<1>2. Len(p) \in Nat /\ i <= Len(p) /\ i >= 1 /\ TextAt(p, i)
  BY DEF State
<1>3. /\ First(ends, n + 1) = i
      /\ \A j \in 2..n : ends[j - 1] < ends[j]
      /\ \A j \in 1..n : IsPiece(p, PieceAt(ends, j))
      /\ \A j \in 1..(n - 1) : Fits(p, PieceAt(ends, j), PieceAt(ends, j + 1))
      /\ s.nstr # <<>> <=> n > 0 /\ IsText(p, PieceAt(ends, n))
  BY DEF Partial
<1>4. t.i = i + 1 /\ t.nstr # <<>>
  OBVIOUS
<1>5. n > 0 /\ n \in 1..n /\ IsText(p, PieceAt(ends, n))
  BY <1>1, <1>3
<1> HIDE DEF i
<1>6. ends[n] = i - 1 /\ a \in Nat /\ a >= 1 /\ a <= i - 1
  <2>1. n + 1 # 1 /\ (n + 1) - 1 = n
    BY <1>1, <1>5
  <2>2. ends[n] + 1 = i
    BY <1>3, <2>1 DEF First
  <2> QED
    BY <1>1, <1>5, <2>2
<1> HIDE DEF a
<1>7. f[n] = i /\ \A j \in 1..n : j # n => f[j] = ends[j]
  BY <1>5
<1>8. f \in [1..n -> 1..i]
  <2>1. ASSUME NEW j \in 1..n PROVE (IF j = n THEN i ELSE ends[j]) \in 1..i
    BY <1>1, <1>2
  <2> QED
    BY <2>1
<1> HIDE DEF f
<1>9. ASSUME NEW j \in 1..n PROVE First(f, j) = First(ends, j)
  <2>1. CASE j = 1
    BY <2>1 DEF First
  <2>2. CASE j # 1
    <3>1. j - 1 \in 1..n /\ j - 1 # n
      BY <1>1, <2>2
    <3>2. f[j - 1] = ends[j - 1]
      BY <1>7, <3>1
    <3> QED
      BY <2>2, <3>2 DEF First
  <2> QED
    BY <2>1, <2>2
<1>10. ASSUME NEW j \in 1..n, j # n PROVE PieceAt(f, j) = PieceAt(ends, j)
  BY <1>7, <1>9, <1>10 DEF PieceAt
<1>11. PieceAt(f, n) = <<a, i>> /\ PieceAt(ends, n) = <<a, i - 1>>
  BY <1>5, <1>6, <1>7, <1>9 DEF PieceAt, a
<1>12. IsText(p, <<a, i>>)
  <2>1. \A k \in a..(i - 1) : p[k] # "%"
    BY <1>5, <1>11 DEF IsText
  <2>2. p[i] # "%"
    BY <1>1, <1>2, TextIs
  <2>3. \A k \in a..i : k = i \/ k \in a..(i - 1)
    BY <1>1, <1>6
  <2>4. \A k \in a..i : p[k] # "%"
    BY <2>1, <2>2, <2>3
  <2> QED
    BY <2>4 DEF IsText
<1>13. n \in 0..(t.i - 1) /\ f \in [1..n -> 1..(t.i - 1)]
  <2>1. t.i - 1 = i
    BY <1>1, <1>4
  <2> QED
    BY <1>1, <1>8, <2>1
<1>14. First(f, n + 1) = t.i
  <2>1. n + 1 # 1 /\ (n + 1) - 1 = n
    BY <1>1, <1>5
  <2> QED
    BY <1>4, <1>7, <2>1 DEF First
<1>15. ASSUME NEW j \in 2..n PROVE f[j - 1] < f[j]
  <2>1. j - 1 \in 1..n /\ j - 1 # n /\ j \in 1..n
    BY <1>1
  <2>2. f[j - 1] = ends[j - 1] /\ ends[j - 1] < ends[j] /\ ends[j - 1] < i
    BY <1>1, <1>3, <1>7, <2>1
  <2> QED
    BY <1>7, <2>1, <2>2
<1>16. ASSUME NEW j \in 1..n PROVE IsPiece(p, PieceAt(f, j))
  <2>1. CASE j = n
    BY <1>11, <1>12, <2>1 DEF IsPiece
  <2>2. CASE j # n
    BY <1>3, <1>10, <2>2
  <2> QED
    BY <2>1, <2>2
<1>17. ASSUME NEW j \in 1..(n - 1) PROVE Fits(p, PieceAt(f, j), PieceAt(f, j + 1))
  <2>1. j \in 1..n /\ j # n /\ j + 1 \in 1..n
    BY <1>1
  <2>2. Fits(p, PieceAt(ends, j), PieceAt(ends, j + 1)) /\ PieceAt(f, j) = PieceAt(ends, j)
    BY <1>3, <1>10, <2>1
  <2>3. CASE j + 1 = n
    <3>1. Fits(p, PieceAt(ends, j), <<a, i - 1>>) /\ IsText(p, <<a, i - 1>>)
      BY <1>5, <1>11, <2>2, <2>3
    <3>2. Fits(p, PieceAt(ends, j), <<a, i>>)
      BY <3>1 DEF Fits
    <3> QED
      BY <1>11, <2>2, <2>3, <3>2
  <2>4. CASE j + 1 # n
    BY <1>10, <2>1, <2>2, <2>4
  <2> QED
    BY <2>3, <2>4
<1>18. t.nstr # <<>> <=> n > 0 /\ IsText(p, PieceAt(f, n))
  BY <1>4, <1>5, <1>11, <1>12
<1>19. ~IsPlain(p, PieceAt(f, n))
  <2>1. a \in 1..Len(p) /\ i \in 1..Len(p) /\ i \in a..Len(p) /\ a \in a..i
    BY <1>1, <1>2, <1>6
  <2>2. TextAt(p, a)
    BY <1>12, <2>1 DEF IsText, TextAt
  <2> QED
    BY <1>11, <2>1, <2>2, PlainNotTextAt
<1>20. Partial(p, t, n, f)
  BY <1>13, <1>14, <1>15, <1>16, <1>17, <1>18, <1>19 DEF Partial
<1> QED
  BY <1>20

Bad(it) == it.kind = "unclosed" \/ (it.kind = "directive" /\ it.name \notin Known)
HasError(v) == \E k \in 1..Len(v) : Bad(v[k])

\* An error stays.
LEMMA ErrorStays ==
    ASSUME NEW v \in Seq(Piece), NEW it \in Piece
    PROVE  HasError(Append(v, it)) <=> HasError(v) \/ Bad(it)
<1> DEFINE w == Append(v, it)
<1>1. Len(v) \in Nat
  OBVIOUS
<1>2. Len(w) = Len(v) + 1 /\ w[Len(v) + 1] = it /\ \A k \in 1..Len(v) : w[k] = v[k]
  BY AppendProperties
<1> HIDE DEF w
<1>3. \A k \in 1..Len(w) : k \in 1..Len(v) \/ k = Len(v) + 1
  BY <1>1, <1>2
<1>4. Len(v) + 1 \in 1..Len(w) /\ \A k \in 1..Len(v) : k \in 1..Len(w)
  BY <1>1, <1>2
<1>5. HasError(w) <=> HasError(v) \/ Bad(it)
  BY <1>2, <1>3, <1>4 DEF HasError
<1> QED
  BY <1>5 DEF w

\* Text is no error.
LEMMA FlushError ==
    ASSUME NEW p \in Seq(Char), NEW s \in State(p)
    PROVE  HasError(Flush(s)) <=> HasError(s.vec)
<1>1. s.nstr \in Seq(Char) /\ s.vec \in Seq(Piece)
  BY DEF State
<1>2. Text(s.nstr) \in Piece /\ ~Bad(Text(s.nstr))
  BY <1>1 DEF Text, Piece, Bad
<1>3. HasError(Append(s.vec, Text(s.nstr))) <=> HasError(s.vec)
  BY <1>1, <1>2, ErrorStays
<1> QED
  BY <1>3, FlushIs

\* A known name is made of letters.
LEMMA KnownIs ==
    ASSUME NEW p \in Seq(Char), NEW a \in 1..Len(p), NEW n \in (a + 1)..(Len(p) + 1),
           SubSeq(p, a + 1, n - 1) \in Known
    PROVE  a + 2 <= n /\ \A k \in (a + 1)..(n - 1) : p[k] \in Letter
<1> DEFINE name == SubSeq(p, a + 1, n - 1)
<1>1. Len(p) \in Nat /\ a \in Nat /\ n \in Nat /\ a >= 1 /\ a + 1 <= n /\ n - 1 <= Len(p)
  OBVIOUS
<1>2. name \in Seq(Letter) /\ name # <<>>
  BY FormatterAssumption
<1>3. Len(name) = (n - 1) - a /\ \A k \in 1..((n - 1) - a) : name[k] = p[a + k]
  <2>1. a + 1 \in 1..(Len(p) + 1) /\ n - 1 \in a..Len(p)
    BY <1>1
  <2>2. \A k \in 1..((n - 1) - a) : (a + 1) + k - 1 = a + k
    BY <1>1
  <2> QED
    BY <1>1, <2>1, <2>2
<1> HIDE DEF name
<1>4. Len(name) # 0
  BY <1>2, EmptySeq
<1>5. a + 2 <= n
  BY <1>1, <1>3, <1>4
<1>6. ASSUME NEW k \in (a + 1)..(n - 1) PROVE p[k] \in Letter
  <2>1. k - a \in 1..Len(name) /\ a + (k - a) = k /\ k - a \in 1..((n - 1) - a)
    BY <1>1, <1>3
  <2>2. name[k - a] = p[k]
    BY <1>3, <2>1
  <2>3. name[k - a] \in Letter
    BY <1>2, <2>1
  <2> QED
    BY <2>2, <2>3
<1> QED
  BY <1>5, <1>6

Readable(p) == {s \in State(p) : HasError(s.vec) \/ \E n, ends : Partial(p, s, n, ends)}

\* Nothing is cut into no pieces.
LEMMA StartReadable ==
    ASSUME NEW p \in Seq(Char)
    PROVE  Start \in Readable(p)
<1> DEFINE ends == [j \in 1..0 |-> 1]
<1>1. Start \in State(p) /\ Start.i = 1 /\ Start.nstr = <<>>
  BY StartIs
<1>2. 0 \in 0..(Start.i - 1) /\ ends \in [1..0 -> 1..(Start.i - 1)]
  BY <1>1
<1>3. First(ends, 0 + 1) = Start.i
  BY <1>1 DEF First
<1> HIDE DEF ends
<1>4. Partial(p, Start, 0, ends)
  BY <1>1, <1>2, <1>3 DEF Partial
<1> QED
  BY <1>1, <1>4 DEF Readable

\* Text makes the last piece longer, or a new one.
LEMMA TextReadable ==
    ASSUME NEW p \in Seq(Char), ~Escaped(p), NEW s \in Readable(p), s.i <= Len(p), TextAt(p, s.i)
    PROVE  Scan(p, s) \in Readable(p)
<1> DEFINE t == Scan(p, s)
<1>1. s \in State(p) /\ s.nstr \in Seq(Char) /\ s.i \in Nat /\ s.i >= 1 /\ s.i \in (s.i)..Len(p)
  <2>1. s \in State(p)
    BY DEF Readable
  <2>2. s.i \in 1..(Len(p) + 1) /\ s.nstr \in Seq(Char)
    BY <2>1 DEF State
  <2> QED
    BY <2>1, <2>2
<1>2. t \in State(p) /\ t.i = s.i + 1 /\ t.nstr = Append(s.nstr, p[s.i]) /\ t.vec = s.vec
  BY <1>1, ScanText
<1>3. t.nstr # <<>>
  <2>1. p[s.i] \in Char
    BY <1>1
  <2>2. Append(s.nstr, p[s.i]) # <<>>
    BY <1>1, <2>1
  <2> QED
    BY <1>2, <2>2
<1> HIDE DEF t
<1>4. CASE HasError(s.vec)
  BY <1>2, <1>4 DEF Readable, t
<1>5. ASSUME NEW n, NEW ends, Partial(p, s, n, ends) PROVE \E m, f : Partial(p, t, m, f)
  <2>1. CASE s.nstr # <<>>
    BY <1>1, <1>2, <1>3, <1>5, <2>1, ExtendText
  <2>2. CASE s.nstr = <<>>
    <3> DEFINE i == s.i
    <3>1. IsText(p, <<i, i>>)
      <4>1. \A k \in i..i : k = i
        BY <1>1
      <4>2. p[i] # "%"
        <5>1. i \in 1..Len(p)
          BY <1>1
        <5> QED
          BY <5>1, TextIs
      <4> HIDE DEF i
      <4> QED
        BY <4>1, <4>2 DEF IsText
    <3>2. ~IsPlain(p, <<i, i>>)
      BY <1>1 DEF IsPlain
    <3>3. Takes(p, s, i)
      BY <2>2, <3>1, <3>2 DEF Takes, IsPiece
    <3>4. t.nstr # <<>> <=> IsText(p, <<s.i, i>>)
      BY <1>3, <3>1
    <3>5. i \in (s.i)..Len(p) /\ t.i = i + 1
      BY <1>1, <1>2
    <3> HIDE DEF i
    <3> QED
      BY <1>1, <1>2, <1>5, <3>3, <3>4, <3>5, AddPiece
  <2> QED
    BY <2>1, <2>2
<1> QED
  BY <1>2, <1>4, <1>5 DEF Readable, t

\* A directive with a known name is a new piece; any other is an error.
LEMMA DirectiveReadable ==
    ASSUME NEW p \in Seq(Char), ~Escaped(p), NEW s \in Readable(p), s.i <= Len(p), ~TextAt(p, s.i)
    PROVE  Scan(p, s) \in Readable(p)
<1> DEFINE t == Scan(p, s)
           i == s.i
           n == NameEnd(p, i)
           k == FormatEnd(p, i)
           name == SubSeq(p, i + 1, n - 1)
           fmt == SubSeq(p, n + 1, k - 1)
<1>1. s \in State(p) /\ i \in 1..Len(p) /\ Len(p) \in Nat /\ i \in Nat
  <2>1. s \in State(p)
    BY DEF Readable
  <2>2. i \in 1..(Len(p) + 1) /\ Len(p) \in Nat
    BY <2>1 DEF State
  <2> QED
    BY <2>1, <2>2
<1>2. /\ t \in State(p)
      /\ IsOpen(p, i) /\ k > Len(p) => t.vec = Append(s.vec, PatternError)
      /\ IsOpen(p, i) /\ k <= Len(p) =>
            t.i = k + 1 /\ t.nstr = <<>> /\ t.vec = Append(Flush(s), Directive(name, fmt))
      /\ ~IsOpen(p, i) =>
            t.i = n /\ t.nstr = <<>> /\ t.vec = Append(Flush(s), Directive(name, <<>>))
  BY <1>1, ScanDirective
<1>3. /\ n \in (i + 1)..(Len(p) + 1)
      /\ \A j \in (i + 1)..(n - 1) : p[j] \in Letter \cup {"}"}
      /\ n <= Len(p) => p[n] \notin Letter \cup {"}"}
  BY <1>1, NameEndIs
<1>4. IsOpen(p, i) => /\ k \in (n + 1)..(Len(p) + 1)
                      /\ \A j \in (n + 1)..(k - 1) : p[j] # "}"
                      /\ k <= Len(p) => p[k] = "}"
  BY <1>1, FormatEndIs
<1>5. p[i] = "%"
  BY DEF TextAt
<1>6. IsOpen(p, i) <=> n <= Len(p) /\ p[n] = "{"
  BY DEF IsOpen
<1>7. name \in Known => i + 2 <= n /\ \A j \in (i + 1)..(n - 1) : p[j] \in Letter
  BY <1>1, <1>3, KnownIs
<1>8. Flush(s) \in Seq(Piece) /\ (HasError(Flush(s)) <=> HasError(s.vec)) /\ s.vec \in Seq(Piece)
  BY <1>1, FlushIs, FlushError DEF State
<1>9. ~TextAt(p, i)
  OBVIOUS
<1>10. HasError(s.vec) \/ \E m, f : Partial(p, s, m, f)
  BY DEF Readable
<1> HIDE DEF t, n, k, i
<1>11. n \in Nat /\ i + 1 <= n /\ n <= Len(p) + 1
  <2>1. n \in (i + 1)..(Len(p) + 1)
    BY <1>3
  <2> QED
    BY <1>1, <2>1
<1>17. IsOpen(p, i) => k \in Nat /\ n + 1 <= k /\ k <= Len(p) + 1
  <2>1. IsOpen(p, i) => k \in (n + 1)..(Len(p) + 1)
    BY <1>4
  <2> QED
    BY <1>1, <1>11, <2>1
<1>12. name \in Seq(Char)
  BY <1>1, <1>11
<1> SUFFICES ASSUME ~HasError(t.vec) PROVE \E m, f : Partial(p, t, m, f)
  BY <1>2 DEF Readable, t
<1>13. CASE IsOpen(p, i) /\ k > Len(p)
  <2>1. PatternError \in Piece /\ Bad(PatternError)
    BY DEF PatternError, Piece, Bad
  <2>2. HasError(t.vec)
    BY <1>2, <1>8, <1>13, <2>1, ErrorStays
  <2> QED
    BY <2>2
<1>14. CASE IsOpen(p, i) /\ k <= Len(p)
  <2>1. k \in Nat /\ n + 1 <= k /\ k <= Len(p)
    BY <1>14, <1>17
  <2>2. fmt \in Seq(Char)
    BY <1>1, <1>11, <2>1
  <2> HIDE DEF name, fmt
  <2>3. Directive(name, fmt) \in Piece /\ (name \notin Known => Bad(Directive(name, fmt)))
    BY <1>12, <2>2 DEF Directive, Piece, Bad
  <2>4. name \in Known /\ ~HasError(s.vec)
    BY <1>2, <1>8, <1>14, <2>3, ErrorStays
  <2>5. i + 2 <= n /\ \A j \in (i + 1)..(n - 1) : p[j] \in Letter
    BY <1>7, <2>4
  <2>6. i \in 1..Len(p) /\ k \in i..Len(p) /\ n \in (i + 2)..(k - 1)
    BY <1>1, <1>11, <2>1, <2>5
  <2>7. IsPlain(p, <<i, n - 1>>)
    <3>1. n - 1 > i
      BY <1>1, <1>11, <2>5
    <3> QED
      BY <1>5, <2>5, <3>1 DEF IsPlain
  <2>8. IsBraced(p, <<i, k>>, n)
    <3>1. p[n] = "{" /\ p[k] = "}" /\ \A j \in (n + 1)..(k - 1) : p[j] # "}"
      BY <1>4, <1>6, <1>14
    <3> QED
      BY <2>7, <3>1 DEF IsBraced
  <2>9. ~IsText(p, <<i, k>>) /\ ~IsPlain(p, <<i, k>>)
    BY <2>6, <2>8, BracedIs
  <2>10. IsPiece(p, <<i, k>>)
    BY <2>6, <2>8 DEF IsPiece
  <2>11. Takes(p, s, k)
    BY <2>9, <2>10 DEF Takes, i
  <2>12. t.i = k + 1 /\ (t.nstr # <<>> <=> IsText(p, <<s.i, k>>))
    BY <1>2, <1>14, <2>9 DEF i
  <2>13. k \in (s.i)..Len(p)
    BY <2>6 DEF i
  <2>14. PICK m, f : Partial(p, s, m, f)
    BY <1>10, <2>4
  <2> QED
    BY <1>1, <1>2, <2>11, <2>12, <2>13, <2>14, AddPiece
<1>15. CASE ~IsOpen(p, i)
  <2> DEFINE e == n - 1
  <2> HIDE DEF name, fmt
  <2>1. Directive(name, <<>>) \in Piece /\ (name \notin Known => Bad(Directive(name, <<>>)))
    BY <1>12 DEF Directive, Piece, Bad
  <2>2. name \in Known /\ ~HasError(s.vec)
    BY <1>2, <1>8, <1>15, <2>1, ErrorStays
  <2>3. i + 2 <= n /\ \A j \in (i + 1)..e : p[j] \in Letter
    BY <1>7, <2>2
  <2>4. i \in 1..Len(p) /\ e \in i..Len(p) /\ e \in 1..Len(p) /\ e > i /\ n = e + 1 /\ e \in Nat
    BY <1>1, <1>11, <2>3
  <2> HIDE DEF e
  <2>5. IsPlain(p, <<i, e>>)
    BY <1>5, <2>3, <2>4 DEF IsPlain
  <2>6. ~IsText(p, <<i, e>>)
    BY <2>4, <2>5, PlainIs
  <2>7. e < Len(p) => p[e + 1] \notin Letter \cup {"{", "}"}
    <3>1. e < Len(p) => n <= Len(p)
      BY <1>1, <2>4
    <3> QED
      BY <1>3, <1>6, <1>15, <2>4, <3>1
  <2>8. Takes(p, s, e)
    BY <2>5, <2>6, <2>7 DEF Takes, IsPiece, i
  <2>9. t.i = e + 1 /\ (t.nstr # <<>> <=> IsText(p, <<s.i, e>>))
    BY <1>2, <1>15, <2>4, <2>6 DEF i
  <2>10. e \in (s.i)..Len(p)
    BY <2>4 DEF i
  <2>11. PICK m, f : Partial(p, s, m, f)
    BY <1>10, <2>2
  <2> QED
    BY <1>1, <1>2, <2>8, <2>9, <2>10, <2>11, AddPiece
<1>16. IsOpen(p, i) => k > Len(p) \/ k <= Len(p)
  BY <1>1, <1>17
<1> QED
  BY <1>13, <1>14, <1>15, <1>16

\* At the end of the pattern the pieces are a reading.
LEMMA NoErrorIsReading ==
    ASSUME NEW p \in Seq(Char), ~Escaped(p), p # <<>>, ~HasError(Items(p))
    PROVE  \E n \in 1..Len(p) : \E ends \in Cuts(p, n) : IsReading(p, Pieces(ends))
<1> DEFINE len == Len(p)
<1>1. len \in Nat /\ len # 0
  BY EmptySeq
<1>2. Reached(p) \subseteq Readable(p)
  <2>1. \A s \in State(p) : s \in Readable(p) /\ s.i <= Len(p) => Scan(p, s) \in Readable(p)
    BY TextReadable, DirectiveReadable
  <2> QED
    BY <2>1, StartReadable, ReachedInduction
<1>3. PICK s \in Reached(p) : s.i = len + 1
  BY ReachedIs
<1>4. s \in State(p) /\ s \in Readable(p) /\ Items(p) = Flush(s)
  BY <1>2, <1>3, ReachedIs
<1>5. ~HasError(s.vec)
  BY <1>4, FlushError
<1>6. PICK n, ends : Partial(p, s, n, ends)
  BY <1>4, <1>5 DEF Readable
<1>7. /\ n \in Nat
      /\ \A j \in 1..n : ends[j] \in Nat /\ 1 <= ends[j] /\ ends[j] < s.i
  BY <1>4, <1>6, PartialIs
<1>8. /\ n \in 0..(s.i - 1) /\ ends \in [1..n -> 1..(s.i - 1)]
      /\ First(ends, n + 1) = s.i
      /\ \A j \in 2..n : ends[j - 1] < ends[j]
      /\ \A j \in 1..n : IsPiece(p, PieceAt(ends, j))
      /\ \A j \in 1..(n - 1) : Fits(p, PieceAt(ends, j), PieceAt(ends, j + 1))
  BY <1>6 DEF Partial
<1> HIDE DEF len
<1>9. s.i - 1 = len
  BY <1>1, <1>3
<1>10. n \in 0..len /\ ends \in [1..n -> 1..len] /\ First(ends, n + 1) = len + 1
  BY <1>3, <1>8, <1>9
<1>11. n # 0
  <2> SUFFICES ASSUME n = 0 PROVE FALSE
    OBVIOUS
  <2>1. First(ends, n + 1) = 1
    BY DEF First
  <2> QED
    BY <1>1, <1>10, <2>1
<1>12. n \in 1..len
  BY <1>1, <1>10, <1>11
<1>13. ends[n] = len
  <2>1. n + 1 # 1 /\ (n + 1) - 1 = n /\ n \in 1..n
    BY <1>7, <1>11
  <2>2. ends[n] + 1 = len + 1 /\ ends[n] \in Nat
    BY <1>7, <1>10, <2>1 DEF First
  <2> QED
    BY <1>1, <2>2
<1>14. ends \in Cuts(p, n)
  BY <1>8, <1>10, <1>13 DEF Cuts, len
<1>15. ends \in [1..n -> Nat]
  BY <1>7, <1>10
<1>16. Len(Pieces(ends)) = n /\ \A j \in 1..n : Pieces(ends)[j] = PieceAt(ends, j)
  BY <1>7, <1>15, PiecesIs DEF PieceAt
<1>17. \A j \in 1..(n - 1) : j \in 1..n /\ j + 1 \in 1..n
  BY <1>7
<1>18. IsReading(p, Pieces(ends))
  BY <1>8, <1>16, <1>17 DEF IsReading
<1> QED
  BY <1>12, <1>14, <1>18 DEF len

\* The items of a pattern, and the error they make.
LEMMA ItemsAre ==
    ASSUME NEW p \in Seq(Char)
    PROVE  /\ Items(p) \in Seq(Piece)
           /\ IsError(p) <=> HasError(Items(p))
           /\ p = <<>> => Items(p) = <<>>
<1>1. PICK s \in Reached(p) : s.i = Len(p) + 1
  BY ReachedIs
<1>2. s \in State(p) /\ Items(p) = Flush(s)
  BY <1>1, ReachedIs
<1>3. Items(p) \in Seq(Piece)
  BY <1>2, FlushIs
<1>4. IsError(p) <=> HasError(Items(p))
  <2> DEFINE v == Items(p)
  <2>1. ToSet(v) = {v[k] : k \in 1..Len(v)}
    BY <1>3 DEF ToSet
  <2> HIDE DEF v
  <2>2. (\E it \in ToSet(v) : Bad(it)) <=> HasError(v)
    BY <2>1 DEF HasError
  <2> QED
    BY <2>2 DEF IsError, Bad, v
<1>5. ASSUME p = <<>> PROVE Items(p) = <<>>
  <2>1. Len(p) = 0
    BY <1>5
  <2>2. Items(p) = Flush(Start)
    BY <2>1, ScansIs DEF Items
  <2> QED
    BY <2>2, StartIs, FlushIs
<1> QED
  BY <1>3, <1>4, <1>5

\* A name nobody knows.
Unknown(it) == it.kind = "directive" /\ it.name \notin Known

\* The grammar knows no directive that is not closed.
LEMMA MeaningIsBad ==
    ASSUME NEW p, NEW c
    PROVE  Bad(Meaning(p, c)) <=> Unknown(Meaning(p, c))
<1>1. Meaning(p, c).kind \in {"text", "directive"}
  BY DEF Meaning, Text, Directive
<1> QED
  BY <1>1 DEF Bad, Unknown

(* The formatter is right about every pattern where no two percent signs   *)
(* meet.                                                                   *)
LEMMA ReadRight ==
    ASSUME NEW p \in Seq(Char), ~Escaped(p)
    PROVE  IsReadRight(p)
<1>1. Readings(p) \subseteq {Items(p)}
  <2>1. CASE p = <<>>
    BY <2>1, ItemsAre DEF Readings
  <2>2. CASE p # <<>>
    <3> SUFFICES ASSUME NEW r \in Readings(p) PROVE r = Items(p)
      OBVIOUS
    <3>0. PICK n \in 1..Len(p) : \E ends \in Cuts(p, n) :
             IsReading(p, Pieces(ends)) /\ r = [j \in 1..n |-> Meaning(p, Pieces(ends)[j])]
      BY <2>2 DEF Readings
    <3>1. PICK ends \in Cuts(p, n) :
             IsReading(p, Pieces(ends)) /\ r = [j \in 1..n |-> Meaning(p, Pieces(ends)[j])]
      BY <3>0
    <3> QED
      BY <3>1, ReadingIsFound
  <2> QED
    BY <2>1, <2>2
<1>2. ASSUME NEW r \in Readings(p), \E it \in ToSet(r) : Bad(it)
      PROVE  \E it \in ToSet(r) : Unknown(it)
  <2>1. CASE p = <<>>
    <3>1. r = <<>>
      BY <1>2, <2>1 DEF Readings
    <3>2. ToSet(r) = {}
      BY <3>1 DEF ToSet
    <3> QED
      BY <1>2, <3>2
  <2>2. CASE p # <<>>
    <3>0. PICK n \in 1..Len(p) : \E ends \in Cuts(p, n) :
             IsReading(p, Pieces(ends)) /\ r = [j \in 1..n |-> Meaning(p, Pieces(ends)[j])]
      BY <2>2 DEF Readings
    <3>1. PICK ends \in Cuts(p, n) :
             IsReading(p, Pieces(ends)) /\ r = [j \in 1..n |-> Meaning(p, Pieces(ends)[j])]
      BY <3>0
    <3>2. \A it \in ToSet(r) : \E c : it = Meaning(p, c)
      BY <3>1 DEF ToSet
    <3> QED
      BY <1>2, <3>2, MeaningIsBad
  <2> QED
    BY <2>1, <2>2
<1>3. IsError(p) <=> \E it \in ToSet(Items(p)) : Bad(it)
  BY DEF IsError, Bad
<1>4. ASSUME IsError(p), NEW r \in Readings(p) PROVE \E it \in ToSet(r) : Unknown(it)
  BY <1>1, <1>2, <1>3, <1>4
<1>5. ASSUME ~IsError(p) PROVE \E r \in Readings(p) : \A it \in ToSet(r) : ~Unknown(it)
  <2>1. Readings(p) # {}
    <3>1. CASE p = <<>>
      BY <3>1 DEF Readings
    <3>2. CASE p # <<>>
      <4>0. PICK n \in 1..Len(p) : \E ends \in Cuts(p, n) : IsReading(p, Pieces(ends))
        BY <1>5, <3>2, ItemsAre, NoErrorIsReading
      <4>1. PICK ends \in Cuts(p, n) : IsReading(p, Pieces(ends))
        BY <4>0
      <4>2. [j \in 1..n |-> Meaning(p, Pieces(ends)[j])] \in Readings(p)
        BY <3>2, <4>1 DEF Readings
      <4> QED
        BY <4>2
    <3> QED
      BY <3>1, <3>2
  <2>2. Items(p) \in Readings(p)
    BY <1>1, <2>1
  <2>3. \A it : Unknown(it) => Bad(it)
    BY DEF Unknown, Bad
  <2> QED
    BY <1>3, <1>5, <2>2, <2>3
<1>6. IsError(p) <=> \A r \in Readings(p) : \E it \in ToSet(r) : Unknown(it)
  BY <1>4, <1>5
<1> QED
  BY <1>1, <1>6 DEF IsReadRight, Unknown

-----------------------------------------------------------------------------
(* The inductive invariant, in parts.                                      *)

\* No formatter with an error is ever in anybody's hands: setFormatter keeps
\* it from the loggers, and the appenders have theirs from the loggers.
FormattersInv ==
    /\ \A l \in Loggers : ~IsError(m_formatter[l])
    /\ \A a \in Appenders : own[a] # NoFormatter => ~IsError(own[a])

\* Whoever has been added has a formatter.
AddedInv == \A l \in Loggers : \A k \in DOMAIN m_appenders[l] : own[m_appenders[l][k]] # NoFormatter

IInv == TypeOK /\ FormattersInv /\ AddedInv /\ LinesReachFile

-----------------------------------------------------------------------------
LEMMA Names ==
    /\ Root \in Loggers /\ Console \in Appenders /\ File \in Appenders
    /\ Console # File /\ Root # Console /\ Root # File
BY DEF Loggers, Appenders, Root, Console, File

\* What RemoveFirst leaves was there before.
LEMMA RemoveFirstKeeps ==
    ASSUME NEW S, NEW s \in Seq(S), NEW e
    PROVE  /\ RemoveFirst(s, e) \in Seq(S)
           /\ \A k \in DOMAIN RemoveFirst(s, e) : \E j \in DOMAIN s : RemoveFirst(s, e)[k] = s[j]
<1>1. CASE ~\E i \in 1..Len(s) : s[i] = e
  BY <1>1 DEF RemoveFirst
<1>2. CASE \E i \in 1..Len(s) : s[i] = e
  <2> DEFINE I == {i \in 1..Len(s) : s[i] = e}
             k == SelectInSeq(s, LAMBDA v : v = e)
             left == SubSeq(s, 1, k - 1)
             right == SubSeq(s, k + 1, Len(s))
  <2>1. k = Min(I)
    BY <1>2 DEF SelectInSeq
  <2>2. I \in SUBSET Nat /\ I # {}
    BY <1>2
  <2>3. \E n \in I : \A m \in I : n <= m
    <3> HIDE DEF I
    <3> QED
      BY <2>2, LeastNatural
  <2>4. Min(I) \in I
    <3> HIDE DEF I
    <3> QED
      BY <2>3 DEF Min
  <2>5. k \in 1..Len(s)
    BY <2>1, <2>4
  <2>6. RemoveFirst(s, e) = left \o right
    BY <1>2 DEF RemoveFirst, RemoveAt
  <2> HIDE DEF k
  <2>7. /\ left \in Seq(S) /\ Len(left) = k - 1
        /\ \A j \in 1..(k - 1) : left[j] = s[j]
    BY <2>5
  <2>8. /\ right \in Seq(S) /\ Len(right) = Len(s) - k
        /\ \A j \in 1..(Len(s) - k) : right[j] = s[k + j]
    BY <2>5
  <2>9. left \o right \in Seq(S)
    BY <2>7, <2>8
  <2>10. ASSUME NEW n \in DOMAIN (left \o right)
         PROVE  \E j \in DOMAIN s : (left \o right)[n] = s[j]
    <3> HIDE DEF left, right
    <3>1. n \in 1..(Len(s) - 1)
      BY <2>5, <2>7, <2>8
    <3>2. CASE n <= k - 1
      BY <3>1, <3>2, <2>5, <2>7, <2>8
    <3>3. CASE n > k - 1
      <4>1. (left \o right)[n] = right[n - (k - 1)]
        BY <3>1, <3>3, <2>5, <2>7, <2>8
      <4>2. right[n - (k - 1)] = s[n + 1] /\ n + 1 \in DOMAIN s
        BY <3>1, <3>3, <2>5, <2>8
      <4> QED
        BY <4>1, <4>2
    <3> QED
      BY <3>1, <3>2, <3>3, <2>5
  <2> QED
    BY <2>6, <2>9, <2>10
<1> QED
  BY <1>1, <1>2

LEMMA PlacesAreFinite == ASSUME NEW n \in Nat PROVE IsFiniteSet(1..n)
BY FS_Interval

\* An event is for the file a finite number of times.
LEMMA PrintingIsFinite ==
    ASSUME TypeOK, NEW l \in Loggers, NEW lv
    PROVE  Cardinality(Printing(l, lv)) \in Nat
<1>1. Printer(l) \in Loggers
  BY Names DEF Printer
<1>2. m_appenders[Printer(l)] \in Seq(Appenders)
  BY <1>1 DEF TypeOK
<1>3. Len(m_appenders[Printer(l)]) \in Nat /\ DOMAIN m_appenders[Printer(l)] = 1..Len(m_appenders[Printer(l)])
  BY <1>2
<1>4. IsFiniteSet(1..Len(m_appenders[Printer(l)]))
  BY <1>3, PlacesAreFinite
<1>5. Printing(l, lv) \subseteq 1..Len(m_appenders[Printer(l)])
  BY <1>3 DEF Printing
<1> QED
  BY <1>4, <1>5, FS_Subset, FS_CardinalityType

-----------------------------------------------------------------------------
LEMMA InitIInv == Init => IInv
<1> SUFFICES ASSUME Init PROVE IInv
  OBVIOUS
<1>1. TypeOK
  <2>1. m_appenders \in [Loggers -> Seq(Appenders)]
    BY Names DEF Init
  <2>2. own \in [Appenders -> Pattern \cup {NoFormatter}]
    BY LoggerAssumption DEF Init
  <2>3. m_formatter \in [Loggers -> Pattern] /\ asked \in Pattern
    BY LoggerAssumption DEF Init
  <2>4. level \in [Loggers \cup Appenders -> Level]
    BY DEF Init, Level
  <2>5. stream \in [open : BOOLEAN, ok : BOOLEAN] /\ said \in BOOLEAN
    BY DEF Init
  <2>6. file \in Nat /\ handed \in Nat /\ calls \in 0..MaxCalls
    BY LoggerAssumption DEF Init
  <2>7. loggers \in SUBSET Loggers
    BY Names DEF Init
  <2> QED
    BY <2>1, <2>2, <2>3, <2>4, <2>5, <2>6, <2>7 DEF TypeOK
<1>2. FormattersInv
  BY LoggerAssumption DEF Init, FormattersInv
<1>3. AddedInv
  <2> SUFFICES ASSUME NEW l \in Loggers, NEW k \in DOMAIN m_appenders[l]
               PROVE  own[m_appenders[l][k]] # NoFormatter
    BY DEF AddedInv
  <2>1. m_appenders[l] = <<Console>> /\ k = 1
    BY DEF Init
  <2> QED
    BY <2>1, Names, LoggerAssumption DEF Init
<1>4. LinesReachFile
  BY DEF Init, LinesReachFile
<1> QED
  BY <1>1, <1>2, <1>3, <1>4 DEF IInv

LEMMA NextIInv == IInv /\ [Next]_vars => IInv'
<1> SUFFICES ASSUME IInv, [Next]_vars PROVE IInv'
  OBVIOUS
<1> USE DEF IInv
<1>1. CASE UNCHANGED vars
  BY <1>1 DEF vars, logVars, fileVars, TypeOK, FormattersInv, AddedInv, LinesReachFile
<1>2. ASSUME NEW l \in Named, GetLogger(l) PROVE IInv'
  BY <1>2, LoggerAssumption
     DEF GetLogger, Call, Called, fileVars, TypeOK, FormattersInv, AddedInv, LinesReachFile, Loggers
<1>3. ASSUME NEW l \in Loggers, NEW val \in Pattern, SetFormatter(l, val) PROVE IInv'
  <2>1. TypeOK'
    BY <1>3, LoggerAssumption DEF SetFormatter, Parse, Called, fileVars, TypeOK
  <2>2. FormattersInv'
    BY <1>3 DEF SetFormatter, TypeOK, FormattersInv
  <2> QED
    BY <1>3, <2>1, <2>2 DEF SetFormatter, fileVars, AddedInv, LinesReachFile
<1>4. ASSUME NEW l \in Loggers, NEW a \in Appenders, AddAppender(l, a) PROVE IInv'
  <2>1. own' \in [Appenders -> Pattern \cup {NoFormatter}]
    BY <1>4 DEF AddAppender, TypeOK
  <2>2. m_appenders[l] \in Seq(Appenders) /\ m_appenders' = [m_appenders EXCEPT ![l] = Append(m_appenders[l], a)]
    BY <1>4 DEF AddAppender, TypeOK
  <2>3. m_appenders' \in [Loggers -> Seq(Appenders)]
    BY <2>2 DEF TypeOK
  <2>4. TypeOK'
    BY <1>4, <2>1, <2>3, LoggerAssumption DEF AddAppender, Call, Called, fileVars, TypeOK
  <2>5. FormattersInv'
    BY <1>4 DEF AddAppender, TypeOK, FormattersInv
  <2>6. own'[a] # NoFormatter /\ \A b \in Appenders : own[b] # NoFormatter => own'[b] = own[b]
    BY <1>4, LoggerAssumption DEF AddAppender, TypeOK
  <2>7. ASSUME NEW m \in Loggers, NEW k \in DOMAIN m_appenders'[m]
        PROVE  own'[m_appenders'[m][k]] # NoFormatter
    <3>1. m_appenders[m] \in Seq(Appenders)
      BY DEF TypeOK
    <3>2. \/ k \in DOMAIN m_appenders[m] /\ m_appenders'[m][k] = m_appenders[m][k]
          \/ m_appenders'[m][k] = a
      <4>1. CASE m = l
        BY <2>2, <2>7, <4>1 DEF TypeOK
      <4>2. CASE m # l
        BY <2>2, <2>7, <4>2 DEF TypeOK
      <4> QED
        BY <4>1, <4>2
    <3>3. CASE m_appenders'[m][k] = a
      BY <3>3, <2>6
    <3>4. CASE k \in DOMAIN m_appenders[m] /\ m_appenders'[m][k] = m_appenders[m][k]
      <4>1. m_appenders[m][k] \in Appenders
        BY <3>1, <3>4
      <4>2. own[m_appenders[m][k]] # NoFormatter
        BY <3>4 DEF AddedInv
      <4> QED
        BY <4>1, <4>2, <3>4, <2>6
    <3> QED
      BY <3>2, <3>3, <3>4
  <2>8. AddedInv'
    BY <2>7 DEF AddedInv
  <2> QED
    BY <1>4, <2>4, <2>5, <2>8 DEF AddAppender, fileVars, LinesReachFile
<1>5. ASSUME NEW l \in Loggers, NEW a \in Appenders, DelAppender(l, a) PROVE IInv'
  <2>1. m_appenders[l] \in Seq(Appenders) /\ m_appenders' = [m_appenders EXCEPT ![l] = RemoveFirst(m_appenders[l], a)]
    BY <1>5 DEF DelAppender, TypeOK
  <2>2. /\ RemoveFirst(m_appenders[l], a) \in Seq(Appenders)
        /\ \A k \in DOMAIN RemoveFirst(m_appenders[l], a) :
              \E j \in DOMAIN m_appenders[l] : RemoveFirst(m_appenders[l], a)[k] = m_appenders[l][j]
    BY <2>1, RemoveFirstKeeps
  <2>3. TypeOK'
    BY <1>5, <2>1, <2>2, LoggerAssumption DEF DelAppender, Call, Called, fileVars, TypeOK
  <2>4. AddedInv'
    BY <1>5, <2>1, <2>2 DEF DelAppender, TypeOK, AddedInv
  <2> QED
    BY <1>5, <2>3, <2>4 DEF DelAppender, fileVars, FormattersInv, LinesReachFile
<1>6. ASSUME NEW l \in Loggers, ClearAppenders(l) PROVE IInv'
  <2>1. m_appenders' = [m_appenders EXCEPT ![l] = <<>>]
    BY <1>6 DEF ClearAppenders
  <2>2. TypeOK'
    BY <1>6, <2>1, LoggerAssumption DEF ClearAppenders, Call, Called, fileVars, TypeOK
  <2>3. AddedInv'
    BY <1>6, <2>1 DEF ClearAppenders, TypeOK, AddedInv
  <2> QED
    BY <1>6, <2>2, <2>3 DEF ClearAppenders, fileVars, FormattersInv, LinesReachFile
<1>7. ASSUME NEW x \in Loggers \cup Appenders, NEW lv \in Level, SetLevel(x, lv) PROVE IInv'
  <2>1. TypeOK'
    BY <1>7, LoggerAssumption DEF SetLevel, Call, Called, fileVars, TypeOK
  <2> QED
    BY <1>7, <2>1 DEF SetLevel, fileVars, FormattersInv, AddedInv, LinesReachFile
<1>8. ASSUME NEW l \in Loggers, NEW lv \in Level, Log(l, lv) PROVE IInv'
  <2>1. UNCHANGED <<logVars, said>> /\ Called /\ asked' = <<>>
    BY <1>8 DEF Log, Call
  <2>2. CASE UNCHANGED <<stream, file, handed>>
    BY <2>1, <2>2, LoggerAssumption
       DEF logVars, Called, TypeOK, FormattersInv, AddedInv, LinesReachFile
  <2>3. ASSUME NEW n \in Nat, WriteLines(n) PROVE IInv'
    <3>1. handed' \in Nat /\ file' \in Nat /\ stream' \in [open : BOOLEAN, ok : BOOLEAN]
      <4>1. handed' \in Nat
        BY <2>3 DEF WriteLines, TypeOK
      <4>2. file' \in Nat
        BY <2>3 DEF WriteLines, TypeOK
      <4>3. stream' \in [open : BOOLEAN, ok : BOOLEAN]
        BY <2>3 DEF WriteLines, TypeOK
      <4> QED
        BY <4>1, <4>2, <4>3
    <3>2. TypeOK'
      BY <2>1, <3>1, LoggerAssumption DEF logVars, Called, TypeOK
    <3>3. LinesReachFile'
      <4>1. CASE stream.open /\ stream.ok /\ file' = file + n /\ stream' = stream
        BY <2>1, <2>3, <4>1 DEF WriteLines, TypeOK, LinesReachFile
      <4>2. CASE /\ n > 0
                 /\ file' \in IF stream.open /\ stream.ok THEN 0..(file + n - 1) ELSE {file}
                 /\ stream' = [stream EXCEPT !.ok = FALSE]
        BY <2>1, <2>3, <4>2 DEF WriteLines, TypeOK, LinesReachFile
      <4> QED
        BY <2>3, <4>1, <4>2 DEF WriteLines
    <3> QED
      BY <2>1, <3>2, <3>3 DEF logVars, FormattersInv, AddedInv
  <2>4. UNCHANGED <<stream, file, handed>> \/ WriteLines(Cardinality(Printing(l, lv)))
    BY <1>8 DEF Log
  <2> QED
    BY <2>2, <2>3, <2>4, PrintingIsFinite
<1>9. CASE Reopen
  <2>1. TypeOK'
    <3>1. file' \in Nat /\ handed' \in Nat
      <4>1. (file' = 0 /\ handed' = 0) \/ (file' = file /\ handed' = handed)
        BY <1>9, Zenon DEF Reopen
      <4> QED
        BY <4>1 DEF TypeOK
    <3>2. said' \in BOOLEAN
      BY <1>9, Zenon DEF Reopen
    <3>3. stream' \in [open : BOOLEAN, ok : BOOLEAN]
      <4> DEFINE kept == stream.open /\ ~stream.ok
      <4>1. kept \in BOOLEAN
        OBVIOUS
      <4>2. stream' = [open |-> TRUE, ok |-> TRUE] \/ stream' = [open |-> kept, ok |-> FALSE]
        BY <1>9, Zenon DEF Reopen
      <4> HIDE DEF kept
      <4>3. \A b \in BOOLEAN : [open |-> b, ok |-> FALSE] \in [open : BOOLEAN, ok : BOOLEAN]
        OBVIOUS
      <4>4. [open |-> TRUE, ok |-> TRUE] \in [open : BOOLEAN, ok : BOOLEAN]
        OBVIOUS
      <4> QED
        BY <4>1, <4>2, <4>3, <4>4, Zenon
    <3>4. calls' \in 0..MaxCalls /\ asked' \in Pattern
      BY <1>9, LoggerAssumption DEF Reopen, Call, Called, TypeOK
    <3> QED
      BY <1>9, <3>1, <3>2, <3>3, <3>4 DEF Reopen, logVars, TypeOK
  <2>2. LinesReachFile'
    BY <1>9 DEF Reopen, LinesReachFile
  <2> QED
    BY <1>9, <2>1, <2>2 DEF Reopen, logVars, FormattersInv, AddedInv
<1> QED
  BY <1>1, <1>2, <1>3, <1>4, <1>5, <1>6, <1>7, <1>8, <1>9 DEF Next

LEMMA InductiveInvariant == Spec => []IInv
BY InitIInv, NextIInv, PTL DEF Spec

-----------------------------------------------------------------------------
\* The loggers' state stays in its types.
THEOREM TypeCorrect == Spec => []TypeOK
<1>1. IInv => TypeOK
  BY DEF IInv
<1> QED
  BY <1>1, InductiveInvariant, PTL

\* Logger::log reaches only appenders with a formatter, and one without error,
\* whatever patterns setFormatter is given and in whatever order addAppender,
\* delAppender and setFormatter are called (log.cc:224-277).
THEOREM PrintingIsSafe == Spec => []AppendersCanPrint
<1>1. IInv => AppendersCanPrint
  <2> SUFFICES ASSUME IInv, NEW l \in Loggers, NEW a \in ToSet(m_appenders[l])
               PROVE  own[a] # NoFormatter /\ ~IsError(own[a])
    BY DEF AppendersCanPrint
  <2>1. PICK k \in DOMAIN m_appenders[l] : a = m_appenders[l][k]
    BY DEF ToSet
  <2>2. a \in Appenders
    BY <2>1 DEF IInv, TypeOK
  <2> QED
    BY <2>1, <2>2 DEF IInv, FormattersInv, AddedInv
<1> QED
  BY <1>1, InductiveInvariant, PTL

\* Once FileLogAppender::reopen has returned true, the file holds every line
\* since, up to the first write that failed (log.cc:299-311).
THEOREM FileIsComplete == Spec => []LinesReachFile
<1>1. IInv => LinesReachFile
  BY DEF IInv
<1> QED
  BY <1>1, InductiveInvariant, PTL

\* LogFormatter::init finds the one reading that the comment on it gives the
\* pattern, of any length over any characters, unless two percent signs meet in
\* it, and reports an error exactly if there is none or it has an unknown name
\* (log.cc:316-453).
THEOREM PatternsAreReadRight == Spec => []PatternReadRight
<1>1. IInv => PatternReadRight
  <2> SUFFICES ASSUME IInv, ~Escaped(asked) PROVE IsReadRight(asked)
    BY DEF PatternReadRight
  <2>1. asked \in Seq(Char)
    BY LoggerAssumption DEF IInv, TypeOK
  <2> QED
    BY <2>1, ReadRight
<1> QED
  BY <1>1, InductiveInvariant, PTL
=============================================================================
