------------------------- MODULE RequestReaderProofs -------------------------
(***************************************************************************)
(* Proofs about RequestReader, for any streams of bytes and any way they   *)
(* arrive.                                                                 *)
(***************************************************************************)
EXTENDS RequestReader, LeastElement, SequenceTheorems, TLAPS

(* The inductive invariant, in parts.                                      *)

\* The positions in the stream that end a line, those of ordinary bytes, and
\* those where a blank line ends that is not the first line.
Ends  == {i \in 1..Len(stream) : LineEnd(i)}
Plain == {i \in 1..Len(stream) : Ordinary(stream[i])}
Blank == {i \in Ends : \E j \in Ends : j < i /\ \A k \in (j + 1)..i : k \notin Plain}

\* Where the line that is being read starts: behind this position.
Last == IF Len(lines) = 0 THEN 0 ELSE lines[Len(lines)].end

\* Lines are counted: the first is the request line.
FlowInv ==
    /\ stream \in Messages
    /\ pc \in {"queued", "line"} => Len(lines) = 0
    /\ pc \in {"headers", "parse", "answer"} => Len(lines) # 0
    /\ pc # "dropped" => m_stop = garbage
    /\ ready <= arrived

\* What is known of the bytes consumed, while lines are being read.
ReadInv ==
    pc \in {"queued", "line", "headers"} =>
        /\ Last \in 0..pos
        /\ \A j \in Ends : j <= Last \/ pos < j \/ (peek /\ j = pos)
        /\ line = <<>> => \A k \in (Last + 1)..pos : k \notin Plain
        /\ line # <<>> => \E k \in (Last + 1)..pos : k \in Plain
        /\ cuts = {} /\ Last # 0 => Last \in Ends
        /\ \A i \in Blank : pos < i \/ (peek /\ pos = i)
        /\ peek => Last < pos

\* And when they have been read.
DoneInv ==
    /\ pc \in {"queued", "line", "headers", "parse"} => \A i \in Blank : pos <= i
    /\ pc = "parse" /\ cuts = {} => pos \in Blank
    /\ pc = "dropped" /\ ~garbage => \A i \in Blank :
          \/ ready < i
          \/ <<ContentLengthHeader>> \in m_header_kv /\ ready < i + ContentLength

IInv == TypeOK /\ FlowInv /\ ReadInv /\ DoneInv

-----------------------------------------------------------------------------
\* The stream of a request never changes, and with it none of these sets.
LEMMA SameSets ==
    ASSUME stream' = stream
    PROVE  Ends' = Ends /\ Plain' = Plain /\ Blank' = Blank
<1>1. Ends' = Ends /\ Plain' = Plain
  BY DEF Ends, Plain, LineEnd, Ordinary
<1> QED
  BY <1>1 DEF Blank

LEMMA SetsAre ==
    ASSUME TypeOK, stream \in Messages
    PROVE  /\ Len(stream) \in Nat /\ arrived \in 0..Len(stream) /\ pos \in 0..arrived
           /\ Ends \subseteq 1..Len(stream) /\ Plain \subseteq 1..Len(stream)
           /\ Blank \subseteq Ends
           /\ \A k \in 1..Len(stream) : k \notin Plain <=> stream[k] \in {CR, LF}
           /\ \A k \in 1..Len(stream) : stream[k] = LF => k \in Ends
           /\ \A k \in Ends : k \notin Plain
           /\ \A k \in Ends : stream[k] = CR /\ k < Len(stream) => stream[k + 1] # LF
           /\ \A k \in 1..Len(stream) :
                 stream[k] = CR /\ (k < Len(stream) => stream[k + 1] # LF) => k \in Ends
<1>1. Len(stream) \in Nat /\ arrived \in 0..Len(stream) /\ pos \in 0..arrived
  <2>1. Len(stream) \in Nat
    BY ReaderAssumption, LenProperties
  <2> QED
    BY <2>1 DEF TypeOK
<1>2. CR # LF
  BY DEF CR, LF
<1> QED
  BY <1>1, <1>2 DEF Ends, Plain, Blank, LineEnd, Ordinary

\* HeaderEnd is the first of the blank lines.
LEMMA HeaderEndIs ==
    ASSUME TypeOK, stream \in Messages
    PROVE  \/ Blank = {} /\ HeaderEnd = 0
           \/ HeaderEnd \in Blank /\ \A i \in Blank : HeaderEnd <= i
<1>1. HeaderEnd = IF Blank = {} THEN 0 ELSE First(Blank)
  <2>1. Blank = {i \in Ends : \E j \in Ends : j < i /\ \A k \in (j + 1)..i : ~Ordinary(stream[k])}
    <3>1. \A i, j \in Ends : \A k \in (j + 1)..i : k \notin Plain <=> ~Ordinary(stream[k])
      BY SetsAre DEF Plain
    <3> QED
      BY <3>1 DEF Blank
  <2> QED
    BY <2>1 DEF HeaderEnd, Ends
<1>2. ASSUME Blank # {} PROVE First(Blank) \in Blank /\ \A i \in Blank : First(Blank) <= i
  <2>1. Blank \in SUBSET Nat
    BY SetsAre
  <2>2. \E n \in Blank : \A m \in Blank : n <= m
    BY <1>2, <2>1, LeastNatural
  <2> QED
    BY <2>2 DEF First
<1> QED
  BY <1>1, <1>2

\* What holds when ReaLine returns a line that ends at p.
LineRead(p) ==
    /\ p \in {pos, pos + 1} /\ p \in 1..arrived /\ Last < p
    /\ line = <<>> => \A k \in (Last + 1)..p : k \notin Plain
    /\ line # <<>> => \E k \in (Last + 1)..p : k \in Plain
    /\ \A j \in Ends : j < p => j <= Last
    /\ \A i \in Blank : p <= i
    /\ cuts' = {} => cuts = {} /\ p \in Ends

LEMMA LastIsPositive == TypeOK /\ stream \in Messages /\ Len(lines) # 0 => Last # 0
<1> SUFFICES ASSUME TypeOK, stream \in Messages, Len(lines) # 0 PROVE Last # 0
  OBVIOUS
<1>1. lines \in Seq(Line) /\ Len(lines) \in Nat
  BY LenProperties DEF TypeOK
<1>2. lines[Len(lines)] \in Line
  BY <1>1, ElementOfSeq
<1>3. Len(stream) \in Nat
  BY SetsAre
<1> QED
  BY <1>2, <1>3 DEF Last, Line

LEMMA LineFeedRead ==
    ASSUME IInv, Reading, ~peek, ~Dry, stream[pos + 1] = LF, cuts' = cuts
    PROVE  LineRead(pos + 1)
<1>1. /\ pos + 1 \in 1..arrived /\ pos + 1 \in Ends /\ pos + 1 \notin Plain /\ pos \in Nat
      /\ Last \in 0..pos
      /\ \A j \in Ends : j <= Last \/ pos < j
      /\ line = <<>> => \A k \in (Last + 1)..pos : k \notin Plain
      /\ line # <<>> => \E k \in (Last + 1)..pos : k \in Plain
      /\ \A i \in Blank : pos < i
      /\ Ends \subseteq Nat /\ Blank \subseteq Nat
  <2>1. stream \in Messages /\ TypeOK
    BY DEF IInv, FlowInv
  <2>2. /\ pos + 1 \in 1..arrived /\ pos + 1 \in 1..Len(stream) /\ pos \in Nat
    BY <2>1, SetsAre DEF TypeOK, Dry
  <2>3. pos + 1 \in Ends /\ pos + 1 \notin Plain /\ Ends \subseteq Nat /\ Blank \subseteq Nat
    BY <2>1, <2>2, SetsAre
  <2> QED
    BY <2>2, <2>3 DEF IInv, ReadInv, Reading
<1> QED
  BY <1>1 DEF LineRead

LEMMA PairRead ==
    ASSUME IInv, Reading, peek, ~Dry, stream[pos + 1] = LF, cuts' = cuts
    PROVE  LineRead(pos + 1)
<1>1. /\ pos + 1 \in 1..arrived /\ pos + 1 \in Ends /\ pos + 1 \notin Plain /\ pos \in Nat
      /\ stream[pos] = CR /\ Last \in 0..pos /\ Last < pos
      /\ \A j \in Ends : j <= Last \/ pos < j \/ j = pos
      /\ line = <<>> => \A k \in (Last + 1)..pos : k \notin Plain
      /\ line # <<>> => \E k \in (Last + 1)..pos : k \in Plain
      /\ \A i \in Blank : pos < i \/ i = pos
      /\ Ends \subseteq Nat /\ Blank \subseteq Ends
  <2>1. stream \in Messages /\ TypeOK
    BY DEF IInv, FlowInv
  <2>2. /\ pos + 1 \in 1..arrived /\ pos + 1 \in 1..Len(stream) /\ pos \in Nat
    BY <2>1, SetsAre DEF TypeOK, Dry
  <2>3. pos + 1 \in Ends /\ pos + 1 \notin Plain /\ Ends \subseteq Nat /\ Blank \subseteq Ends
    BY <2>1, <2>2, SetsAre
  <2>4. stream[pos] = CR
    BY <2>1 DEF TypeOK
  <2> QED
    BY <2>2, <2>3, <2>4 DEF IInv, ReadInv, Reading
<1>2. pos \notin Ends
  <2>1. pos \in 1..Len(stream) /\ pos < Len(stream)
    BY <1>1, SetsAre DEF IInv, FlowInv
  <2> QED
    BY <1>1, <2>1, SetsAre DEF IInv, FlowInv
<1>3. /\ \A j \in Ends : j <= Last \/ pos + 1 <= j
      /\ \A i \in Blank : pos + 1 <= i
  BY <1>1, <1>2
<1> QED
  BY <1>1, <1>3 DEF LineRead

LEMMA ReturnRead ==
    ASSUME IInv, Reading, peek,
           \/ ~Dry /\ stream[pos + 1] # LF /\ cuts' = cuts
           \/ cuts' = cuts \cup {pos}
    PROVE  LineRead(pos)
<1>1. /\ pos \in 1..arrived /\ pos \in 1..Len(stream) /\ pos \notin Plain
      /\ stream[pos] = CR /\ Last \in 0..pos /\ Last < pos
      /\ \A j \in Ends : j <= Last \/ pos < j \/ j = pos
      /\ line = <<>> => \A k \in (Last + 1)..pos : k \notin Plain
      /\ line # <<>> => \E k \in (Last + 1)..pos : k \in Plain
      /\ \A i \in Blank : pos < i \/ i = pos
      /\ Ends \subseteq Nat /\ Blank \subseteq Ends
  <2>1. stream \in Messages /\ TypeOK
    BY DEF IInv, FlowInv
  <2>2. Last \in 0..pos /\ Last < pos /\ pos \in Nat /\ stream[pos] = CR
    BY <2>1, SetsAre DEF TypeOK, IInv, ReadInv, Reading
  <2>3. pos \in 1..arrived /\ pos \in 1..Len(stream)
    BY <2>1, <2>2, SetsAre
  <2>4. pos \notin Plain /\ Ends \subseteq Nat /\ Blank \subseteq Ends
    BY <2>1, <2>2, <2>3, SetsAre
  <2> QED
    BY <2>2, <2>3, <2>4 DEF IInv, ReadInv, Reading
<1>2. ~Dry /\ stream[pos + 1] # LF => pos \in Ends
  BY <1>1, SetsAre DEF IInv, FlowInv
<1>3. cuts' = {} => cuts = {} /\ pos \in Ends
  BY <1>2
<1>4. /\ \A j \in Ends : j < pos => j <= Last
      /\ \A i \in Blank : pos <= i
  BY <1>1
<1> QED
  BY <1>1, <1>3, <1>4 DEF LineRead

\* Whatever ended the line, the invariant holds behind it.
LEMMA EndLineKeeps ==
    ASSUME IInv, Reading, NEW p, LineRead(p), EndLine(p),
           UNCHANGED <<clientVars, m_stop, m_header_kv, m_request_body, request, histVars>>,
           cuts' \in SUBSET (1..Len(stream))
    PROVE  IInv'
<1>1. /\ Ends' = Ends /\ Plain' = Plain /\ Blank' = Blank /\ stream' = stream
      /\ arrived' = arrived
  BY SameSets DEF clientVars
<1>2. /\ p \in 1..arrived /\ p \in 1..Len(stream) /\ Len(stream) \in Nat
      /\ Ends \subseteq Nat /\ Blank \subseteq Ends /\ Last \in Nat
  BY SetsAre DEF IInv, FlowInv, LineRead, ReadInv, Reading
<1>3. /\ lines \in Seq(Line) /\ line \in Seq(Range(stream)) /\ Len(lines) \in Nat
  BY LenProperties DEF IInv, TypeOK
<1>4. /\ lines' \in Seq(Line) /\ Len(lines') = Len(lines) + 1
      /\ lines'[Len(lines')].end = p
  <2>1. [text |-> line, end |-> p] \in Line
    BY <1>2, <1>3 DEF Line
  <2>2. lines' = Append(lines, [text |-> line, end |-> p])
    BY DEF EndLine
  <2>3. /\ lines' \in Seq(Line) /\ Len(lines') = Len(lines) + 1
        /\ lines'[Len(lines) + 1] = [text |-> line, end |-> p]
    BY <1>3, <2>1, <2>2, AppendProperties
  <2> QED
    BY <2>3
<1>5. /\ pos' = p /\ line' = <<>> /\ peek' = FALSE /\ m_request_header' = m_request_header
      /\ m_stop' = m_stop /\ ready' = ready /\ garbage' = garbage
      /\ pc' = AfterLine /\ m_header_kv' = m_header_kv
  BY DEF EndLine, KeepHeader, histVars
<1>6. Last' = p
  BY <1>3, <1>4 DEF Last
<1>7. Line' = Line
  BY <1>1 DEF Line
<1>8. /\ pc = "line" => /\ Last = 0
                        /\ m_stop => pc' = "dropped"
                        /\ ~m_stop => pc' = "headers"
      /\ pc = "headers" => /\ line = <<>> => pc' = "parse"
                           /\ line # <<>> => pc' = "headers"
      /\ pc \in {"line", "headers"}
  BY <1>5 DEF AfterLine, IInv, FlowInv, Last, Reading
<1>9. TypeOK'
  <2>1. <<>> \in Seq(Range(stream))
    BY EmptySeq
  <2>2. pc' \in {"queued", "line", "headers", "parse", "answer", "dropped"}
    BY <1>8
  <2>3. pos' \in 0..arrived'
    BY <1>1, <1>2, <1>5
  <2>4. lines' \in Seq(Line')
    BY <1>4, <1>7
  <2>5. {fin, peek, m_stop, garbage}' \subseteq BOOLEAN
    BY <1>5 DEF IInv, TypeOK, clientVars
  <2>6. /\ m_request_header' \in Seq(Seq(Range(stream))) /\ m_request_body' \in Seq(Range(stream))
        /\ m_header_kv' \in SUBSET Seq(Range(stream))
    BY <1>5 DEF IInv, TypeOK
  <2>7. request'.status \in {200, 400} /\ ready' \in 0..Len(stream) /\ arrived' \in 0..Len(stream)
    BY <1>1, <1>5 DEF IInv, TypeOK
  <2> QED
    BY <1>1, <1>5, <2>1, <2>2, <2>3, <2>4, <2>5, <2>6, <2>7 DEF TypeOK
<1>10. FlowInv'
  BY <1>1, <1>3, <1>4, <1>5, <1>8 DEF IInv, FlowInv
<1>11. ASSUME p \in Blank PROVE pc = "headers" /\ line = <<>>
  <2>1. PICK j \in Ends : j < p /\ \A k \in (j + 1)..p : k \notin Plain
    BY <1>11 DEF Blank
  <2>2. j <= Last /\ j \in Nat /\ j # 0
    BY <1>2, <2>1, SetsAre DEF LineRead, IInv, FlowInv
  <2>3. \A k \in (Last + 1)..p : k \notin Plain
    BY <1>2, <2>1, <2>2
  <2> QED
    BY <1>2, <1>8, <2>2, <2>3 DEF LineRead
<1>12. ReadInv'
  <2> SUFFICES ASSUME pc' \in {"queued", "line", "headers"} PROVE ReadInv'
    BY DEF ReadInv
  <2>1. \A i \in Blank : p < i
    BY <1>2, <1>8, <1>11 DEF LineRead
  <2>2. \A j \in Ends : j <= p \/ p < j
    BY <1>2
  <2>3. \A k \in (p + 1)..p : FALSE
    BY <1>2
  <2>4. cuts' = {} => p \in Ends
    BY DEF LineRead
  <2>5. p \in 0..p
    BY <1>2
  <2> QED
    BY <1>1, <1>5, <1>6, <2>1, <2>2, <2>3, <2>4, <2>5 DEF ReadInv
<1>13. DoneInv'
  <2>1. \A i \in Blank : p <= i
    BY DEF LineRead
  <2>2. ASSUME pc' = "parse", cuts' = {} PROVE p \in Blank
    <3>1. pc = "headers" /\ line = <<>>
      BY <1>8, <2>2
    <3>2. Last # 0 /\ p \in Ends /\ cuts = {}
      BY <2>2, <3>1, LastIsPositive DEF LineRead, IInv, FlowInv
    <3>3. Last \in Ends /\ Last < p
      BY <3>1, <3>2 DEF IInv, ReadInv, LineRead
    <3> QED
      BY <3>1, <3>2, <3>3 DEF LineRead, Blank
  <2>3. pc' = "dropped" => garbage
    BY <1>8 DEF IInv, FlowInv
  <2>4. pc' # "answer"
    BY <1>8
  <2> QED
    BY <1>1, <1>5, <2>1, <2>2, <2>3, <2>4 DEF DoneInv
<1> QED
  BY <1>9, <1>10, <1>12, <1>13 DEF IInv

-----------------------------------------------------------------------------
LEMMA InitIInv == Init => IInv
<1> SUFFICES ASSUME Init PROVE IInv
  OBVIOUS
<1>1. /\ lines \in Seq(Line) /\ line \in Seq(Range(stream)) /\ m_request_body \in Seq(Range(stream))
      /\ m_request_header \in Seq(Seq(Range(stream))) /\ m_header_kv = {} /\ Len(lines) = 0
  BY EmptySeq DEF Init
<1>2. stream \in Messages /\ Len(stream) \in Nat
  BY ReaderAssumption, LenProperties DEF Init
<1>3. TypeOK
  <2>1. {fin, peek, m_stop, garbage} \subseteq BOOLEAN /\ peek = FALSE
    BY DEF Init
  <2>2. request.status \in {200, 400}
    BY DEF Init, NoRequest
  <2>3. arrived \in 0..Len(stream) /\ pos \in 0..arrived /\ ready \in 0..Len(stream)
    BY <1>2 DEF Init
  <2>4. pc = "queued" /\ cuts = {}
    BY DEF Init
  <2> QED
    BY <1>1, <2>1, <2>2, <2>3, <2>4 DEF TypeOK
<1>4. Blank \subseteq Ends /\ Ends \subseteq 1..Len(stream)
  BY <1>2, <1>3, SetsAre
<1>5. FlowInv /\ ReadInv /\ DoneInv
  BY <1>1, <1>2, <1>4 DEF Init, FlowInv, ReadInv, DoneInv, Last
<1> QED
  BY <1>3, <1>5 DEF IInv

\* What is not consumed does not matter.
LEMMA ClientKeeps == IInv /\ (Deliver \/ Hangup) => IInv'
<1> SUFFICES ASSUME IInv, Deliver \/ Hangup PROVE IInv'
  OBVIOUS
<1>1. /\ arrived' \in arrived..Len(stream) /\ fin' \in BOOLEAN /\ stream' = stream
      /\ UNCHANGED <<pos, pc, peek, line, m_stop, m_request_header, m_header_kv, m_request_body, request,
                     lines, cuts, ready, garbage>>
  <2>1. Len(stream) \in Nat /\ arrived \in 0..Len(stream)
    BY SetsAre DEF IInv, FlowInv
  <2>2. CASE Deliver
    <3>1. \E n \in (arrived + 1)..Len(stream) : arrived' = n
      BY <2>2 DEF Deliver
    <3>2. arrived' \in arrived..Len(stream)
      BY <2>1, <3>1
    <3> QED
      BY <2>2, <3>2 DEF Deliver, parseVars, histVars, IInv, TypeOK
  <2>3. CASE Hangup
    <3>1. arrived' \in arrived..Len(stream)
      BY <2>1, <2>3 DEF Hangup
    <3> QED
      BY <2>3, <3>1 DEF Hangup, parseVars, histVars
  <2> QED
    BY <2>2, <2>3
<1>2. Ends' = Ends /\ Plain' = Plain /\ Blank' = Blank /\ Last' = Last /\ Line' = Line
  BY <1>1, SameSets DEF Last, Line
<1>3. Len(stream) \in Nat /\ arrived \in 0..Len(stream) /\ pos \in 0..arrived /\ ready \in 0..Len(stream)
  BY SetsAre DEF IInv, FlowInv, TypeOK
<1>4. pos' \in 0..arrived' /\ arrived' \in 0..Len(stream) /\ ready <= arrived'
  BY <1>1, <1>3 DEF IInv, FlowInv
<1>5. TypeOK'
  BY <1>1, <1>2, <1>4 DEF IInv, TypeOK, Reading
<1>6. FlowInv' /\ ReadInv' /\ DoneInv'
  BY <1>1, <1>2, <1>4 DEF IInv, FlowInv, ReadInv, DoneInv
<1> QED
  BY <1>5, <1>6 DEF IInv

LEMMA StartKeeps == IInv /\ Start => IInv'
<1> SUFFICES ASSUME IInv, Start PROVE IInv'
  OBVIOUS
<1>1. /\ stream' = stream /\ arrived' = arrived /\ fin' = fin /\ ready' = arrived
      /\ pc = "queued" /\ pc' = "line"
      /\ UNCHANGED <<pos, peek, line, m_stop, m_request_header, m_header_kv, m_request_body, request,
                     lines, cuts, garbage>>
  BY DEF Start, clientVars, parseVars
<1>2. Ends' = Ends /\ Plain' = Plain /\ Blank' = Blank /\ Last' = Last /\ Line' = Line
  BY <1>1, SameSets DEF Last, Line
<1>3. Len(stream) \in Nat /\ arrived \in 0..Len(stream)
  BY SetsAre DEF IInv, FlowInv
<1>4. TypeOK'
  BY <1>1, <1>2, <1>3 DEF IInv, TypeOK, Reading
<1>5. FlowInv' /\ ReadInv' /\ DoneInv'
  BY <1>1, <1>2, <1>3 DEF IInv, FlowInv, ReadInv, DoneInv
<1> QED
  BY <1>4, <1>5 DEF IInv

\* What had arrived at the start has been consumed, and no blank line was
\* among it.
LEMMA ReadFailsKeeps == IInv /\ ReadFails => IInv'
<1> SUFFICES ASSUME IInv, ReadFails PROVE IInv'
  OBVIOUS
<1>1. /\ stream' = stream /\ arrived' = arrived /\ fin' = fin /\ ready' = ready
      /\ Reading /\ ~peek /\ pos = arrived /\ pc' = "dropped" /\ m_stop' = TRUE
      /\ UNCHANGED <<pos, peek, line, m_request_header, m_header_kv, m_request_body, request,
                     lines, cuts, garbage>>
  BY DEF ReadFails, clientVars, parseVars, histVars, Dry
<1>2. Ends' = Ends /\ Plain' = Plain /\ Blank' = Blank /\ Last' = Last /\ Line' = Line
  BY <1>1, SameSets DEF Last, Line
<1>3. TypeOK'
  BY <1>1, <1>2 DEF IInv, TypeOK
<1>4. FlowInv' /\ ReadInv'
  BY <1>1, <1>2 DEF IInv, FlowInv, ReadInv
<1>5. \A i \in Blank : pos < i
  BY <1>1 DEF IInv, ReadInv, Reading
<1>6. ready \in Nat /\ pos \in Nat /\ ready <= pos /\ Blank \subseteq Nat
  BY <1>1, SetsAre DEF IInv, TypeOK, FlowInv
<1>7. DoneInv'
  BY <1>1, <1>2, <1>5, <1>6 DEF IInv, DoneInv
<1> QED
  BY <1>3, <1>4, <1>7 DEF IInv

LEMMA RecvCharKeeps == IInv /\ RecvChar => IInv'
<1> SUFFICES ASSUME IInv, RecvChar PROVE IInv'
  OBVIOUS
<1> DEFINE ch == stream[pos + 1]
<1>1. /\ Reading /\ ~peek /\ ~Dry
      /\ UNCHANGED <<clientVars, m_stop, m_header_kv, m_request_body, request, cuts, histVars>>
  BY DEF RecvChar
<1>2. /\ Ends' = Ends /\ Plain' = Plain /\ Blank' = Blank /\ stream' = stream /\ Line' = Line
      /\ arrived' = arrived
  BY <1>1, SameSets DEF clientVars, Line
<1>3. /\ pos \in Nat /\ pos + 1 \in 1..arrived /\ pos + 1 \in 1..Len(stream)
      /\ Ends \subseteq Nat /\ Blank \subseteq Ends /\ Plain \subseteq Nat
      /\ cuts \in SUBSET (1..Len(stream))
  BY <1>1, SetsAre DEF IInv, FlowInv, TypeOK, Dry
<1>4. CASE ch = LF /\ EndLine(pos + 1)
  <2>1. cuts' = cuts
    BY <1>1
  <2>2. LineRead(pos + 1)
    BY <1>1, <1>4, <2>1, LineFeedRead
  <2> QED
    BY <1>1, <1>3, <1>4, <2>1, <2>2, EndLineKeeps
<1>5. CASE \/ /\ ch = CR /\ pos' = pos + 1 /\ peek' = TRUE
              /\ UNCHANGED <<line, lines, pc, m_request_header>>
           \/ /\ ch \notin {CR, LF} /\ pos' = pos + 1 /\ line' = Append(line, ch)
              /\ UNCHANGED <<peek, lines, pc, m_request_header>>
  <2>1. /\ pos' = pos + 1 /\ Last' = Last /\ Last \in 0..pos
        /\ \A j \in Ends : j <= Last \/ pos < j
        /\ line = <<>> => \A k \in (Last + 1)..pos : k \notin Plain
        /\ line # <<>> => \E k \in (Last + 1)..pos : k \in Plain
        /\ cuts' = cuts /\ (cuts = {} /\ Last # 0 => Last \in Ends)
        /\ \A i \in Blank : pos + 1 <= i
        /\ pc' = pc /\ lines' = lines /\ m_request_header' = m_request_header
        /\ m_stop' = m_stop /\ ready' = ready /\ garbage' = garbage
    BY <1>1, <1>3, <1>5 DEF IInv, ReadInv, Reading, Last, histVars
  <2>2. line \in Seq(Range(stream)) /\ stream \in Seq(STRING) /\ ch \in Range(stream)
    BY <1>3, ReaderAssumption, RangeEquality DEF IInv, FlowInv, TypeOK
  <2>3. /\ Append(line, ch) \in Seq(Range(stream)) /\ Append(line, ch) # <<>>
    BY <2>2, AppendProperties, EmptySeq
  <2>4. CASE /\ ch = CR /\ peek' = TRUE /\ line' = line
    <3>1. pos + 1 \notin Plain
      BY <1>3, <2>4, SetsAre DEF IInv, FlowInv
    <3>2. TypeOK'
      BY <1>1, <1>2, <1>3, <2>1, <2>4 DEF IInv, TypeOK, Reading, clientVars, histVars
    <3>3. FlowInv' /\ DoneInv'
      BY <1>1, <1>2, <1>3, <2>1, <2>4 DEF IInv, FlowInv, DoneInv, Reading
    <3>4. /\ \A j \in Ends : j <= Last \/ pos + 1 < j \/ j = pos + 1
          /\ line = <<>> => \A k \in (Last + 1)..(pos + 1) : k \notin Plain
          /\ line # <<>> => \E k \in (Last + 1)..(pos + 1) : k \in Plain
          /\ \A i \in Blank : pos + 1 < i \/ pos + 1 = i
          /\ Last \in 0..(pos + 1) /\ Last < pos + 1
      BY <1>3, <2>1, <3>1
    <3>5. ReadInv'
      BY <1>2, <2>1, <2>4, <3>4 DEF ReadInv
    <3> QED
      BY <3>2, <3>3, <3>5 DEF IInv
  <2>5. CASE ch \notin {CR, LF} /\ line' = Append(line, ch) /\ peek' = peek
    <3>1. pos + 1 \in Plain /\ pos + 1 \notin Ends
      BY <1>3, <2>5, SetsAre DEF IInv, FlowInv
    <3>2. TypeOK'
      BY <1>1, <1>2, <1>3, <2>1, <2>3, <2>5 DEF IInv, TypeOK, Reading, clientVars, histVars
    <3>3. FlowInv' /\ DoneInv'
      BY <1>1, <1>2, <1>3, <2>1, <2>5 DEF IInv, FlowInv, DoneInv, Reading
    <3>4. /\ \A j \in Ends : j <= Last \/ pos + 1 < j
          /\ \E k \in (Last + 1)..(pos + 1) : k \in Plain
          /\ \A i \in Blank : pos + 1 < i
          /\ Last \in 0..(pos + 1)
      BY <1>3, <2>1, <3>1
    <3>5. ReadInv'
      BY <1>1, <1>2, <2>1, <2>3, <2>5, <3>4 DEF ReadInv
    <3> QED
      BY <3>2, <3>3, <3>5 DEF IInv
  <2> QED
    BY <1>5, <2>4, <2>5
<1> QED
  BY <1>4, <1>5 DEF RecvChar

LEMMA PeekKeeps == IInv /\ Peek => IInv'
<1> SUFFICES ASSUME IInv, Peek PROVE IInv'
  OBVIOUS
<1>1. /\ Reading /\ peek
      /\ UNCHANGED <<clientVars, m_stop, m_header_kv, m_request_body, request, histVars>>
  BY DEF Peek
<1>2. cuts \in SUBSET (1..Len(stream)) /\ pos \in 1..Len(stream)
  BY <1>1, SetsAre DEF IInv, FlowInv, TypeOK, ReadInv, Reading
<1>3. CASE ~Dry /\ stream[pos + 1] = LF /\ EndLine(pos + 1) /\ cuts' = cuts
  <2>1. LineRead(pos + 1)
    BY <1>1, <1>3, PairRead
  <2> QED
    BY <1>1, <1>2, <1>3, <2>1, EndLineKeeps
<1>4. CASE ~Dry /\ stream[pos + 1] # LF /\ EndLine(pos) /\ cuts' = cuts
  <2>1. LineRead(pos)
    BY <1>1, <1>4, ReturnRead
  <2> QED
    BY <1>1, <1>2, <1>4, <2>1, EndLineKeeps
<1>5. CASE Dry /\ EndLine(pos) /\ cuts' = cuts \cup {pos}
  <2>1. LineRead(pos)
    BY <1>1, <1>5, ReturnRead
  <2> QED
    BY <1>1, <1>2, <1>5, <2>1, EndLineKeeps
<1> QED
  BY <1>3, <1>4, <1>5 DEF Peek

LEMMA ParseKeeps == IInv /\ Parse => IInv'
<1> SUFFICES ASSUME IInv, Parse PROVE IInv'
  OBVIOUS
<1> DEFINE method == Method(lines[1].text)
<1>1. /\ pc = "parse" /\ request' = ParseURL(method, Url(lines[1].text))
      /\ m_header_kv' = m_header_kv /\ RecvHttpRequestBody(method, m_header_kv')
      /\ pc' = (IF m_stop' THEN "dropped" ELSE "answer")
      /\ UNCHANGED <<clientVars, peek, line, m_request_header, lines, cuts, histVars>>
  BY DEF Parse, KeepHeaderKv
<1>2. request'.status \in {200, 400}
  <2>1. CASE method \notin {"GET", "POST"}
    BY <1>1, <2>1 DEF ParseURL
  <2>2. CASE method = "GET"
    BY <1>1, <2>2 DEF ParseURL
  <2>3. CASE method = "POST"
    BY <1>1, <2>3 DEF ParseURL
  <2> QED
    BY <2>1, <2>2, <2>3
<1> HIDE DEF method
<1>3. Len(stream) \in Nat /\ pos \in 0..Len(stream) /\ stream \in Seq(STRING)
  BY SetsAre, ReaderAssumption DEF IInv, FlowInv
<1> DEFINE need == IsNeedRecvHttpRequestBody(method, m_header_kv)
           have == IF arrived - pos < ContentLength THEN arrived - pos ELSE ContentLength
           n    == IF need THEN have ELSE 0
<1>4. n \in 0..(arrived - pos) /\ (need /\ n < ContentLength => n = arrived - pos)
  BY <1>3, ReaderAssumption DEF IInv, TypeOK
<1>5. /\ m_request_body' = SubSeq(stream, pos + 1, pos + n) /\ pos' = pos + n
      /\ m_stop' = (m_stop \/ (need /\ n < ContentLength))
  BY <1>1 DEF RecvHttpRequestBody
<1>6. need => <<ContentLengthHeader>> \in m_header_kv
  BY DEF IsNeedRecvHttpRequestBody
<1> HIDE DEF need, n
<1>7. m_request_body' \in Seq(Range(stream))
  <2>1. stream \in Seq(Range(stream))
    BY <1>3, SeqOfRange
  <2>2. \A i \in (pos + 1)..(pos + n) : i \in 1..Len(stream)
    BY <1>3, <1>4, SetsAre DEF IInv, FlowInv
  <2>3. \A i \in (pos + 1)..(pos + n) : stream[i] \in Range(stream)
    BY <2>1, <2>2
  <2>4. pos + 1 \in Int /\ pos + n \in Int
    BY <1>3, <1>4, SetsAre DEF IInv, FlowInv
  <2>5. SubSeq(stream, pos + 1, pos + n) \in Seq(Range(stream))
    BY <2>3, <2>4, SubSeqProperties
  <2> QED
    BY <1>5, <2>5
<1>8. /\ Ends' = Ends /\ Plain' = Plain /\ Blank' = Blank /\ stream' = stream /\ Line' = Line
      /\ arrived' = arrived /\ arrived \in Nat /\ pos \in 0..arrived
  BY <1>1, <1>3, SameSets, SetsAre DEF clientVars, Line, IInv, FlowInv
<1>9. pos' \in 0..arrived /\ m_stop' \in BOOLEAN /\ pc' \in {"dropped", "answer"}
  <2>1. pos' \in 0..arrived
    BY <1>4, <1>5, <1>8
  <2>2. m_stop' \in BOOLEAN
    BY <1>5 DEF IInv, TypeOK
  <2> QED
    BY <1>1, <2>1, <2>2
<1>10. TypeOK'
  BY <1>1, <1>2, <1>7, <1>8, <1>9 DEF IInv, TypeOK, Reading, clientVars, histVars
<1>11. FlowInv' /\ ReadInv'
  BY <1>1, <1>5, <1>8, <1>9 DEF IInv, TypeOK, FlowInv, ReadInv, clientVars, histVars
<1>12. ASSUME pc' = "dropped", ~garbage, NEW i \in Blank
       PROVE  <<ContentLengthHeader>> \in m_header_kv /\ ready < i + ContentLength
  <2>1. m_stop' /\ ~m_stop
    BY <1>1, <1>9, <1>12 DEF IInv, FlowInv, TypeOK
  <2>2. need /\ n < ContentLength
    BY <1>5, <2>1
  <2>3. n = arrived - pos /\ pos <= i /\ i \in Nat /\ ready <= arrived /\ ready \in Nat
    BY <1>1, <1>3, <1>4, <1>12, <2>2, SetsAre DEF IInv, TypeOK, FlowInv, DoneInv
  <2> QED
    BY <1>6, <1>8, <2>2, <2>3, ReaderAssumption
<1>13. DoneInv'
  BY <1>1, <1>8, <1>9, <1>12 DEF DoneInv, histVars
<1> QED
  BY <1>10, <1>11, <1>13 DEF IInv

LEMMA UnchangedKeeps == IInv /\ UNCHANGED vars => IInv'
<1> SUFFICES ASSUME IInv, UNCHANGED vars PROVE IInv'
  OBVIOUS
<1>1. Ends' = Ends /\ Plain' = Plain /\ Blank' = Blank /\ Line' = Line /\ Last' = Last
  BY SameSets DEF vars, clientVars, Line, Last
<1>2. TypeOK'
  BY <1>1 DEF IInv, TypeOK, Reading, vars, clientVars, parseVars, histVars
<1>3. FlowInv'
  BY DEF IInv, FlowInv, vars, clientVars, histVars
<1>4. ReadInv'
  BY <1>1 DEF IInv, ReadInv, vars
<1>5. DoneInv'
  BY <1>1 DEF IInv, DoneInv, vars, parseVars, histVars
<1> QED
  BY <1>2, <1>3, <1>4, <1>5 DEF IInv

LEMMA Inductive == Spec => []IInv
<1>1. IInv /\ [Next]_vars => IInv'
  BY ClientKeeps, StartKeeps, ReadFailsKeeps, RecvCharKeeps, PeekKeeps, ParseKeeps,
     UnchangedKeeps DEF Next, Handler
<1> QED
  BY <1>1, InitIInv, PTL DEF Spec

-----------------------------------------------------------------------------
(* The lines are the client's.                                             *)

\* The line that is being read is what lies behind the last one, without the
\* CR that a peek looks behind.
Upto == IF peek THEN pos - 1 ELSE pos

LineInv ==
    pc \in {"queued", "line", "headers"} =>
        /\ line = SubSeq(stream, Last + 1, Upto)
        /\ \A i \in (Last + 1)..Upto : Ordinary(stream[i])

\* One byte more.
LEMMA SubSeqGrows ==
    ASSUME stream \in Seq(STRING), NEW a \in Nat, NEW p \in Nat, a <= p, p < Len(stream)
    PROVE  Append(SubSeq(stream, a + 1, p), stream[p + 1]) = SubSeq(stream, a + 1, p + 1)
<1> DEFINE s == SubSeq(stream, a + 1, p)
           t == SubSeq(stream, a + 1, p + 1)
<1>1. Len(stream) \in Nat /\ \A i \in 1..Len(stream) : stream[i] \in STRING
  BY LenProperties, ElementOfSeq
<1>2. s \in Seq(STRING) /\ Len(s) = p - a /\ \A i \in 1..(p - a) : s[i] = stream[a + i]
  <2>1. \A i \in (a + 1)..p : stream[i] \in STRING
    BY <1>1
  <2>2. /\ s \in Seq(STRING) /\ Len(s) = IF a + 1 <= p THEN p - (a + 1) + 1 ELSE 0
        /\ \A i \in 1..(p - (a + 1) + 1) : s[i] = stream[(a + 1) + i - 1]
    BY <2>1, SubSeqProperties
  <2> QED
    BY <2>2
<1>3. /\ t \in Seq(STRING) /\ Len(t) = p + 1 - a
      /\ \A i \in 1..(p + 1 - a) : t[i] = stream[a + i]
  <2>1. \A i \in (a + 1)..(p + 1) : stream[i] \in STRING
    BY <1>1
  <2>2. /\ t \in Seq(STRING) /\ Len(t) = IF a + 1 <= p + 1 THEN (p + 1) - (a + 1) + 1 ELSE 0
        /\ \A i \in 1..((p + 1) - (a + 1) + 1) : t[i] = stream[(a + 1) + i - 1]
    BY <2>1, SubSeqProperties
  <2> QED
    BY <2>2
<1> DEFINE u == Append(s, stream[p + 1])
<1>4. stream[p + 1] \in STRING
  BY <1>1
<1> HIDE DEF s, t
<1>5. /\ u \in Seq(STRING) /\ Len(u) = Len(s) + 1
      /\ \A i \in 1..Len(s) : u[i] = s[i]
      /\ u[Len(s) + 1] = stream[p + 1]
  BY <1>2, <1>4, AppendProperties
<1> HIDE DEF u
<1>6. ASSUME NEW i \in 1..Len(u) PROVE u[i] = t[i]
  <2>1. CASE i \in 1..Len(s)
    BY <1>2, <1>3, <1>5, <2>1
  <2>2. CASE i = Len(s) + 1
    <3>1. t[i] = stream[a + (p + 1 - a)]
      BY <1>2, <1>3, <2>2
    <3>2. a + (p + 1 - a) = p + 1
      OBVIOUS
    <3> QED
      BY <1>5, <2>2, <3>1, <3>2
  <2> QED
    BY <1>2, <1>5, <2>1, <2>2
<1>7. Len(u) = Len(t)
  BY <1>2, <1>3, <1>5
<1>8. u = t
  BY <1>3, <1>5, <1>6, <1>7, SeqEqual
<1> QED
  BY <1>8 DEF s, t, u

\* A line that ends where it should is the client's.
LEMMA EndLineSends ==
    ASSUME IInv, LinesAsSent, LineInv, NEW p \in 1..Len(stream), EndLine(p), Reading,
           stream' = stream, cuts \subseteq cuts',
           LineEnd(p) \/ p \in cuts',
           \/ p = Upto + 1 /\ stream[p] \in {CR, LF}
           \/ p = Upto + 2 /\ stream[p - 1] = CR /\ stream[p] = LF
    PROVE  LinesAsSent' /\ LineInv'
<1>1. /\ Len(stream) \in Nat /\ pos \in Nat /\ Upto \in Int /\ Last \in Nat
      /\ Last <= Upto /\ CR # LF
  BY SetsAre DEF IInv, FlowInv, ReadInv, Reading, Upto, CR, LF
<1>2. /\ lines' = Append(lines, [text |-> line, end |-> p]) /\ pos' = p /\ peek' = FALSE
      /\ line' = <<>>
  BY DEF EndLine
<1>3. lines \in Seq(Line) /\ Len(lines) \in Nat /\ [text |-> line, end |-> p] \in Line
  BY LenProperties DEF IInv, TypeOK, Line
<1> DEFINE n == Len(lines)
<1>4. /\ Len(lines') = n + 1 /\ \A k \in 1..n : lines'[k] = lines[k]
      /\ lines'[n + 1] = [text |-> line, end |-> p]
  BY <1>2, <1>3, AppendProperties
<1> HIDE DEF n
<1>5. /\ line = SubSeq(stream, Last + 1, Upto)
      /\ \A i \in (Last + 1)..Upto : Ordinary(stream[i])
  BY DEF LineInv, Reading
<1>6. LinesAsSent'
  <2> SUFFICES ASSUME NEW k \in 1..(n + 1)
               PROVE  LET from == IF k = 1 THEN 1 ELSE lines'[k - 1].end + 1
                          to   == lines'[k].end
                          last == IF from < to /\ stream[to - 1] = CR /\ stream[to] = LF
                                  THEN to - 2 ELSE to - 1
                      IN  /\ LineEnd(to) \/ to \in cuts'
                          /\ lines'[k].text = SubSeq(stream, from, last)
                          /\ \A i \in from..last : Ordinary(stream[i])
    BY <1>4 DEF LinesAsSent, LineEnd, Ordinary
  <2>1. CASE k \in 1..n
    <3>1. lines'[k] = lines[k] /\ (k # 1 => lines'[k - 1] = lines[k - 1])
      BY <1>3, <1>4, <2>1 DEF n
    <3> QED
      BY <2>1, <3>1 DEF LinesAsSent, n
  <2>2. CASE k = n + 1
    <3>1. lines'[k].end = p /\ lines'[k].text = line
      BY <1>4, <2>2
    <3>2. (IF k = 1 THEN 1 ELSE lines'[k - 1].end + 1) = Last + 1
      BY <1>3, <1>4, <2>2 DEF Last, n
    <3>3. CASE p = Upto + 1 /\ stream[p] \in {CR, LF}
      <4>1. ~(Last + 1 < p /\ stream[p - 1] = CR)
        BY <1>1, <1>5, <3>3 DEF Ordinary
      <4>2. Upto = p - 1
        BY <1>1, <3>3
      <4> QED
        BY <1>5, <3>1, <3>2, <4>1, <4>2
    <3>4. CASE p = Upto + 2 /\ stream[p - 1] = CR /\ stream[p] = LF
      <4>1. Upto = p - 2 /\ Last + 1 < p
        BY <1>1, <3>4
      <4> QED
        BY <1>5, <3>1, <3>2, <3>4, <4>1
    <3> QED
      BY <3>3, <3>4
  <2> QED
    BY <1>3, <2>1, <2>2 DEF n
<1>7. LineInv'
  <2>1. Last' = p /\ Upto' = p
    BY <1>2, <1>3, <1>4 DEF Last, Upto, n
  <2>2. SubSeq(stream, p + 1, p) = <<>>
    BY SubSeqEmpty
  <2> QED
    BY <1>2, <2>1, <2>2 DEF LineInv
<1> QED
  BY <1>6, <1>7

LEMMA NextLineInv ==
    IInv /\ LinesAsSent /\ LineInv /\ [Next]_vars => LinesAsSent' /\ LineInv'
<1> SUFFICES ASSUME IInv, LinesAsSent, LineInv, [Next]_vars PROVE LinesAsSent' /\ LineInv'
  OBVIOUS
<1>1. Len(stream) \in Nat /\ pos \in 0..Len(stream) /\ arrived \in 0..Len(stream) /\ CR # LF
  BY SetsAre DEF IInv, FlowInv, CR, LF
<1>2. CASE UNCHANGED <<stream, lines, cuts, line, pos, peek>>
           /\ (pc' \in {"queued", "line", "headers"} => pc \in {"queued", "line", "headers"})
  BY <1>2 DEF LinesAsSent, LineInv, LineEnd, Ordinary, Last, Upto
<1>3. CASE Deliver \/ Hangup \/ UNCHANGED vars
  BY <1>2, <1>3 DEF Deliver, Hangup, vars, clientVars
<1>4. CASE Start \/ ReadFails
  BY <1>2, <1>4 DEF Start, ReadFails, clientVars, Reading
<1>5. CASE Parse
  <2>1. UNCHANGED <<stream, lines, cuts>> /\ pc' \notin {"queued", "line", "headers"}
    BY <1>5 DEF Parse, clientVars
  <2> QED
    BY <2>1 DEF LinesAsSent, LineInv, LineEnd, Ordinary
<1>6. CASE RecvChar
  <2>1. /\ Reading /\ ~peek /\ pos + 1 \in 1..Len(stream) /\ Upto = pos
        /\ stream' = stream /\ cuts' = cuts
    BY <1>1, <1>6 DEF RecvChar, Dry, Upto, clientVars, IInv, TypeOK
  <2>2. CASE stream[pos + 1] = LF /\ EndLine(pos + 1)
    <3>1. LineEnd(pos + 1)
      BY <2>2 DEF LineEnd
    <3> QED
      BY <2>1, <2>2, <3>1, EndLineSends
  <2>3. CASE /\ stream[pos + 1] = CR /\ pos' = pos + 1 /\ peek' = TRUE
             /\ UNCHANGED <<line, lines, pc, m_request_header>>
    <3>1. Last' = Last /\ Upto' = Upto
      BY <1>1, <2>1, <2>3 DEF Last, Upto
    <3> QED
      BY <2>1, <2>3, <3>1 DEF LinesAsSent, LineInv, LineEnd, Ordinary
  <2>4. CASE /\ stream[pos + 1] \notin {CR, LF} /\ pos' = pos + 1
             /\ line' = Append(line, stream[pos + 1])
             /\ UNCHANGED <<peek, lines, pc, m_request_header>>
    <3>1. Last' = Last /\ Upto' = pos + 1 /\ Last \in 0..pos
      BY <1>1, <2>1, <2>4 DEF Last, Upto, IInv, ReadInv, Reading
    <3>2. stream \in Seq(STRING) /\ pos < Len(stream)
      BY <1>1, <2>1, ReaderAssumption DEF IInv, FlowInv
    <3>3. line = SubSeq(stream, Last + 1, pos) /\ \A i \in (Last + 1)..pos : Ordinary(stream[i])
      BY <2>1 DEF LineInv, Reading
    <3>4. line' = SubSeq(stream, Last + 1, pos + 1)
      BY <1>1, <2>4, <3>1, <3>2, <3>3, SubSeqGrows
    <3>5. \A i \in (Last + 1)..(pos + 1) : Ordinary(stream[i])
      <4>1. Ordinary(stream[pos + 1])
        BY <2>4 DEF Ordinary
      <4>2. \A i \in (Last + 1)..(pos + 1) : i \in (Last + 1)..pos \/ i = pos + 1
        BY <1>1, <3>1
      <4> QED
        BY <3>3, <4>1, <4>2
    <3>6. LineInv'
      BY <2>1, <3>1, <3>4, <3>5 DEF LineInv, Ordinary
    <3> QED
      BY <2>1, <2>4, <3>6 DEF LinesAsSent, LineEnd, Ordinary
  <2> QED
    BY <1>6, <2>2, <2>3, <2>4 DEF RecvChar
<1>7. CASE Peek
  <2>1. /\ Reading /\ peek /\ stream[pos] = CR /\ pos \in 1..Len(stream) /\ Upto = pos - 1
        /\ stream' = stream
    BY <1>1, <1>7 DEF Peek, Upto, clientVars, IInv, TypeOK, ReadInv, Reading
  <2>2. CASE ~Dry /\ stream[pos + 1] = LF /\ EndLine(pos + 1) /\ cuts' = cuts
    <3>1. pos + 1 \in 1..Len(stream)
      BY <1>1, <2>2 DEF Dry, IInv, TypeOK
    <3>2. LineEnd(pos + 1)
      BY <2>2 DEF LineEnd
    <3>3. pos + 1 = Upto + 2 /\ (pos + 1) - 1 = pos
      BY <1>1, <2>1
    <3> QED
      BY <2>1, <2>2, <3>1, <3>2, <3>3, EndLineSends
  <2>3. CASE ~Dry /\ stream[pos + 1] # LF /\ EndLine(pos) /\ cuts' = cuts
    <3>1. LineEnd(pos) /\ pos = Upto + 1
      BY <1>1, <2>1, <2>3 DEF LineEnd
    <3> QED
      BY <2>1, <2>3, <3>1, EndLineSends
  <2>4. CASE Dry /\ EndLine(pos) /\ cuts' = cuts \cup {pos}
    <3>1. pos \in cuts' /\ pos = Upto + 1
      BY <1>1, <2>1, <2>4
    <3> QED
      BY <2>1, <2>4, <3>1, EndLineSends
  <2> QED
    BY <1>7, <2>2, <2>3, <2>4 DEF Peek
<1> QED
  BY <1>3, <1>4, <1>5, <1>6, <1>7 DEF Next, Handler

-----------------------------------------------------------------------------
\* The reader's members keep their types, whatever the client sends.
THEOREM TypeCorrect == Spec => []TypeOK
<1>1. IInv => TypeOK
  BY DEF IInv
<1> QED
  BY <1>1, Inductive, PTL

\* Until the request is parsed nothing behind the blank line is consumed, for
\* any stream, cut anywhere; what follows is left to the reading of a body.
THEOREM StopsAtHeaders == Spec => []NeverReadsPastHeaders
<1>1. IInv => NeverReadsPastHeaders
  BY HeaderEndIs DEF IInv, FlowInv, DoneInv, NeverReadsPastHeaders
<1> QED
  BY <1>1, Inductive, PTL

\* Without an early peek, a request is parsed exactly behind its headers.
THEOREM ParsedBehindHeaders == Spec => []ParsedAtHeaderEnd
<1>1. ASSUME IInv PROVE ParsedAtHeaderEnd
  <2> SUFFICES ASSUME pc = "parse", cuts = {} PROVE pos = HeaderEnd /\ pos # 0
    BY DEF ParsedAtHeaderEnd
  <2>1. pos \in Blank /\ \A i \in Blank : pos <= i
    BY <1>1 DEF IInv, DoneInv
  <2>2. Blank \subseteq Nat \ {0} /\ pos \in Nat
    BY <1>1, SetsAre DEF IInv, FlowInv
  <2>3. HeaderEnd \in Blank /\ HeaderEnd <= pos
    BY <1>1, <2>1, HeaderEndIs DEF IInv, FlowInv
  <2> QED
    BY <2>1, <2>2, <2>3
<1> QED
  BY <1>1, Inductive, PTL

\* A request that was complete when the handler started is answered.
THEOREM CompleteIsAnswered == Spec => []CompleteRequestAnswered
<1>1. IInv => CompleteRequestAnswered
  BY HeaderEndIs DEF IInv, FlowInv, DoneInv, CompleteRequestAnswered
<1> QED
  BY <1>1, Inductive, PTL

\* ReaLine returns the client's lines, whole and in order, for every mixture
\* of CR LF, LF and CR and every way the bytes arrive.
THEOREM LinesAreTheClients == Spec => []LinesAsSent
<1> DEFINE Inv == LinesAsSent /\ LineInv
<1>1. Init => Inv
  <2> SUFFICES ASSUME Init PROVE Inv
    OBVIOUS
  <2>1. Len(lines) = 0 /\ line = <<>> /\ pos = 0 /\ ~peek
    BY EmptySeq DEF Init
  <2>2. Last = 0 /\ Upto = 0 /\ SubSeq(stream, 1, 0) = <<>>
    BY <2>1, SubSeqEmpty DEF Last, Upto
  <2> QED
    BY <2>1, <2>2 DEF LinesAsSent, LineInv
<1>2. IInv /\ Inv /\ [Next]_vars => Inv'
  BY NextLineInv
<1>3. Inv => LinesAsSent
  OBVIOUS
<1> HIDE DEF Inv
<1> QED
  BY <1>1, <1>2, <1>3, Inductive, PTL DEF Spec
=============================================================================
