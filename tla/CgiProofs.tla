------------------------------ MODULE CgiProofs ------------------------------
(***************************************************************************)
(* Proofs about Cgi, for any number of workers, any resources they are     *)
(* asked for and any amount of output.                                     *)
(***************************************************************************)
EXTENDS Cgi, SequenceTheorems, TLAPS

(* The inductive invariant, in parts.                                      *)

\* The pipe ends of w the server has open, by where w is.
ServerEnds(w) ==
    /\ pc[w] = "output" => {InR(w), InW(w)} \subseteq server
    /\ pc[w] \in {"fork", "close"} => {InR(w), InW(w), OutR(w), OutW(w)} \subseteq server
    /\ pc[w] \in {"read", "wait"} =>
          /\ {OutR(w), InW(w)} \subseteq server
          /\ \A e \in server : e[1] = w => e \in {OutR(w), InW(w)}
    /\ pc[w] = "done" => \A e \in server : e[1] # w

\* A child has the write end of its output for as long as it lives, and it
\* lives only while its worker waits for it.
ChildEnds(w) ==
    /\ child[w] = "none" <=> pc[w] \in {"input", "output", "fork", "failed"}
    /\ child[w] \in {"none", "exited"} => copies[w] = {}
    /\ child[w] \notin {"none", "exited"} => OutW(w) \in copies[w]

EndsInv == \A w \in Worker : ServerEnds(w) /\ ChildEnds(w)

IInv == TypeOK /\ EndsInv /\ WholeOutput

-----------------------------------------------------------------------------
LEMMA InitIInv == Init => IInv
<1> SUFFICES ASSUME Init PROVE IInv
  OBVIOUS
<1>1. TypeOK
  BY CgiAssumption, EmptySeq DEF Init, TypeOK
<1>2. EndsInv
  BY DEF Init, EndsInv, ServerEnds, ChildEnds
<1>3. WholeOutput
  BY DEF Init, WholeOutput
<1> QED
  BY <1>1, <1>2, <1>3 DEF IInv

\* Which ends there are: every worker has four of its own.
LEMMA OwnEnds ==
    ASSUME NEW w \in Worker
    PROVE  /\ {InR(w), InW(w), OutR(w), OutW(w)} \subseteq Ends
           /\ InR(w)[1] = w /\ InW(w)[1] = w /\ OutR(w)[1] = w /\ OutW(w)[1] = w
           /\ \A e \in Ends : e[1] = w => e \in {InR(w), InW(w), OutR(w), OutW(w)}
           /\ OutW(w) \notin {InR(w), InW(w), OutR(w)}
           /\ InW(w) # InR(w) /\ OutR(w) # InR(w)
<1>1. {InR(w), InW(w), OutR(w), OutW(w)} \subseteq Ends
  BY DEF Ends, InR, InW, OutR, OutW
<1>2. InR(w)[1] = w /\ InW(w)[1] = w /\ OutR(w)[1] = w /\ OutW(w)[1] = w
  BY DEF InR, InW, OutR, OutW
<1>3. ASSUME NEW e \in Ends, e[1] = w PROVE e \in {InR(w), InW(w), OutR(w), OutW(w)}
  BY <1>3 DEF Ends, InR, InW, OutR, OutW
<1>4. OutW(w) \notin {InR(w), InW(w), OutR(w)} /\ InW(w) # InR(w) /\ OutR(w) # InR(w)
  BY DEF InR, InW, OutR, OutW
<1> QED
  BY <1>1, <1>2, <1>3, <1>4

\* The texts a child may put into its pipe itself.
LEMMA AppendMakes ==
    /\ Append(<<>>, "error") = <<"error">> /\ Append(<<"log">>, "error") = <<"log", "error">>
    /\ {<<>>, <<"log">>, <<"error">>, <<"log", "error">>} \subseteq Seq(Text)
<1>1. <<"error">> \in Seq(Text)
  BY DEF Text
<1>2. <<"log", "error">> \in Seq(Text)
  BY DEF Text
<1>3. <<"log">> \in Seq(Text) /\ <<>> \in Seq(Text) /\ "error" \in Text
  BY DEF Text
<1>4. Append(<<>>, "error") = <<"error">>
  <2>1. Append(<<>>, "error") \in Seq(Text) /\ Len(Append(<<>>, "error")) = 1
    BY <1>3
  <2>2. Append(<<>>, "error")[1] = "error"
    BY <1>3
  <2> QED
    BY <1>1, <2>1, <2>2, SeqEqual
<1>5. Append(<<"log">>, "error") = <<"log", "error">>
  <2>1. Append(<<"log">>, "error") \in Seq(Text) /\ Len(Append(<<"log">>, "error")) = 2
    BY <1>3
  <2>2. Append(<<"log">>, "error")[1] = "log" /\ Append(<<"log">>, "error")[2] = "error"
    BY <1>3
  <2>3. \A i \in 1..2 : Append(<<"log">>, "error")[i] = <<"log", "error">>[i]
    <3>1. \A i \in 1..2 : i = 1 \/ i = 2
      OBVIOUS
    <3> QED
      BY <2>2, <3>1
  <2>4. Len(<<"log", "error">>) = 2
    OBVIOUS
  <2> QED
    BY <1>2, <2>1, <2>3, <2>4, SeqEqual
<1> QED
  BY <1>1, <1>2, <1>3, <1>4, <1>5

\* A POST flushes what was inherited of the log, and so does a failed execl.
LEMMA PrintedIs ==
    ASSUME NEW w \in Worker, NEW p \in Program[w], NEW method \in Method[w],
           NEW inherited \in {<<>>, <<"log">>}
    PROVE  /\ Printed(p, method, inherited) \in {<<>>, <<"log">>, <<"error">>, <<"log", "error">>}
           /\ p = "other" => Printed(p, method, inherited) \in {<<"error">>, <<"log", "error">>}
           /\ p # "other" => Printed(p, method, inherited) \in {<<>>, <<"log">>}
           /\ Printed(p, method, inherited) = <<"log">> => method = "POST"
<1>1. method \in {"GET", "POST"}
  BY CgiAssumption
<1>2. Append(<<>>, "error") = <<"error">> /\ Append(<<"log">>, "error") = <<"log", "error">>
  BY AppendMakes
<1>3. CASE p = "other"
  <2>1. Printed(p, method, inherited) = Append(inherited, "error")
    BY <1>3 DEF Printed
  <2>2. <<"error">> # <<"log">> /\ <<"log", "error">> # <<"log">>
    OBVIOUS
  <2> QED
    BY <1>2, <1>3, <2>1, <2>2
<1>4. CASE p # "other" /\ method = "POST"
  <2>1. Printed(p, method, inherited) = inherited
    BY <1>4 DEF Printed
  <2> QED
    BY <1>4, <2>1
<1>5. CASE p # "other" /\ method = "GET"
  <2>1. Printed(p, method, inherited) = <<>>
    BY <1>5 DEF Printed
  <2> QED
    BY <1>5, <2>1
<1> QED
  BY <1>1, <1>3, <1>4, <1>5

LEMMA NextTypeOK == TypeOK /\ [Next]_vars => TypeOK'
<1> SUFFICES ASSUME TypeOK, [Next]_vars PROVE TypeOK'
  OBVIOUS
<1> USE DEF TypeOK
<1>1. ASSUME UNCHANGED vars PROVE TypeOK'
  BY <1>1 DEF vars
<1>2. ASSUME NEW w \in Worker, PipeInput(w) PROVE TypeOK'
  <2>1. server' \in SUBSET Ends
    <3>1. InR(w) \in Ends /\ InW(w) \in Ends
      BY OwnEnds
    <3> QED
      BY <1>2, <3>1 DEF PipeInput
  <2>2. pc' \in [Worker -> {"input", "output", "fork", "close", "read", "wait",
                          "done", "failed"}]
    BY <1>2 DEF PipeInput, Goto
  <2> QED
    BY <1>2, <2>1, <2>2 DEF PipeInput
<1>3. ASSUME NEW w \in Worker, PipeOutput(w) PROVE TypeOK'
  <2>1. server' \in SUBSET Ends
    <3>1. OutR(w) \in Ends /\ OutW(w) \in Ends
      BY OwnEnds
    <3> QED
      BY <1>3, <3>1 DEF PipeOutput
  <2>2. pc' \in [Worker -> {"input", "output", "fork", "close", "read", "wait",
                          "done", "failed"}]
    BY <1>3 DEF PipeOutput, Goto
  <2> QED
    BY <1>3, <2>1, <2>2 DEF PipeOutput
<1>4. ASSUME NEW w \in Worker, Fork(w) PROVE TypeOK'
  BY <1>4 DEF Fork, Goto
<1>5. ASSUME NEW w \in Worker, CloseOthers(w) PROVE TypeOK'
  BY <1>5 DEF CloseOthers, Goto
<1>6. ASSUME NEW w \in Worker, Read(w) PROVE TypeOK'
  <2>1. pipe[w] # <<>> => Head(pipe[w]) \in Text /\ Tail(pipe[w]) \in Seq(Text)
    BY HeadTailProperties
  <2>2. pipe[w] # <<>> => Append(body[w], Head(pipe[w])) \in Seq(Text)
    BY <2>1, AppendProperties
  <2>3. pipe' \in [Worker -> Seq(Text)]
    BY <1>6, <2>1 DEF Read
  <2>5. body' \in [Worker -> Seq(Text)]
    <3>1. pipe[w] # <<>> => body' = [body EXCEPT ![w] = Append(body[w], Head(pipe[w]))]
      BY <1>6 DEF Read
    <3>2. pipe[w] = <<>> => body' = body
      BY <1>6 DEF Read
    <3> QED
      BY <2>2, <3>1, <3>2
  <2>4. pc' \in [Worker -> {"input", "output", "fork", "close", "read", "wait",
                          "done", "failed"}]
    BY <1>6 DEF Read, Goto
  <2> QED
    BY <1>6, <2>3, <2>4, <2>5 DEF Read
<1>7. ASSUME NEW w \in Worker, Finish(w) PROVE TypeOK'
  BY <1>7 DEF Finish, Goto
<1>8. ASSUME NEW w \in Worker, Exec(w) PROVE TypeOK'
  <2>1. environ' \in [Worker -> SUBSET {"GET", "POST", "PARAMETER", "Content-Length"}]
    <3>1. PICK method \in Method[w] : Putenv(w, method)
      BY <1>8 DEF Exec
    <3>2. method \in {"GET", "POST"}
      BY CgiAssumption
    <3> QED
      BY <3>1, <3>2 DEF Putenv
  <2>2. child' \in [Worker -> {"none", "forked", "plain", "filter", "other", "exited"}]
    <3>1. PICK p \in Program[w] : child' = [child EXCEPT ![w] = p]
      BY <1>8 DEF Exec
    <3>2. p \in {"plain", "filter", "other"}
      BY CgiAssumption
    <3> QED
      BY <3>1, <3>2
  <2>3. PICK p \in Program[w], method \in Method[w], inherited \in {<<>>, <<"log">>} :
             pipe' = [pipe EXCEPT ![w] = Printed(p, method, inherited)]
    BY <1>8 DEF Exec
  <2>4. pipe' \in [Worker -> Seq(Text)]
    <3>1. Printed(p, method, inherited) \in {<<>>, <<"log">>, <<"error">>, <<"log", "error">>}
      BY PrintedIs
    <3>2. Printed(p, method, inherited) \in Seq(Text)
      BY <3>1, AppendMakes, Zenon
    <3> QED
      BY <2>3, <3>2
  <2>5. copies' \in [Worker -> SUBSET Ends]
    BY <1>8 DEF Exec
  <2> QED
    BY <1>8, <2>1, <2>2, <2>4, <2>5 DEF Exec
<1>9. ASSUME NEW w \in Worker, Write(w) PROVE TypeOK'
  <2>1. Append(pipe[w], "output") \in Seq(Text)
    BY AppendProperties DEF Text
  <2> QED
    BY <1>9, <2>1 DEF Write
<1>10. ASSUME NEW w \in Worker, Exit(w) PROVE TypeOK'
  BY <1>10 DEF Exit
<1> QED
  BY <1>1, <1>2, <1>3, <1>4, <1>5, <1>6, <1>7, <1>8, <1>9, <1>10 DEF Next, CgiProcess

\* A worker that is waiting for its child, or has done so, has seen its end.
LEMMA NextWholeOutput == IInv /\ [Next]_vars => WholeOutput'
<1> SUFFICES ASSUME IInv, [Next]_vars PROVE WholeOutput'
  OBVIOUS
<1> USE DEF IInv, TypeOK, WholeOutput
<1>1. ASSUME UNCHANGED vars PROVE WholeOutput'
  BY <1>1 DEF vars
<1>2. ASSUME NEW w \in Worker, Read(w) PROVE WholeOutput'
  BY <1>2 DEF Read, Goto, Writable, EndsInv, ChildEnds
<1>3. ASSUME NEW w \in Worker, CgiProcess(w), ~Read(w) PROVE WholeOutput'
  BY <1>3 DEF CgiProcess, PipeInput, PipeOutput, Fork, CloseOthers, Finish, Goto, EndsInv, ChildEnds
<1>4. ASSUME NEW w \in Worker, Exec(w) \/ Write(w) \/ Exit(w) PROVE WholeOutput'
  BY <1>4 DEF Exec, Write, Exit
<1> QED
  BY <1>1, <1>2, <1>3, <1>4 DEF Next

\* A worker opens and closes its own ends only.
LEMMA NextEndsInv == IInv /\ [Next]_vars => EndsInv'
<1> SUFFICES ASSUME IInv, [Next]_vars, NEW v \in Worker PROVE ServerEnds(v)' /\ ChildEnds(v)'
  BY DEF EndsInv
<1> USE DEF IInv, TypeOK, EndsInv
<1>0. \A u \in Worker :
        /\ {InR(u), InW(u), OutR(u), OutW(u)} \subseteq Ends
        /\ InR(u)[1] = u /\ InW(u)[1] = u /\ OutR(u)[1] = u /\ OutW(u)[1] = u
        /\ \A e \in Ends : e[1] = u => e \in {InR(u), InW(u), OutR(u), OutW(u)}
        /\ OutW(u) \notin {InR(u), InW(u), OutR(u)}
        /\ InW(u) # InR(u) /\ OutR(u) # InR(u)
  BY OwnEnds
<1>1. ASSUME UNCHANGED vars PROVE ServerEnds(v)' /\ ChildEnds(v)'
  BY <1>1 DEF vars, ServerEnds, ChildEnds
<1>2. ASSUME NEW w \in Worker, PipeInput(w) PROVE ServerEnds(v)' /\ ChildEnds(v)'
  <2>1. ServerEnds(v)'
    <3>1. CASE w # v
      <4>1. pc'[v] = pc[v] /\ \A e \in Ends : e[1] = v => (e \in server' <=> e \in server)
        BY <1>2, <1>0, <3>1 DEF PipeInput, Goto
      <4>2. server' \subseteq Ends /\ server \subseteq Ends
        BY NextTypeOK
      <4> QED
        BY <4>1, <4>2, <1>0 DEF ServerEnds
    <3>2. CASE w = v
      BY <1>2, <1>0, <3>2 DEF PipeInput, Goto, ServerEnds
    <3> QED
      BY <3>1, <3>2
  <2>2. ChildEnds(v)'
    BY <1>2, <1>0 DEF PipeInput, Goto, ServerEnds, ChildEnds
  <2> QED
    BY <2>1, <2>2
<1>3. ASSUME NEW w \in Worker, PipeOutput(w) PROVE ServerEnds(v)' /\ ChildEnds(v)'
  <2>1. ServerEnds(v)'
    <3>1. CASE w # v
      <4>1. pc'[v] = pc[v] /\ \A e \in Ends : e[1] = v => (e \in server' <=> e \in server)
        BY <1>3, <1>0, <3>1 DEF PipeOutput, Goto
      <4>2. server' \subseteq Ends /\ server \subseteq Ends
        BY NextTypeOK
      <4> QED
        BY <4>1, <4>2, <1>0 DEF ServerEnds
    <3>2. CASE w = v
      BY <1>3, <1>0, <3>2 DEF PipeOutput, Goto, ServerEnds
    <3> QED
      BY <3>1, <3>2
  <2>2. ChildEnds(v)'
    BY <1>3, <1>0 DEF PipeOutput, Goto, ServerEnds, ChildEnds
  <2> QED
    BY <2>1, <2>2
<1>4. ASSUME NEW w \in Worker, Fork(w) PROVE ServerEnds(v)' /\ ChildEnds(v)'
  <2>1. ServerEnds(v)'
    <3>1. CASE w # v
      <4>1. pc'[v] = pc[v] /\ \A e \in Ends : e[1] = v => (e \in server' <=> e \in server)
        BY <1>4, <1>0, <3>1 DEF Fork, Goto
      <4>2. server' \subseteq Ends /\ server \subseteq Ends
        BY NextTypeOK
      <4> QED
        BY <4>1, <4>2, <1>0 DEF ServerEnds
    <3>2. CASE w = v
      BY <1>4, <1>0, <3>2 DEF Fork, Goto, ServerEnds
    <3> QED
      BY <3>1, <3>2
  <2>2. ChildEnds(v)'
    BY <1>4, <1>0 DEF Fork, Goto, ServerEnds, ChildEnds
  <2> QED
    BY <2>1, <2>2
<1>5. ASSUME NEW w \in Worker, CloseOthers(w) PROVE ServerEnds(v)' /\ ChildEnds(v)'
  <2>1. ServerEnds(v)'
    <3>1. CASE w # v
      <4>1. pc'[v] = pc[v] /\ \A e \in Ends : e[1] = v => (e \in server' <=> e \in server)
        BY <1>5, <1>0, <3>1 DEF CloseOthers, Goto
      <4>2. server' \subseteq Ends /\ server \subseteq Ends
        BY NextTypeOK
      <4> QED
        BY <4>1, <4>2, <1>0 DEF ServerEnds
    <3>2. CASE w = v
      BY <1>5, <1>0, <3>2 DEF CloseOthers, Goto, ServerEnds
    <3> QED
      BY <3>1, <3>2
  <2>2. ChildEnds(v)'
    BY <1>5, <1>0 DEF CloseOthers, Goto, ServerEnds, ChildEnds
  <2> QED
    BY <2>1, <2>2
<1>6. ASSUME NEW w \in Worker, Read(w) PROVE ServerEnds(v)' /\ ChildEnds(v)'
  <2>1. ServerEnds(v)'
    BY <1>6, <1>0 DEF Read, Goto, ServerEnds, ChildEnds
  <2>2. ChildEnds(v)'
    BY <1>6, <1>0 DEF Read, Goto, ServerEnds, ChildEnds
  <2> QED
    BY <2>1, <2>2
<1>7. ASSUME NEW w \in Worker, Finish(w) PROVE ServerEnds(v)' /\ ChildEnds(v)'
  <2>1. ServerEnds(v)'
    <3>1. CASE w # v
      <4>1. pc'[v] = pc[v] /\ \A e \in Ends : e[1] = v => (e \in server' <=> e \in server)
        BY <1>7, <1>0, <3>1 DEF Finish, Goto
      <4>2. server' \subseteq Ends /\ server \subseteq Ends
        BY NextTypeOK
      <4> QED
        BY <4>1, <4>2, <1>0 DEF ServerEnds
    <3>2. CASE w = v
      BY <1>7, <1>0, <3>2 DEF Finish, Goto, ServerEnds
    <3> QED
      BY <3>1, <3>2
  <2>2. ChildEnds(v)'
    BY <1>7, <1>0 DEF Finish, Goto, ServerEnds, ChildEnds
  <2> QED
    BY <2>1, <2>2
<1>8. ASSUME NEW w \in Worker, Exec(w) PROVE ServerEnds(v)' /\ ChildEnds(v)'
  <2>1. ServerEnds(v)'
    BY <1>8 DEF Exec, ServerEnds
  <2>2. ChildEnds(v)'
    <3>1. PICK p \in Program[w] : child' = [child EXCEPT ![w] = p]
      BY <1>8 DEF Exec
    <3>2. p \in {"plain", "filter", "other"}
      BY CgiAssumption
    <3>3. InW(w) # OutW(w) /\ OutR(w) # OutW(w)
      BY <1>0
    <3> QED
      BY <1>8, <1>0, <3>1, <3>2, <3>3 DEF Exec, ChildEnds
  <2> QED
    BY <2>1, <2>2
<1>9. ASSUME NEW w \in Worker, Write(w) PROVE ServerEnds(v)' /\ ChildEnds(v)'
  <2>1. ServerEnds(v)'
    BY <1>9, <1>0 DEF Write, ServerEnds, ChildEnds
  <2>2. ChildEnds(v)'
    BY <1>9, <1>0 DEF Write, ServerEnds, ChildEnds
  <2> QED
    BY <2>1, <2>2
<1>10. ASSUME NEW w \in Worker, Exit(w) PROVE ServerEnds(v)' /\ ChildEnds(v)'
  <2>1. ServerEnds(v)'
    BY <1>10, <1>0 DEF Exit, ServerEnds, ChildEnds
  <2>2. ChildEnds(v)'
    BY <1>10, <1>0 DEF Exit, ServerEnds, ChildEnds
  <2> QED
    BY <2>1, <2>2
<1> QED
  BY <1>1, <1>2, <1>3, <1>4, <1>5, <1>6, <1>7, <1>8, <1>9, <1>10 DEF Next, CgiProcess

LEMMA Inductive == Spec => []IInv
<1>1. IInv /\ [Next]_vars => IInv'
  BY NextTypeOK, NextEndsInv, NextWholeOutput DEF IInv
<1> QED
  BY <1>1, InitIInv, PTL DEF Spec

-----------------------------------------------------------------------------
(* What is written, read or not.                                           *)

\* No log text at all.
Clean(u) == \A i \in 1..Len(u) : u[i] # "log"

\* Where log text may be in what the child of w has written: in front of all
\* else, and there only in two cases.
WrittenBy(w) ==
    /\ child[w] \in {"none", "forked"} => body[w] = <<>> /\ pipe[w] = <<>>
    /\ \A i \in 2..Len(Written(w)) : Written(w)[i] # "log"
    /\ Clean(Written(w)) \/ "POST" \in environ[w] \/ Written(w) = <<"log", "error">>
    /\ child[w] \in {"plain", "filter"} => Clean(Written(w)) \/ "POST" \in environ[w]

OutputInv == \A w \in Worker : WrittenBy(w)

\* Reading moves something from the pipe to the answer.
LEMMA ReadMoves ==
    ASSUME NEW b \in Seq(Text), NEW p \in Seq(Text), p # <<>>
    PROVE  Append(b, Head(p)) \o Tail(p) = b \o p
<1>1. Head(p) = p[1] /\ Tail(p) \in Seq(Text) /\ Len(Tail(p)) = Len(p) - 1 /\ Len(p) > 0
  BY HeadTailProperties, EmptySeq
<1>2. \A i \in 1..(Len(p) - 1) : Tail(p)[i] = p[i + 1]
  BY HeadTailProperties
<1>3. /\ Append(b, Head(p)) \in Seq(Text) /\ Len(Append(b, Head(p))) = Len(b) + 1
      /\ \A i \in 1..Len(b) : Append(b, Head(p))[i] = b[i]
      /\ Append(b, Head(p))[Len(b) + 1] = p[1]
  BY <1>1, HeadTailProperties, AppendProperties
<1> DEFINE u == Append(b, Head(p))
           t == Tail(p)
<1> HIDE DEF u, t
<1>4. u \o t \in Seq(Text) /\ b \o p \in Seq(Text) /\ Len(u \o t) = Len(b \o p)
  BY <1>1, <1>3, ConcatProperties DEF u, t
<1>5. ASSUME NEW i \in 1..Len(b \o p) PROVE (u \o t)[i] = (b \o p)[i]
  BY <1>1, <1>2, <1>3, ConcatProperties DEF u, t
<1> QED
  BY <1>4, <1>5, SeqEqual DEF u, t

\* A program's output adds no log text.
LEMMA AppendOutput ==
    ASSUME NEW u \in Seq(Text)
    PROVE  /\ (\A i \in 2..Len(u) : u[i] # "log") =>
                  \A i \in 2..Len(Append(u, "output")) : Append(u, "output")[i] # "log"
           /\ Clean(u) => Clean(Append(u, "output"))
<1> DEFINE n == Len(u)
           t == Append(u, "output")
<1>1. n \in Nat /\ "output" \in Text
  BY DEF Text
<1>2. Len(t) = n + 1 /\ t[n + 1] = "output" /\ \A i \in 1..n : t[i] = u[i]
  BY <1>1, AppendProperties
<1> HIDE DEF t, n
<1>3. \A i \in 1..(n + 1) : i \in 1..n \/ i = n + 1
  BY <1>1
<1>4. \A i \in 2..(n + 1) : i \in 2..n \/ i = n + 1
  BY <1>1
<1>5. \A i \in 2..n : i \in 1..n
  BY <1>1
<1>6. ASSUME \A i \in 2..n : u[i] # "log", NEW i \in 2..(n + 1) PROVE t[i] # "log"
  BY <1>2, <1>4, <1>5, <1>6
<1>7. ASSUME \A i \in 1..n : u[i] # "log", NEW i \in 1..(n + 1) PROVE t[i] # "log"
  BY <1>2, <1>3, <1>7
<1> QED
  BY <1>2, <1>6, <1>7 DEF Clean, n, t

LEMMA NextOutputInv == IInv /\ OutputInv /\ [Next]_vars => OutputInv'
<1> SUFFICES ASSUME IInv, OutputInv, [Next]_vars, NEW v \in Worker PROVE WrittenBy(v)'
  BY DEF OutputInv
<1> USE DEF IInv, TypeOK
<1>0. WrittenBy(v)
  BY DEF OutputInv
<1>1. CASE UNCHANGED <<child, environ, body, pipe>>
  BY <1>0, <1>1 DEF WrittenBy, Written
<1>2. ASSUME NEW w \in Worker, Fork(w) PROVE WrittenBy(v)'
  <2>1. body' = body /\ pipe' = pipe /\ environ' = environ
    BY <1>2 DEF Fork
  <2>2. child'[v] = child[v] \/ (child[v] = "none" /\ child'[v] = "forked")
    <3>1. CASE v = w
      <4>1. child[v] = "none"
        BY <1>2, <3>1 DEF Fork, EndsInv, ChildEnds
      <4> QED
        BY <1>2, <3>1, <4>1 DEF Fork
    <3>2. CASE v # w
      BY <1>2, <3>2 DEF Fork
    <3> QED
      BY <3>1, <3>2
  <2> QED
    BY <1>0, <2>1, <2>2 DEF WrittenBy, Written
<1>3. ASSUME NEW w \in Worker, Read(w) PROVE WrittenBy(v)'
  <2>1. CASE UNCHANGED <<pipe, body>>
    BY <1>0, <1>3, <2>1 DEF Read, WrittenBy, Written
  <2>2. CASE v # w
    BY <1>0, <1>3, <2>2 DEF Read, WrittenBy, Written
  <2>3. CASE v = w /\ pipe[w] # <<>>
    <3>1. /\ body'[v] = Append(body[v], Head(pipe[v])) /\ pipe'[v] = Tail(pipe[v])
          /\ child' = child /\ environ' = environ
      BY <1>3, <2>3 DEF Read
    <3>2. Written(v)' = Written(v)
      BY <2>3, <3>1, ReadMoves DEF Written
    <3>3. child[v] \notin {"none", "forked"}
      BY <1>0, <2>3 DEF WrittenBy
    <3> QED
      BY <1>0, <3>1, <3>2, <3>3 DEF WrittenBy
  <2> QED
    BY <1>3, <2>1, <2>2, <2>3 DEF Read
<1>4. ASSUME NEW w \in Worker, Exec(w) PROVE WrittenBy(v)'
  <2>1. CASE v # w
    BY <1>0, <1>4, <2>1 DEF Exec, Putenv, WrittenBy, Written
  <2>2. CASE v = w
    <3>1. PICK p \in Program[w], method \in Method[w], inherited \in {<<>>, <<"log">>} :
             /\ child' = [child EXCEPT ![w] = p]
             /\ pipe' = [pipe EXCEPT ![w] = Printed(p, method, inherited)]
             /\ Putenv(w, method)
      BY <1>4 DEF Exec
    <3>2. child'[v] = p /\ p \in {"plain", "filter", "other"} /\ method \in environ'[v]
      <4>1. p \in {"plain", "filter", "other"}
        BY CgiAssumption
      <4>2. method \in environ'[v]
        BY <2>2, <3>1 DEF Putenv
      <4> QED
        BY <2>2, <3>1, <4>1, <4>2
    <3>3. Written(v)' = Printed(p, method, inherited)
      <4>1. body'[v] = <<>>
        BY <1>0, <1>4, <2>2 DEF Exec, WrittenBy
      <4>2. pipe'[v] = Printed(p, method, inherited) /\ pipe'[v] \in Seq(Text)
        <5>1. Printed(p, method, inherited) \in {<<>>, <<"log">>, <<"error">>, <<"log", "error">>}
          BY PrintedIs
        <5>2. Printed(p, method, inherited) \in Seq(Text)
          BY <5>1, AppendMakes, Zenon
        <5> QED
          BY <2>2, <3>1, <5>2
      <4> QED
        BY <4>1, <4>2, ConcatEmptySeq DEF Written
    <3>4. CASE p = "other"
      <4>1. Written(v)' \in {<<"error">>, <<"log", "error">>}
        <5>1. Printed(p, method, inherited) \in {<<"error">>, <<"log", "error">>}
          BY <3>4, PrintedIs
        <5> QED
          BY <3>3, <5>1
      <4>2. Clean(<<"error">>) /\ \A i \in 2..Len(<<"log", "error">>) : <<"log", "error">>[i] # "log"
        BY DEF Clean
      <4> QED
        <5>1. CASE Written(v)' = <<"error">>
          <6>1. \A i \in 2..Len(Written(v)') : Written(v)'[i] # "log"
            BY <5>1
          <6>2. Clean(Written(v)')
            BY <5>1, <4>2, Zenon
          <6> QED
            BY <3>2, <3>4, <6>1, <6>2 DEF WrittenBy
        <5>2. CASE Written(v)' = <<"log", "error">>
          <6>1. \A i \in 2..Len(Written(v)') : Written(v)'[i] # "log"
            BY <5>2, <4>2, Zenon
          <6> QED
            BY <3>2, <3>4, <5>2, <6>1 DEF WrittenBy
        <5> QED
          BY <4>1, <5>1, <5>2
    <3>5. CASE p # "other"
      <4>1. Written(v)' \in {<<>>, <<"log">>} /\ (Written(v)' = <<"log">> => method = "POST")
        BY <3>1, <3>3, <3>5, PrintedIs
      <4>2. Clean(<<>>)
        BY DEF Clean
      <4> QED
        <5>1. \A i \in 2..Len(Written(v)') : Written(v)'[i] # "log"
          BY <4>1
        <5>2. Clean(Written(v)') \/ "POST" \in environ'[v]
          BY <3>2, <4>1, <4>2
        <5> QED
          BY <3>2, <3>5, <5>1, <5>2 DEF WrittenBy
    <3> QED
      BY <3>4, <3>5
  <2> QED
    BY <2>1, <2>2
<1>5. ASSUME NEW w \in Worker, Write(w) PROVE WrittenBy(v)'
  <2>1. CASE v # w
    BY <1>0, <1>5, <2>1 DEF Write, WrittenBy, Written
  <2>2. CASE v = w
    <3>1. body' = body /\ child' = child /\ environ' = environ
          /\ pipe'[v] = Append(pipe[v], "output") /\ child[v] \in {"plain", "filter"}
      BY <1>5, <2>2 DEF Write
    <3>2. Written(v)' = Append(Written(v), "output")
      BY <3>1 DEF Written
    <3>3. Written(v) \in Seq(Text) /\ "output" \in Text
      BY DEF Written, Text
    <3>4. /\ \A i \in 2..Len(Written(v)) : Written(v)[i] # "log"
          /\ Clean(Written(v)) \/ "POST" \in environ[v]
      BY <1>0, <3>1 DEF WrittenBy
    <3>5. \A i \in 2..Len(Written(v)') : Written(v)'[i] # "log"
      BY <3>2, <3>3, <3>4, AppendOutput
    <3>6. Clean(Written(v)') \/ "POST" \in environ'[v]
      BY <3>1, <3>2, <3>3, <3>4, AppendOutput
    <3> QED
      BY <3>1, <3>5, <3>6 DEF WrittenBy
  <2> QED
    BY <2>1, <2>2
<1>6. ASSUME NEW w \in Worker, Exit(w) PROVE WrittenBy(v)'
  BY <1>0, <1>6 DEF Exit, WrittenBy, Written
<1>7. ASSUME NEW w \in Worker, PipeInput(w) \/ PipeOutput(w) \/ CloseOthers(w) \/ Finish(w)
      PROVE  WrittenBy(v)'
  BY <1>1, <1>7 DEF PipeInput, PipeOutput, CloseOthers, Finish
<1> QED
  BY <1>1, <1>2, <1>3, <1>4, <1>5, <1>6, <1>7 DEF Next, CgiProcess, vars

-----------------------------------------------------------------------------
\* Pipes, children and answers keep their types, whatever fails.
THEOREM TypeCorrect == Spec => []TypeOK
<1>1. IInv => TypeOK
  BY DEF IInv
<1> QED
  BY <1>1, Inductive, PTL

\* An answer is the whole output of the worker's own child, however many
\* children hold its pipe.
THEOREM WholeAnswers == Spec => []WholeOutput
<1>1. IInv => WholeOutput
  BY DEF IInv
<1> QED
  BY <1>1, Inductive, PTL

\* CgiProcess closes each pipe end it has opened, unless it fails.
THEOREM EndsAreClosed == Spec => []EndsClosed
<1>1. IInv => EndsClosed
  BY DEF IInv, EndsInv, ServerEnds, EndsClosed
<1> QED
  BY <1>1, Inductive, PTL

\* A worker never waits for the end of a file it could itself write to.
THEOREM NobodyWaitsForItself == Spec => []WaitsForChildOnly
<1>1. ASSUME IInv PROVE WaitsForChildOnly
  <2> SUFFICES ASSUME NEW w \in Worker, pc[w] = "read", child[w] = "exited", Writable(w)
               PROVE  \E v \in Worker \ {w} : child[v] # "exited" /\ OutW(w) \in copies[v]
    BY DEF WaitsForChildOnly
  <2>1. OutW(w) \notin server
    BY <1>1, OwnEnds DEF IInv, TypeOK, EndsInv, ServerEnds
  <2>2. PICK v \in Worker : OutW(w) \in copies[v]
    BY <2>1 DEF Writable
  <2>3. child[v] # "exited"
    BY <1>1, <2>2 DEF IInv, EndsInv, ChildEnds
  <2> QED
    BY <2>2, <2>3
<1> QED
  BY <1>1, Inductive, PTL

\* What a child inherits of the log is never among the output of a program:
\* it is in front of the answer to a POST, which the line to cerr flushes it
\* into (protocal.cc:249), or of the message of a failed execl (254).
THEOREM OutputIsPure == Spec => []OutputUnmixed
<1>1. Init => OutputInv
  <2> SUFFICES ASSUME Init, NEW w \in Worker PROVE WrittenBy(w)
    BY DEF OutputInv
  <2>1. Written(w) = <<>>
    BY DEF Init, Written
  <2> QED
    BY <2>1 DEF Init, WrittenBy, Clean
<1>2. ASSUME OutputInv PROVE OutputUnmixed
  <2> SUFFICES ASSUME NEW w \in Worker
               PROVE  /\ \A i \in 2..Len(Written(w)) : Written(w)[i] # "log"
                      /\ Contains(Written(w), "log") =>
                             "POST" \in environ[w] \/ Written(w) = <<"log", "error">>
    BY DEF OutputUnmixed
  <2>1. WrittenBy(w)
    BY <1>2 DEF OutputInv
  <2>2. Contains(Written(w), "log") => ~Clean(Written(w))
    BY DEF Contains, Clean
  <2> QED
    BY <2>1, <2>2 DEF WrittenBy
<1> QED
  BY <1>1, <1>2, NextOutputInv, Inductive, PTL DEF Spec
=============================================================================
