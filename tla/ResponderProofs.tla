--------------------------- MODULE ResponderProofs ---------------------------
(***************************************************************************)
(* Proofs about Responder, for any set of error pages, sizes and number of *)
(* edits.                                                                  *)
(***************************************************************************)
EXTENDS Responder, SequenceTheorems, FiniteSetTheorems, TLAPS

(* The inductive invariant, in parts.                                      *)

\* Who gets where, and what has been done by then.
FlowInv ==
    /\ pc \in {"open", "reopen", "close"} => ~cgi
    /\ pc = "cgi" => cgi
    /\ pc \in {"stat", "statIndex", "open"} => Len(fds) = 0
    /\ pc \in {"stat", "statIndex", "open", "reopen", "cgi", "helper"} => Len(header) = 0
    /\ pc = "page" => /\ status # 200 /\ Len(todo) \in {1, 2}
                      /\ status = 400 => todo = <<PAGE_400>>
                      /\ status = 500 => todo = <<PAGE_500>>
    /\ closed = IF pc \in {"hangup", "done"} /\ ~cgi /\ m_fd # 0 THEN {m_fd} ELSE {}

\* What the calls of CgiProcess have left.
LeftByRuns ==
    IF Len(runs) = 0 THEN 0
    ELSE IF Len(runs) = 1 THEN runs[1].left ELSE runs[1].left + runs[2].left

RunsInv ==
    /\ pc \in {"stat", "statIndex", "open", "reopen"} => Len(runs) = 0
    /\ pc = "cgi" => Len(runs) \in {0, 1}
    /\ Len(runs) \in {0, 2} \/ pc = "cgi"
    /\ Len(body) <= Len(runs)
    /\ cgi => Len(fds) <= Len(header) + LeftByRuns

\* How many descriptors a request without CGI has, what is in m_fd, and who
\* gets past the stat that sets m_file_size.
FilesInv ==
    ~cgi =>
        /\ m_file_size = Uninit => \A k \in 1..Len(header) : header[k].size = Uninit
        /\ pc = "reopen" => Len(fds) <= 1 /\ m_file_size # Uninit
        /\ pc = "open" => m_file_size # Uninit
        /\ pc = "helper" =>
              /\ status = 200 => /\ m_fd = Len(fds) /\ m_fd \in {1, 2}
                                 /\ fds[m_fd] \notin Pages /\ m_file_size # Uninit
              /\ status = 500 => Len(fds) <= 1 /\ m_file_size # Uninit
              /\ status \in {400, 404} => Len(fds) = 0
        /\ pc = "page" => /\ Len(fds) + Len(todo) <= 2
                          /\ status = 500 => m_file_size # Uninit
        /\ pc \in {"send", "close", "hangup", "done"} =>
              /\ m_fd \in {0} \cup Got
              /\ Len(fds) <= (IF m_fd = 0 THEN 1 ELSE 2)
              /\ m_fd # 0 /\ m_file_size = Uninit => status \in {400, 404} /\ Len(header) # 0
              /\ status = 200 => m_fd # 0 /\ fds[m_fd] \notin Pages
              /\ status = 400 /\ m_fd # 0 => fds[m_fd] = PAGE_400
              /\ status = 404 /\ m_fd # 0 => fds[m_fd] \in Pages
              /\ status = 500 /\ m_fd # 0 => fds[m_fd] = PAGE_500

IInv == TypeOK /\ FlowInv /\ RunsInv /\ FilesInv

-----------------------------------------------------------------------------
Kinds == (Site \ {"none", "dirFile", "dirExec"}) \cup Pages \cup {"pipe"}

Announced == [page : Pages, size : {Uninit, Size, DirSize}]

Run == [code : {200, 404, 500}, left : {0, 2, 4}]

LEMMA FoundIs == TypeOK => Found \in {"none", "file", "exec", "dir"}
BY DEF TypeOK, Found, InDir, Site

\* An open adds one descriptor, the last, or leaves m_fd at -1.
LEMMA OpenAdds ==
    ASSUME TypeOK, NEW what \in Kinds \cup {"none"}, OpenPath(what)
    PROVE  /\ fds' \in Seq(Kinds) /\ Len(fds) \in Nat /\ Len(fds') \in Nat
           /\ \/ /\ Len(fds') = Len(fds) + 1 /\ m_fd' = Len(fds')
                 /\ fds'[m_fd'] = what /\ what # "none"
              \/ fds' = fds /\ m_fd' = 0
<1>1. fds \in Seq(Kinds) /\ Len(fds) \in Nat
  BY LenProperties DEF TypeOK, Kinds
<1>2. CASE what # "none" /\ fds' = Append(fds, what) /\ m_fd' = Len(fds')
  <2>1. what \in Kinds
    BY <1>2
  <2>2. /\ fds' \in Seq(Kinds) /\ Len(fds') = Len(fds) + 1
        /\ fds'[Len(fds) + 1] = what
    BY <1>1, <1>2, <2>1, AppendProperties
  <2> QED
    BY <1>1, <1>2, <2>2
<1>3. CASE fds' = fds /\ m_fd' = 0
  BY <1>1, <1>3
<1> QED
  BY <1>2, <1>3 DEF OpenPath

\* A call of CgiProcess leaves what it says it leaves.
LEMMA CgiLeaves ==
    ASSUME IInv, Cgi
    PROVE  /\ fds' \in Seq(Kinds) /\ Len(fds) \in Nat
           /\ runs' \in Seq(Run)
           /\ Len(runs') = Len(runs) + 1
           /\ \A i \in 1..Len(runs) : runs'[i] = runs[i]
           /\ Len(fds') = Len(fds) + runs'[Len(runs')].left
           /\ \A i \in 1..Len(runs') : runs'[i].code \in {200, 404, 500} /\ runs'[i].left \in {0, 2, 4}
           /\ body' \in Seq({1, 2}) /\ Len(body') <= Len(runs')
<1>1. /\ fds \in Seq(Kinds) /\ runs \in Seq(Run) /\ body \in Seq({1, 2})
      /\ Len(fds) \in Nat /\ Len(runs) \in Nat /\ Len(body) \in Nat
      /\ Len(runs) \in {0, 1} /\ Len(body) <= Len(runs)
  BY LenProperties DEF IInv, TypeOK, RunsInv, Kinds, Cgi, Run
<1>2. ASSUME NEW c \in {200, 404, 500}, NEW l \in {0, 2, 4},
             runs' = Append(runs, [code |-> c, left |-> l])
      PROVE  /\ runs' \in Seq(Run) /\ Len(runs') = Len(runs) + 1
             /\ \A i \in 1..Len(runs) : runs'[i] = runs[i]
             /\ runs'[Len(runs')].left = l
  <2>1. [code |-> c, left |-> l] \in Run
    BY DEF Run
  <2>2. /\ runs' \in Seq(Run) /\ Len(runs') = Len(runs) + 1
        /\ \A i \in 1..Len(runs) : runs'[i] = runs[i]
        /\ runs'[Len(runs) + 1] = [code |-> c, left |-> l]
    BY <1>1, <1>2, <2>1, AppendProperties
  <2> QED
    BY <2>2
<1> DEFINE Leaves == /\ fds' \in Seq(Kinds) /\ runs' \in Seq(Run) /\ Len(runs') = Len(runs) + 1
                     /\ \A i \in 1..Len(runs) : runs'[i] = runs[i]
                     /\ Len(fds') = Len(fds) + runs'[Len(runs')].left
                     /\ body' \in Seq({1, 2}) /\ Len(body') <= Len(runs')
<1>3. ASSUME runs' = Append(runs, [code |-> 500, left |-> 0]) /\ UNCHANGED <<fds, body>>
      PROVE  Leaves
  BY <1>1, <1>2, <1>3
<1>4. ASSUME /\ runs' = Append(runs, [code |-> 500, left |-> 2])
             /\ fds' = fds \o <<"pipe", "pipe">> /\ UNCHANGED body
      PROVE  Leaves
  <2>1. <<"pipe", "pipe">> \in Seq(Kinds) /\ Len(<<"pipe", "pipe">>) = 2
    BY DEF Kinds
  <2>2. fds' \in Seq(Kinds) /\ Len(fds') = Len(fds) + 2
    BY <1>1, <1>4, <2>1, ConcatProperties
  <2> QED
    BY <1>1, <1>2, <1>4, <2>2
<1>5. ASSUME /\ runs' = Append(runs, [code |-> 404, left |-> 4])
             /\ fds' = fds \o <<"pipe", "pipe", "pipe", "pipe">> /\ UNCHANGED body
      PROVE  Leaves
  <2>1. /\ <<"pipe", "pipe", "pipe", "pipe">> \in Seq(Kinds)
        /\ Len(<<"pipe", "pipe", "pipe", "pipe">>) = 4
    BY DEF Kinds
  <2>2. fds' \in Seq(Kinds) /\ Len(fds') = Len(fds) + 4
    BY <1>1, <1>5, <2>1, ConcatProperties
  <2> QED
    BY <1>1, <1>2, <1>5, <2>2
<1>6. ASSUME /\ runs' = Append(runs, [code |-> 200, left |-> 0])
             /\ body' \in {body, Append(body, Len(runs'))} /\ UNCHANGED fds
      PROVE  Leaves
  <2>1. /\ runs' \in Seq(Run) /\ Len(runs') = Len(runs) + 1
        /\ \A i \in 1..Len(runs) : runs'[i] = runs[i]
        /\ runs'[Len(runs')].left = 0
    BY <1>2, <1>6
  <2>2. Len(runs') \in {1, 2}
    BY <1>1, <2>1
  <2>3. /\ Append(body, Len(runs')) \in Seq({1, 2})
        /\ Len(Append(body, Len(runs'))) = Len(body) + 1
    BY <1>1, <2>2, AppendProperties
  <2> QED
    BY <1>1, <1>6, <2>1, <2>3
<1>7. Leaves
  BY <1>3, <1>4, <1>5, <1>6 DEF Cgi, CgiProcess
<1>8. \A i \in 1..Len(runs') : runs'[i] \in Run
  BY <1>7, ElementOfSeq
<1>9. \A i \in 1..Len(runs') : runs'[i].code \in {200, 404, 500} /\ runs'[i].left \in {0, 2, 4}
  BY <1>8 DEF Run
<1> QED
  BY <1>1, <1>7, <1>9

LEMMA LeftIsNat == IInv => LeftByRuns \in Nat
<1> SUFFICES ASSUME IInv PROVE LeftByRuns \in Nat
  OBVIOUS
<1>1. runs \in Seq(Run) /\ Len(runs) \in {0, 1, 2}
  BY DEF IInv, TypeOK, RunsInv, Run
<1>2. \A i \in 1..Len(runs) : runs[i] \in Run
  BY <1>1, ElementOfSeq
<1>3. \A i \in 1..Len(runs) : runs[i].left \in Nat
  BY <1>2 DEF Run
<1> QED
  BY <1>1, <1>3 DEF LeftByRuns

LEMMA StatDoes ==
    ASSUME IInv, Stat
    PROVE  /\ cgi' \in BOOLEAN /\ m_file_size' \in {m_file_size, Size}
           /\ pc' \in {"helper", "statIndex", "cgi", "open"}
           /\ pc' = "helper" => status' = 404 /\ cgi' = cgi
           /\ pc' # "helper" => status' = status
           /\ pc' = "statIndex" => cgi' = cgi
           /\ pc' = "cgi" => cgi'
           /\ pc' = "open" => ~cgi' /\ m_file_size' = Size
           /\ path' \in {path, "index"}
<1>1. CASE Found = "none" /\ status' = 404 /\ pc' = "helper" /\ UNCHANGED <<cgi, path, m_file_size>>
  BY <1>1 DEF IInv, TypeOK
<1>2. CASE /\ Found = "dir" /\ path' = "index" /\ pc' = "statIndex"
           /\ UNCHANGED <<status, cgi, m_file_size>>
  BY <1>2 DEF IInv, TypeOK
<1>3. CASE /\ cgi' = (cgi \/ Found = "exec") /\ m_file_size' = Size /\ pc' = Produce(cgi')
           /\ UNCHANGED <<status, path>>
  <2>1. cgi' \in BOOLEAN
    BY <1>3
  <2>2. CASE cgi'
    BY <1>3, <2>1, <2>2 DEF Produce
  <2>3. CASE ~cgi'
    BY <1>3, <2>1, <2>3 DEF Produce
  <2> QED
    BY <2>2, <2>3
<1> QED
  BY <1>1, <1>2, <1>3 DEF Stat

LEMMA StatIndexDoes ==
    ASSUME IInv, StatIndex
    PROVE  /\ m_file_size' \in {Size, DirSize} /\ pc' \in {"cgi", "open"}
           /\ pc' = "cgi" => cgi
           /\ pc' = "open" => ~cgi
BY DEF StatIndex, Produce

\* One error page less to go through.
LEMMA PageDone ==
    ASSUME IInv, BuildErrorHeader
    PROVE  /\ Head(todo) \in {PAGE_400, PAGE_404, PAGE_500}
           /\ todo' \in Seq({PAGE_400, PAGE_404, PAGE_500})
           /\ Len(todo) \in {1, 2} /\ Len(todo') = Len(todo) - 1
           /\ todo' = <<>> <=> Len(todo') = 0
           /\ header' \in Seq(Announced) /\ Len(header) \in Nat
           /\ \A k \in 1..Len(header) : header'[k] = header[k]
           /\ m_fd' > 0 => header'[Len(header) + 1].size = m_file_size'
           /\ Len(header') = IF m_fd' > 0 THEN Len(header) + 1 ELSE Len(header)
           /\ Len(fds) \in Nat /\ fds' \in Seq(Kinds)
           /\ \/ /\ Len(fds') = Len(fds) + 1 /\ m_fd' = Len(fds') /\ m_fd' > 0
                 /\ fds'[m_fd'] \in Pages /\ fds'[m_fd'] = Head(todo)
                 /\ m_file_size' \in {Size, m_file_size}
              \/ fds' = fds /\ m_fd' = 0 /\ m_file_size' = m_file_size
<1>1. /\ todo \in Seq({PAGE_400, PAGE_404, PAGE_500}) /\ Len(todo) \in {1, 2}
      /\ header \in Seq(Announced) /\ Len(header) \in Nat
      /\ m_file_size \in {Uninit, Size, DirSize}
  BY LenProperties DEF IInv, TypeOK, FlowInv, BuildErrorHeader, Announced
<1>2. todo # <<>>
  <2>1. Len(todo) # 0
    BY <1>1
  <2> QED
    BY <2>1
<1>3. /\ Head(todo) \in {PAGE_400, PAGE_404, PAGE_500}
      /\ Tail(todo) \in Seq({PAGE_400, PAGE_404, PAGE_500}) /\ Len(Tail(todo)) = Len(todo) - 1
  BY <1>1, <1>2, HeadTailProperties
<1>4. todo' = Tail(todo)
  BY DEF BuildErrorHeader
<1>5. todo' = <<>> <=> Len(todo') = 0
  BY <1>3, <1>4, EmptySeq
<1> DEFINE what == IF Head(todo) \in Pages THEN Head(todo) ELSE "none"
<1>6. what \in Kinds \cup {"none"} /\ OpenPath(what) /\ TypeOK
  BY DEF Kinds, BuildErrorHeader, IInv
<1>7. what # "none" => what \in Pages
  OBVIOUS
<1> HIDE DEF what
<1>8. /\ fds' \in Seq(Kinds) /\ Len(fds) \in Nat
      /\ \/ /\ Len(fds') = Len(fds) + 1 /\ m_fd' = Len(fds') /\ m_fd' > 0
            /\ fds'[m_fd'] = what /\ what # "none"
         \/ fds' = fds /\ m_fd' = 0
  BY <1>6, OpenAdds
<1>9. m_fd' > 0 => Head(todo) \in Pages /\ fds'[m_fd'] = what
  BY <1>8 DEF what
<1>10. /\ header' = IF m_fd' > 0 THEN Append(header, [page |-> Head(todo), size |-> m_file_size'])
                              ELSE header
       /\ m_file_size' \in IF m_fd' > 0 THEN {Size, m_file_size} ELSE {m_file_size}
  BY DEF BuildErrorHeader
<1>11. /\ header' \in Seq(Announced)
       /\ Len(header') = IF m_fd' > 0 THEN Len(header) + 1 ELSE Len(header)
       /\ \A k \in 1..Len(header) : header'[k] = header[k]
       /\ m_fd' > 0 => header'[Len(header) + 1].size = m_file_size'
  <2>1. CASE m_fd' > 0
    <3>1. [page |-> Head(todo), size |-> m_file_size'] \in Announced
      BY <1>1, <1>9, <1>10, <2>1 DEF Announced
    <3> QED
      BY <1>1, <1>10, <2>1, <3>1, AppendProperties
  <2>2. CASE ~(m_fd' > 0)
    BY <1>1, <1>10, <2>2
  <2> QED
    BY <2>1, <2>2
<1>12. m_fd' > 0 => fds'[m_fd'] = Head(todo)
  BY <1>9 DEF what
<1> QED
  BY <1>1, <1>3, <1>4, <1>5, <1>7, <1>8, <1>10, <1>11, <1>12

\* What the switch of BuildResponseHelper sets out to send.
LEMMA HelperSets ==
    ASSUME IInv, Helper
    PROVE  /\ todo' \in Seq({PAGE_400, PAGE_404, PAGE_500})
           /\ Len(todo') \in {0, 1, 2}
           /\ status = 200 <=> Len(todo') = 0
           /\ status = 400 => todo' = <<PAGE_400>> /\ Len(todo') = 1
           /\ status = 500 => todo' = <<PAGE_500>> /\ Len(todo') = 1
           /\ pc' = IF status = 200 THEN "send" ELSE "page"
           /\ header' = header
<1>1. status \in {200, 400, 404, 500}
  BY DEF IInv, TypeOK
<1>2. CASE status = 200
  BY <1>2 DEF Helper, Build200header
<1>3. CASE status = 400
  BY <1>3 DEF Helper
<1>4. CASE status = 404
  BY <1>4 DEF Helper
<1>5. CASE status = 500
  BY <1>5 DEF Helper
<1> QED
  BY <1>1, <1>2, <1>3, <1>4, <1>5

-----------------------------------------------------------------------------
LEMMA InitIInv == Init => IInv
<1> SUFFICES ASSUME Init PROVE IInv
  OBVIOUS
<1>1. /\ fds \in Seq(Kinds) /\ header \in Seq(Announced) /\ body \in Seq({1, 2})
      /\ todo \in Seq({PAGE_400, PAGE_404, PAGE_500})
      /\ runs \in Seq([code : {200, 404, 500}, left : {0, 2, 4}])
      /\ Len(fds) = 0 /\ Len(header) = 0 /\ Len(body) = 0 /\ Len(runs) = 0
  BY EmptySeq DEF Init
<1>2. cgi \in BOOLEAN /\ alive \in BOOLEAN
  BY DEF Init
<1>3. edits \in 0..MaxEdits /\ blocks \in 0..(Size + DirSize + 2)
  BY ResponderAssumption DEF Init
<1>4. TypeOK
  BY <1>1, <1>2, <1>3 DEF Init, TypeOK, Got, Kinds, Announced
<1> QED
  BY <1>1, <1>4 DEF Init, IInv, FlowInv, RunsInv, FilesInv, LeftByRuns

\* The sizes of what is sent.
LEMMA SendBound == IInv /\ Send => blocks' \in 0..(Size + DirSize + 2)
<1> SUFFICES ASSUME IInv, Send PROVE blocks' \in 0..(Size + DirSize + 2)
  OBVIOUS
<1>1. Len(body) \in Nat /\ Len(runs) \in {0, 2} /\ Len(body) <= Len(runs)
  BY LenProperties DEF IInv, TypeOK, RunsInv, Send
<1>2. Size \in Nat \ {0} /\ DirSize \in Nat \ {0} /\ Uninit \notin Nat
  BY ResponderAssumption
<1>3. m_file_size \in {Uninit, Size, DirSize}
  BY DEF IInv, TypeOK
<1>4. ToSend \subseteq 0..(Size + DirSize + 2)
  <2>1. CASE cgi
    BY <1>1, <1>2, <2>1 DEF ToSend
  <2>2. CASE ~cgi /\ (m_fd = 0 \/ fds[m_fd] = "dir")
    <3>1. ToSend = {0}
      BY <2>2, Zenon DEF ToSend
    <3> QED
      BY <1>2, <3>1
  <2>3. CASE ~cgi /\ ~(m_fd = 0 \/ fds[m_fd] = "dir")
    <3>1. ToSend = IF m_file_size = Uninit THEN 0..Size
                   ELSE IF m_file_size < Size THEN {m_file_size} ELSE {Size}
      BY <2>3, Zenon DEF ToSend
    <3> QED
      BY <1>2, <1>3, <3>1
  <2> QED
    BY <2>1, <2>2, <2>3
<1>5. PICK n \in ToSend : blocks' \in Written(n)
  BY DEF Send
<1>6. n \in 0..(Size + DirSize + 2) /\ Size + DirSize + 2 \in Nat
  BY <1>2, <1>4, <1>5
<1>7. Written(n) \subseteq 0..(Size + DirSize + 2)
  BY <1>6 DEF Written
<1> QED
  BY <1>5, <1>7

LEMMA NextTypeOK == IInv /\ [Next]_vars => TypeOK'
<1> SUFFICES ASSUME IInv, [Next]_vars PROVE TypeOK'
  OBVIOUS
<1> USE DEF IInv, TypeOK, FlowInv, FilesInv, Got, Kinds, Announced, Run, envVars, fdVars, sendVars
<1>1. CASE UNCHANGED vars
  BY <1>1 DEF vars
<1>2. CASE Edit
  <2>1. cgi' \in BOOLEAN /\ alive' \in BOOLEAN
    BY <1>2 DEF Edit
  <2> QED
    BY <1>2, <2>1, ResponderAssumption DEF Edit
<1>3. CASE Reset
  <2>1. cgi' \in BOOLEAN /\ alive' \in BOOLEAN
    BY <1>3 DEF Reset
  <2> QED
    BY <1>3, <2>1 DEF Reset
<1>4. CASE Stat
  BY <1>4, StatDoes DEF Stat
<1>5. CASE StatIndex
  BY <1>5, StatIndexDoes DEF StatIndex, Produce
<1>6. CASE Open
  <2>1. /\ fds' \in Seq(Kinds) /\ Len(fds) \in Nat /\ Len(fds') \in Nat
        /\ \/ /\ Len(fds') = Len(fds) + 1 /\ m_fd' = Len(fds')
              /\ fds'[m_fd'] \in {"file", "exec", "dir"}
           \/ fds' = fds /\ m_fd' = 0
    <3>1. Found \in Kinds \cup {"none"} /\ Found \in {"none", "file", "exec", "dir"} /\ OpenPath(Found)
      BY <1>6, FoundIs DEF Open, Kinds, Site
    <3> QED
      BY <3>1, OpenAdds
  <2> QED
    BY <1>6, <2>1 DEF Open
<1>7. CASE Reopen
  <2>1. /\ fds' \in Seq(Kinds) /\ Len(fds) \in Nat /\ Len(fds') \in Nat
        /\ \/ /\ Len(fds') = Len(fds) + 1 /\ m_fd' = Len(fds')
              /\ fds'[m_fd'] \in {"file", "exec", "dir"}
           \/ fds' = fds /\ m_fd' = 0
    <3>1. Found \in Kinds \cup {"none"} /\ Found \in {"none", "file", "exec", "dir"} /\ OpenPath(Found)
      BY <1>7, FoundIs DEF Reopen, Kinds, Site
    <3> QED
      BY <3>1, OpenAdds
  <2> QED
    BY <1>7, <2>1 DEF Reopen
<1>8. CASE Cgi
  <2>1. /\ Len(runs') = Len(runs) + 1 /\ Len(runs) \in {0, 1}
        /\ \A i \in 1..Len(runs') : runs'[i].code \in {200, 404, 500}
    BY <1>8, CgiLeaves DEF Cgi, RunsInv
  <2>2. status' \in {200, 400, 404, 500}
    BY <1>8, <2>1 DEF Cgi
  <2>3. closed' \in SUBSET Got' /\ m_fd' \in {Uninit, 0} \cup Got'
    <3>1. Len(fds') \in Nat /\ Len(fds') >= Len(fds)
      <4>1. /\ Len(fds') = Len(fds) + runs'[Len(runs')].left /\ Len(fds) \in Nat
            /\ \A i \in 1..Len(runs') : runs'[i].left \in {0, 2, 4}
        BY <1>8, CgiLeaves
      <4>2. Len(runs') \in 1..Len(runs')
        BY <2>1
      <4>3. runs'[Len(runs')].left \in {0, 2, 4}
        BY <4>1, <4>2
      <4> HIDE DEF IInv, TypeOK, FlowInv, FilesInv
      <4> QED
        BY <4>1, <4>3
    <3>2. Got \subseteq Got'
      BY <1>8, <3>1, CgiLeaves
    <3> QED
      BY <1>8, <3>2 DEF Cgi
  <2> QED
    BY <1>8, <2>1, <2>2, <2>3, CgiLeaves DEF Cgi
<1>9. CASE Helper
  BY <1>9, HelperSets DEF Helper, Build200header
<1>10. CASE BuildErrorHeader
  BY <1>10, PageDone DEF BuildErrorHeader
<1>11. CASE Send
  BY <1>11, SendBound DEF Send
<1>12. CASE Close
  <2>1. cgi' \in BOOLEAN /\ alive' \in BOOLEAN
    BY <1>12 DEF Close
  <2> QED
    BY <1>12, <2>1 DEF Close
<1>13. CASE CloseSocket
  BY <1>13 DEF CloseSocket
<1> QED
  BY <1>1, <1>2, <1>3, <1>4, <1>5, <1>6, <1>7, <1>8, <1>9, <1>10, <1>11, <1>12, <1>13 DEF Next, Handler

LEMMA NextFlowInv == IInv /\ [Next]_vars => FlowInv'
<1> SUFFICES ASSUME IInv, [Next]_vars PROVE FlowInv'
  OBVIOUS
<1> USE DEF IInv, TypeOK, FlowInv, envVars, fdVars, sendVars
<1>1. CASE UNCHANGED vars
  BY <1>1 DEF vars
<1>2. CASE Edit
  BY <1>2 DEF Edit
<1>3. CASE Reset
  BY <1>3 DEF Reset
<1>4. CASE Stat
  BY <1>4, StatDoes DEF Stat, Produce
<1>5. CASE StatIndex
  BY <1>5, StatIndexDoes DEF StatIndex, Produce
<1>6. CASE Open
  <2>1. /\ fds' \in Seq(Kinds) /\ Len(fds) \in Nat /\ Len(fds') \in Nat
        /\ \/ /\ Len(fds') = Len(fds) + 1 /\ m_fd' = Len(fds')
              /\ fds'[m_fd'] \in {"file", "exec", "dir"}
           \/ fds' = fds /\ m_fd' = 0
    <3>1. Found \in Kinds \cup {"none"} /\ Found \in {"none", "file", "exec", "dir"} /\ OpenPath(Found)
      BY <1>6, FoundIs DEF Open, Kinds, Site
    <3> QED
      BY <3>1, OpenAdds
  <2> QED
    BY <1>6, <2>1 DEF Open
<1>7. CASE Reopen
  <2>1. /\ fds' \in Seq(Kinds) /\ Len(fds) \in Nat /\ Len(fds') \in Nat
        /\ \/ /\ Len(fds') = Len(fds) + 1 /\ m_fd' = Len(fds')
              /\ fds'[m_fd'] \in {"file", "exec", "dir"}
           \/ fds' = fds /\ m_fd' = 0
    <3>1. Found \in Kinds \cup {"none"} /\ Found \in {"none", "file", "exec", "dir"} /\ OpenPath(Found)
      BY <1>7, FoundIs DEF Reopen, Kinds, Site
    <3> QED
      BY <3>1, OpenAdds
  <2> QED
    BY <1>7, <2>1 DEF Reopen
<1>8. CASE Cgi
  BY <1>8, CgiLeaves DEF Cgi
<1>9. CASE Helper
  BY <1>9, HelperSets DEF Helper, Build200header
<1>10. CASE BuildErrorHeader
  BY <1>10, PageDone DEF BuildErrorHeader
<1>11. CASE Send
  BY <1>11, SendBound DEF Send
<1>12. CASE Close
  BY <1>12 DEF Close
<1>13. CASE CloseSocket
  BY <1>13 DEF CloseSocket
<1> QED
  BY <1>1, <1>2, <1>3, <1>4, <1>5, <1>6, <1>7, <1>8, <1>9, <1>10, <1>11, <1>12, <1>13 DEF Next, Handler

LEMMA NextRunsInv == IInv /\ [Next]_vars => RunsInv'
<1> SUFFICES ASSUME IInv, [Next]_vars PROVE RunsInv'
  OBVIOUS
<1> USE DEF IInv, TypeOK, FlowInv, RunsInv, LeftByRuns, envVars, fdVars, sendVars
<1>1. CASE UNCHANGED vars
  BY <1>1 DEF vars
<1>2. CASE Edit
  BY <1>2 DEF Edit
<1>3. CASE Reset
  BY <1>3 DEF Reset
<1>4. CASE Stat
  BY <1>4, StatDoes DEF Stat, LeftByRuns
<1>5. CASE StatIndex
  BY <1>5, StatIndexDoes DEF StatIndex, LeftByRuns
<1>6. CASE Open
  <2>1. /\ fds' \in Seq(Kinds) /\ Len(fds) \in Nat /\ Len(fds') \in Nat
        /\ \/ /\ Len(fds') = Len(fds) + 1 /\ m_fd' = Len(fds')
              /\ fds'[m_fd'] \in {"file", "exec", "dir"}
           \/ fds' = fds /\ m_fd' = 0
    <3>1. Found \in Kinds \cup {"none"} /\ Found \in {"none", "file", "exec", "dir"} /\ OpenPath(Found)
      BY <1>6, FoundIs DEF Open, Kinds, Site
    <3> QED
      BY <3>1, OpenAdds
  <2> QED
    BY <1>6, <2>1 DEF Open
<1>7. CASE Reopen
  <2>1. /\ fds' \in Seq(Kinds) /\ Len(fds) \in Nat /\ Len(fds') \in Nat
        /\ \/ /\ Len(fds') = Len(fds) + 1 /\ m_fd' = Len(fds')
              /\ fds'[m_fd'] \in {"file", "exec", "dir"}
           \/ fds' = fds /\ m_fd' = 0
    <3>1. Found \in Kinds \cup {"none"} /\ Found \in {"none", "file", "exec", "dir"} /\ OpenPath(Found)
      BY <1>7, FoundIs DEF Reopen, Kinds, Site
    <3> QED
      BY <3>1, OpenAdds
  <2> QED
    BY <1>7, <2>1 DEF Reopen
<1>8. CASE Cgi
  <2>1. /\ Len(fds') = Len(fds) + runs'[Len(runs')].left /\ Len(fds) \in Nat
        /\ Len(runs') = Len(runs) + 1 /\ Len(body') <= Len(runs') /\ Len(runs) \in {0, 1}
        /\ \A i \in 1..Len(runs) : runs'[i] = runs[i]
        /\ \A i \in 1..Len(runs') : runs'[i].left \in {0, 2, 4}
        /\ pc' = (IF Len(runs') = 1 THEN "cgi" ELSE "helper") /\ cgi' = cgi
        /\ header' = header /\ Len(header) = 0
    BY <1>8, CgiLeaves DEF Cgi
  <2>2. CASE Len(runs) = 0
    BY <1>8, <2>1, <2>2 DEF LeftByRuns, Cgi
  <2>3. CASE Len(runs) = 1
    BY <1>8, <2>1, <2>3 DEF LeftByRuns, Cgi
  <2> QED
    BY <2>1, <2>2, <2>3
<1>9. CASE Helper
  BY <1>9, HelperSets DEF Helper, Build200header
<1>10. CASE BuildErrorHeader
  <2>1. LeftByRuns \in Nat /\ LeftByRuns' = LeftByRuns
    BY <1>10, LeftIsNat DEF BuildErrorHeader, LeftByRuns
  <2>2. /\ Len(fds) \in Nat /\ Len(header) \in Nat
        /\ \/ Len(fds') = Len(fds) + 1 /\ Len(header') = Len(header) + 1
           \/ Len(fds') = Len(fds) /\ Len(header') = Len(header)
    <3>1. m_fd' > 0 \/ m_fd' = 0
      BY <1>10, PageDone
    <3> QED
      BY <1>10, <3>1, PageDone
  <2>3. Len(fds') \in Nat /\ Len(header') \in Nat
    BY <1>10, PageDone, LenProperties
  <2>4. /\ pc = "page" /\ pc' \in {"page", "send"}
        /\ runs' = runs /\ body' = body /\ cgi' = cgi
    BY <1>10 DEF BuildErrorHeader
  <2>5. cgi => Len(fds') <= Len(header') + LeftByRuns
    <3>1. cgi => Len(fds) <= Len(header) + LeftByRuns
      OBVIOUS
    <3> HIDE DEF LeftByRuns
    <3> QED
      BY <2>1, <2>2, <2>3, <3>1
  <2>6. Len(runs) \in {0, 2} /\ Len(body) <= Len(runs)
    BY <2>4
  <2> HIDE DEF LeftByRuns
  <2> QED
    BY <2>1, <2>4, <2>5, <2>6
<1>11. CASE Send
  BY <1>11, SendBound DEF Send
<1>12. CASE Close
  BY <1>12 DEF Close
<1>13. CASE CloseSocket
  BY <1>13 DEF CloseSocket
<1> QED
  BY <1>1, <1>2, <1>3, <1>4, <1>5, <1>6, <1>7, <1>8, <1>9, <1>10, <1>11, <1>12, <1>13 DEF Next, Handler

LEMMA NextFilesInv == IInv /\ [Next]_vars => FilesInv'
<1> SUFFICES ASSUME IInv, [Next]_vars PROVE FilesInv'
  OBVIOUS
<1> USE DEF IInv, TypeOK, FlowInv, FilesInv, Got, envVars, fdVars, sendVars
<1>1. CASE UNCHANGED vars
  BY <1>1 DEF vars
<1>2. CASE Edit
  BY <1>2 DEF Edit
<1>3. CASE Reset
  BY <1>3 DEF Reset
<1>4. CASE Stat
  BY <1>4, StatDoes, ResponderAssumption DEF Stat
<1>5. CASE StatIndex
  BY <1>5, StatIndexDoes, ResponderAssumption DEF StatIndex
<1>6. CASE Open
  <2>1. /\ fds' \in Seq(Kinds) /\ Len(fds) \in Nat /\ Len(fds') \in Nat
        /\ \/ /\ Len(fds') = Len(fds) + 1 /\ m_fd' = Len(fds')
              /\ fds'[m_fd'] \in {"file", "exec", "dir"}
           \/ fds' = fds /\ m_fd' = 0
    <3>1. Found \in Kinds \cup {"none"} /\ Found \in {"none", "file", "exec", "dir"} /\ OpenPath(Found)
      BY <1>6, FoundIs DEF Open, Kinds, Site
    <3> QED
      BY <3>1, OpenAdds
  <2> QED
    BY <1>6, <2>1 DEF Open
<1>7. CASE Reopen
  <2>1. /\ fds' \in Seq(Kinds) /\ Len(fds) \in Nat /\ Len(fds') \in Nat
        /\ \/ /\ Len(fds') = Len(fds) + 1 /\ m_fd' = Len(fds')
              /\ fds'[m_fd'] \in {"file", "exec", "dir"}
           \/ fds' = fds /\ m_fd' = 0
    <3>1. Found \in Kinds \cup {"none"} /\ Found \in {"none", "file", "exec", "dir"} /\ OpenPath(Found)
      BY <1>7, FoundIs DEF Reopen, Kinds, Site
    <3> QED
      BY <3>1, OpenAdds
  <2>2. fds'[m_fd'] \notin Pages \/ m_fd' = 0
    BY <2>1, ResponderAssumption DEF PAGE_400, PAGE_404, PAGE_500
  <2>3. /\ m_fd' > 0 => status' = 200 /\ m_fd' = Len(fds') /\ m_fd' \in {1, 2}
        /\ m_fd' = 0 => status' = 500
        /\ m_fd' = 0 \/ m_fd' > 0
    BY <1>7, <2>1 DEF Reopen
  <2> QED
    BY <1>7, <2>1, <2>2, <2>3 DEF Reopen
<1>8. CASE Cgi
  BY <1>8, CgiLeaves DEF Cgi
<1>9. CASE Helper
  BY <1>9, HelperSets DEF Helper, Build200header
<1>10. CASE BuildErrorHeader
  <2>1. /\ Len(todo') = Len(todo) - 1 /\ Len(todo) \in {1, 2} /\ Len(fds) \in Nat
        /\ todo' = <<>> <=> Len(todo') = 0
        /\ \/ /\ Len(fds') = Len(fds) + 1 /\ m_fd' = Len(fds') /\ m_fd' > 0
              /\ fds'[m_fd'] \in Pages /\ fds'[m_fd'] = Head(todo)
              /\ m_file_size' \in {Size, m_file_size}
           \/ fds' = fds /\ m_fd' = 0 /\ m_file_size' = m_file_size
    BY <1>10, PageDone
  <2>2. Size # Uninit
    BY ResponderAssumption
  <2>3. /\ pc' = (IF todo' = <<>> THEN "send" ELSE "page")
        /\ status' = status /\ cgi' = cgi /\ status # 200 /\ pc = "page"
    BY <1>10 DEF BuildErrorHeader
  <2>4. ~cgi => Len(fds) + Len(todo) <= 2 /\ (status = 500 => m_file_size # Uninit)
    BY <1>10 DEF BuildErrorHeader
  <2>5. /\ Len(header) \in Nat /\ \A k \in 1..Len(header) : header'[k] = header[k]
        /\ Len(header') = IF m_fd' > 0 THEN Len(header) + 1 ELSE Len(header)
        /\ m_fd' > 0 => header'[Len(header) + 1].size = m_file_size'
    BY <1>10, PageDone
  <2>6. ASSUME ~cgi, m_file_size' = Uninit, NEW k \in 1..Len(header')
        PROVE  header'[k].size = Uninit
    <3>1. m_file_size = Uninit
      BY <2>1, <2>2, <2>6
    <3>2. CASE k \in 1..Len(header)
      BY <2>5, <2>6, <3>1, <3>2
    <3>3. CASE k \notin 1..Len(header)
      <4>1. m_fd' > 0 /\ k = Len(header) + 1
        BY <2>5, <2>6, <3>3
      <4> QED
        BY <2>5, <2>6, <4>1
    <3> QED
      BY <3>2, <3>3
  <2>7. /\ status = 400 => Head(todo) = PAGE_400
        /\ status = 500 => Head(todo) = PAGE_500
    <3>1. /\ status = 400 => todo = <<PAGE_400>>
          /\ status = 500 => todo = <<PAGE_500>>
      BY <2>3
    <3> QED
      BY <3>1
  <2>8. m_fd' > 0 => Len(header') # 0
    BY <2>5
  <2>9. m_file_size' = Uninit => m_file_size = Uninit
    BY <2>1, <2>2
  <2>10. ASSUME ~cgi, pc' = "page"
         PROVE  Len(fds') + Len(todo') <= 2 /\ (status = 500 => m_file_size' # Uninit)
    BY <2>1, <2>4, <2>9, <2>10
  <2>11. ASSUME ~cgi
         PROVE  /\ m_fd' \in {0} \cup Got'
                /\ Len(fds') <= (IF m_fd' = 0 THEN 1 ELSE 2)
                /\ m_fd' # 0 => fds'[m_fd'] = Head(todo) /\ fds'[m_fd'] \in Pages /\ m_fd' > 0
                /\ status = 500 => m_file_size' # Uninit
    BY <2>1, <2>4, <2>9, <2>11
  <2>12. status \in {400, 404, 500}
    BY <2>3
  <2>13. ASSUME ~cgi
         PROVE  /\ m_fd' # 0 /\ m_file_size' = Uninit => status \in {400, 404} /\ Len(header') # 0
                /\ status = 400 /\ m_fd' # 0 => fds'[m_fd'] = PAGE_400
                /\ status = 404 /\ m_fd' # 0 => fds'[m_fd'] \in Pages
                /\ status = 500 /\ m_fd' # 0 => fds'[m_fd'] = PAGE_500
    BY <2>7, <2>8, <2>11, <2>12, <2>13
  <2>14. ASSUME ~cgi
         PROVE  /\ m_file_size' = Uninit => \A k \in 1..Len(header') : header'[k].size = Uninit
                /\ pc' \in {"send", "page"} /\ cgi' = cgi /\ status' = status /\ status # 200
    BY <2>3, <2>6, <2>14
  <2> HIDE DEF IInv, FilesInv, FlowInv, RunsInv, TypeOK
  <2>15. ASSUME ~cgi, pc' = "page" PROVE FilesInv'
    BY <2>10, <2>14, <2>15 DEF FilesInv
  <2>16. ASSUME ~cgi, pc' = "send" PROVE FilesInv'
    BY <2>11, <2>13, <2>14, <2>16 DEF FilesInv
  <2>17. ASSUME cgi PROVE FilesInv'
    BY <2>3, <2>17 DEF FilesInv
  <2> QED
    BY <2>14, <2>15, <2>16, <2>17
<1>11. CASE Send
  BY <1>11, SendBound DEF Send
<1>12. CASE Close
  BY <1>12 DEF Close
<1>13. CASE CloseSocket
  BY <1>13 DEF CloseSocket
<1> QED
  BY <1>1, <1>2, <1>3, <1>4, <1>5, <1>6, <1>7, <1>8, <1>9, <1>10, <1>11, <1>12, <1>13 DEF Next, Handler

LEMMA Inductive == Spec => []IInv
<1>1. IInv /\ [Next]_vars => IInv'
  BY NextTypeOK, NextFlowInv, NextRunsInv, NextFilesInv DEF IInv
<1> QED
  BY <1>1, InitIInv, PTL DEF Spec

-----------------------------------------------------------------------------
\* What BuildHttpResponse and SendHttpResponse keep has its type at every
\* system call, whichever of them fail.
THEOREM TypeCorrect == Spec => []TypeOK
<1>1. IInv => TypeOK
  BY DEF IInv
<1> QED
  BY <1>1, Inductive, PTL

\* sendfile and close get -1 or a descriptor of this request that is open, and
\* a size nobody has set reaches sendfile only where the stat of each error page
\* that could be opened has failed (protocal.cc:460).
THEOREM DescriptorSafe == Spec => []DescriptorInHand
<1>1. ASSUME IInv PROVE DescriptorInHand
  <2>1. header \in Seq(Announced)
    BY <1>1 DEF IInv, TypeOK, Announced
  <2>2. DOMAIN header = 1..Len(header) /\ (header = <<>> => Len(header) = 0)
    BY <2>1
  <2> QED
    BY <1>1, <2>2 DEF IInv, FlowInv, FilesInv, DescriptorInHand, Left
<1> QED
  BY <1>1, Inductive, PTL

\* The site's page is behind each 200 and behind nothing else, and a 400 and a
\* 500 have no page but their own; a 404 has some error page or none, since the
\* switch replaces its own.
THEOREM RightPage == Spec => []PageMatchesStatus
<1>1. IInv => PageMatchesStatus
  BY DEF IInv, TypeOK, FlowInv, FilesInv, PageMatchesStatus, Left
<1> QED
  BY <1>1, Inductive, PTL

\* How many descriptors a request may leave open.
THEOREM LeaksBounded == Spec => []LeakBound
<1>1. ASSUME IInv PROVE LeakBound
  <2> SUFFICES ASSUME pc = "done"
               PROVE  Cardinality(Left) <= IF ~cgi THEN 1
                                           ELSE IF runs = <<>> THEN Len(header)
                                           ELSE runs[1].left + runs[2].left + Len(header)
    BY DEF LeakBound
  <2>1. Len(fds) \in Nat /\ Len(header) \in Nat /\ Len(runs) \in Nat /\ (runs = <<>> <=> Len(runs) = 0)
    BY <1>1, LenProperties, EmptySeq DEF IInv, TypeOK
  <2>2. IsFiniteSet(Got) /\ Cardinality(Got) = Len(fds)
    <3>1. IsFiniteSet(1..Len(fds)) /\ Cardinality(1..Len(fds)) = IF 1 > Len(fds) THEN 0 ELSE Len(fds) - 1 + 1
      BY <2>1, FS_Interval, 1 \in Int, Len(fds) \in Int
    <3> QED
      BY <2>1, <3>1 DEF Got
  <2>3. CASE ~cgi /\ m_fd # 0
    <3>1. m_fd \in Got /\ Left = Got \ {m_fd} /\ Len(fds) <= 2
      BY <1>1, <2>3 DEF IInv, FlowInv, FilesInv, Left
    <3>2. Cardinality(Left) = Cardinality(Got) - 1
      BY <2>2, <3>1, FS_RemoveElement
    <3> QED
      BY <2>1, <2>2, <2>3, <3>1, <3>2
  <2>4. CASE cgi \/ m_fd = 0
    <3>1. Left = Got
      BY <1>1, <2>4 DEF IInv, FlowInv, Left
    <3>2. CASE ~cgi
      BY <1>1, <2>1, <2>2, <2>4, <3>1, <3>2 DEF IInv, FilesInv
    <3>3. CASE cgi
      <4>1. Len(fds) <= Len(header) + LeftByRuns /\ Len(runs) \in {0, 2} /\ LeftByRuns \in Nat
        BY <1>1, <3>3, LeftIsNat DEF IInv, RunsInv
      <4> QED
        BY <2>1, <2>2, <3>1, <3>3, <4>1 DEF LeftByRuns
    <3> QED
      BY <3>2, <3>3
  <2> QED
    BY <1>1, <2>3, <2>4 DEF IInv, TypeOK
<1> QED
  BY <1>1, Inductive, PTL
=============================================================================
