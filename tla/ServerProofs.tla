---------------------------- MODULE ServerProofs ----------------------------
(***************************************************************************)
(* Proofs about Server, for any clients, threads and limits.               *)
(***************************************************************************)
EXTENDS Server, LeastElement, SequenceTheorems, FiniteSetTheorems, FunctionTheorems, TLAPS

(* The inductive invariant, in parts.                                      *)

\* The kernel holds clients that have connected, each once.
BacklogInv ==
    /\ \A i \in 1..Len(backlog) : state[backlog[i]] = "backlog"
    /\ \A i, j \in 1..Len(backlog) : backlog[i] = backlog[j] => i = j

\* A client that was accepted is in the hands of the pool: in the queue, once,
\* or with one worker.
PoolInv ==
    /\ finished \subseteq submitted
    /\ \A c \in submitted : state[c] = IF c \in finished THEN "done" ELSE "accepted"
    /\ \A w \in Worker : running[w] # NoClient => running[w] \in submitted \ finished
    /\ \A v, w \in Worker : v # w /\ running[w] # NoClient => running[v] # running[w]
    /\ \A i \in 1..Len(queue) :
          queue[i] \in submitted \ finished /\ \A w \in Worker : running[w] # queue[i]
    /\ \A i, j \in 1..Len(queue) : queue[i] = queue[j] => i = j

\* Only an accepted client has a socket, or the one about to be turned away.
SocketInv ==
    \A d \in Descriptor :
        table[d] \in Client =>
            \/ table[d] \in submitted \ finished
            \/ mainpc = "closeClient" /\ idlefd = d /\ state[table[d]] = "refused"

\* The loop knows its reserve, and the socket it is about to close.
IdleInv ==
    idlefd # 0 =>
        /\ mainpc \notin {"accept", "closeClient", "reopen"} => table[idlefd] = "reserve"
        /\ mainpc = "closeClient" =>
              table[idlefd] \in Client /\ state[table[idlefd]] = "refused"

IInv == TypeOK /\ BacklogInv /\ PoolInv /\ SocketInv /\ IdleInv /\ DescriptorsKept

-----------------------------------------------------------------------------
(* The lowest free descriptor.                                             *)

LEMMA LowestIsFree ==
    ASSUME TypeOK, ~Full
    PROVE  Lowest \in Descriptor /\ table[Lowest] = "free"
<1> DEFINE Free == {d \in Descriptor : table[d] = "free"}
<1>1. Free # {} /\ Free \in SUBSET Nat
  BY ServerAssumption DEF Full, Descriptor
<1> HIDE DEF Free
<1>2. PICK n \in Free : \A m \in Free : n <= m
  BY <1>1, LeastNatural
<1>3. n \in Descriptor /\ table[n] = "free"
  BY <1>2 DEF Free
<1>4. \A e \in 1..(n - 1) : table[e] # "free"
  <2> SUFFICES ASSUME NEW e \in 1..(n - 1), table[e] = "free" PROVE FALSE
    OBVIOUS
  <2>1. e \in Descriptor /\ ~(n <= e)
    BY <1>3, ServerAssumption DEF Descriptor
  <2> QED
    BY <2>1, <1>2 DEF Free
<1> QED
  BY <1>3, <1>4 DEF Lowest

\* A prefix of a queue that is taken away, and an element that joins it.
LEMMA TailOf ==
    ASSUME NEW S, NEW q \in Seq(S), q # <<>>
    PROVE  /\ Head(q) = q[1] /\ Head(q) \in S /\ Tail(q) \in Seq(S)
           /\ Len(q) \in Nat /\ 1 <= Len(q) /\ Len(Tail(q)) = Len(q) - 1
           /\ \A i \in 1..Len(Tail(q)) : Tail(q)[i] = q[i + 1] /\ i + 1 \in 1..Len(q)
<1>1. /\ Head(q) \in S /\ Tail(q) \in Seq(S) /\ Len(Tail(q)) = Len(q) - 1
      /\ \A i \in 1..Len(Tail(q)) : Tail(q)[i] = q[i + 1]
      /\ Head(q) = q[1]
  BY HeadTailProperties
<1>2. Len(q) \in Nat /\ Len(q) # 0
  BY LenProperties, EmptySeq
<1> QED
  BY <1>1, <1>2

LEMMA AppendTo ==
    ASSUME NEW S, NEW q \in Seq(S), NEW e \in S
    PROVE  /\ Append(q, e) \in Seq(S) /\ Len(q) \in Nat /\ Len(Append(q, e)) = Len(q) + 1
           /\ \A i \in 1..Len(q) : Append(q, e)[i] = q[i]
           /\ Append(q, e)[Len(q) + 1] = e
BY AppendProperties, LenProperties

-----------------------------------------------------------------------------
LEMMA SocketIsThere ==
    ASSUME IInv, NEW w \in Worker, running[w] # NoClient
    PROVE  /\ SocketOf(running[w]) \in Descriptor
           /\ \A e \in Descriptor : table[e] = running[w] <=> e = SocketOf(running[w])
<1>1. running[w] \in submitted \ finished
  BY DEF IInv, PoolInv
<1>2. PICK d \in Descriptor : \A e \in Descriptor : table[e] = running[w] <=> e = d
  BY <1>1 DEF IInv, DescriptorsKept
<1>3. SocketOf(running[w]) = d
  BY <1>2 DEF SocketOf
<1> QED
  BY <1>2, <1>3

\* A descriptor that is nobody's socket or file may come to stand for
\* anything but a socket or a file.
LEMMA OthersKept ==
    ASSUME DescriptorsKept, TypeOK,
           NEW n \in Descriptor, NEW was, NEW is,
           table[n] = was, table' = [table EXCEPT ![n] = is],
           was \notin submitted \ finished, was # "file", is \notin submitted \ finished,
           UNCHANGED <<submitted, finished, file>>
    PROVE  DescriptorsKept'
<1> USE DEF DescriptorsKept, TypeOK
<1>1. ASSUME NEW c \in submitted \ finished
      PROVE  \E d \in Descriptor : \A e \in Descriptor : table'[e] = c <=> e = d
  <2>1. PICK d \in Descriptor : \A e \in Descriptor : table[e] = c <=> e = d
    OBVIOUS
  <2>2. d # n /\ is # c
    BY <2>1
  <2> QED
    BY <2>1, <2>2
<1>2. ASSUME NEW v \in Worker, file[v] # 0 PROVE file[v] \in Descriptor /\ table'[file[v]] = "file"
  <2>1. file[v] \in Descriptor /\ file[v] # n
    BY <1>2 DEF Descriptor
  <2> QED
    BY <1>2, <2>1
<1> QED
  BY <1>1, <1>2

LEMMA InitIInv == Init => IInv
<1> SUFFICES ASSUME Init PROVE IInv
  OBVIOUS
<1> USE ServerAssumption DEF Init, Pool!Init, Descriptor
<1>1. PICK reserves \in {<<>>, <<"unused", "reserve">>} :
          /\ Len(reserves) <= Limit
          /\ table = [d \in Descriptor |-> IF d \in DOMAIN reserves THEN reserves[d] ELSE "free"]
          /\ idlefd = Len(reserves)
  OBVIOUS
<1>2. \A d \in Descriptor : table[d] \in {"free", "unused", "reserve"}
  BY <1>1
<1>3. idlefd \in {0} \cup Descriptor /\ (idlefd # 0 => table[idlefd] = "reserve")
  <2>1. CASE reserves = <<>>
    BY <1>1, <2>1
  <2>2. CASE reserves = <<"unused", "reserve">>
    <3>1. Len(reserves) = 2 /\ DOMAIN reserves = {1, 2} /\ reserves[2] = "reserve"
      BY <2>2
    <3>2. idlefd = 2 /\ 2 \in Descriptor
      BY <1>1, <3>1
    <3> QED
      BY <1>1, <3>1, <3>2
  <2> QED
    BY <2>1, <2>2
<1>4. backlog \in Seq(Client) /\ queue \in Seq(Client) /\ Len(backlog) = 0 /\ Len(queue) = 0
  BY EmptySeq
<1>5. TypeOK
  BY <1>1, <1>2, <1>3, <1>4 DEF TypeOK
<1>6. BacklogInv /\ PoolInv
  BY <1>4 DEF BacklogInv, PoolInv
<1>7. SocketInv /\ IdleInv /\ DescriptorsKept
  BY <1>2, <1>3 DEF SocketInv, IdleInv, DescriptorsKept
<1> QED
  BY <1>5, <1>6, <1>7 DEF IInv

LEMMA NextTypeOK == IInv /\ [Next]_vars => TypeOK'
<1> SUFFICES ASSUME IInv, [Next]_vars PROVE TypeOK'
  OBVIOUS
<1> USE ServerAssumption DEF IInv, TypeOK, siteVars, mainVars, poolVars, fileVars
<1>1. ASSUME UNCHANGED vars PROVE TypeOK'
  BY <1>1 DEF vars
<1>2. ASSUME Socket PROVE TypeOK'
  BY <1>2, LowestIsFree DEF Socket
<1>3. ASSUME BindListen PROVE TypeOK'
  BY <1>3 DEF BindListen
<1>4. ASSUME Connect PROVE TypeOK'
  BY <1>4, AppendTo, ElementOfSeq DEF Connect
<1>5. ASSUME Accept4 PROVE TypeOK'
  <2>1. /\ Head(backlog) \in Client /\ Tail(backlog) \in Seq(Client)
        /\ Append(queue, Head(backlog)) \in Seq(Client) /\ Lowest \in Descriptor
    <3>1. backlog # <<>> /\ ~Full
      BY <1>5 DEF Accept4, Take
    <3>2. Head(backlog) \in Client /\ Tail(backlog) \in Seq(Client)
      BY <3>1, TailOf
    <3> QED
      BY <3>1, <3>2, LowestIsFree, AppendTo
  <2>2. /\ table' = [table EXCEPT ![Lowest] = Head(backlog)] /\ backlog' = Tail(backlog)
        /\ state' = [state EXCEPT ![Head(backlog)] = "accepted"]
        /\ submitted' = submitted \cup {Head(backlog)} /\ queue' = Append(queue, Head(backlog))
        /\ UNCHANGED <<running, finished, devnull, console, mainpc, idlefd, errno, file, opens, left, stuck>>
    BY <1>5 DEF Accept4, Take, Pool!Submit
  <2> QED
    BY <2>1, <2>2
<1>6. ASSUME Emfile PROVE TypeOK'
  BY <1>6 DEF Emfile
<1>7. ASSUME CloseIdle PROVE TypeOK'
  BY <1>7 DEF CloseIdle, Release
<1>8. ASSUME AcceptIdle PROVE TypeOK'
  <2>1. CASE Take("refused") /\ idlefd' = Lowest
    BY <1>8, <2>1, LowestIsFree, TailOf DEF AcceptIdle, Take
  <2>2. CASE AcceptFails /\ idlefd' = 0 /\ table' = table
    <3>1. errno' \in {"EMFILE", "other"}
      BY <2>2 DEF AcceptFails
    <3>2. CASE UNCHANGED <<backlog, state>>
      BY <1>8, <2>2, <3>1, <3>2 DEF AcceptIdle
    <3>3. CASE Fails("refused")
      <4>1. backlog # <<>> => Head(backlog) \in Client /\ Tail(backlog) \in Seq(Client)
        BY TailOf
      <4>2. backlog' \in Seq(Client)
        BY <3>3, <4>1 DEF Fails
      <4>3. state' \in [Client -> {"new", "backlog", "accepted", "refused", "aborted", "done"}]
        BY <3>3, <4>1 DEF Fails
      <4> QED
        BY <1>8, <2>2, <3>1, <4>2, <4>3 DEF AcceptIdle
    <3> QED
      BY <2>2, <3>2, <3>3 DEF AcceptFails
  <2> QED
    BY <1>8, <2>1, <2>2 DEF AcceptIdle
<1>9. ASSUME CloseClient PROVE TypeOK'
  BY <1>9 DEF CloseClient, Release
<1>10. ASSUME ReopenIdle PROVE TypeOK'
  BY <1>10, LowestIsFree DEF ReopenIdle
<1>11. ASSUME AcceptError PROVE TypeOK'
  <2>1. backlog # <<>> => Head(backlog) \in Client /\ Tail(backlog) \in Seq(Client)
    BY TailOf
  <2>2. backlog' \in Seq(Client)
    BY <1>11, <2>1 DEF AcceptError, Fails
  <2>3. state' \in [Client -> {"new", "backlog", "accepted", "refused", "aborted", "done"}]
    BY <1>11, <2>1 DEF AcceptError, Fails
  <2> QED
    BY <1>11, <2>2, <2>3 DEF AcceptError
<1>12. ASSUME NEW w \in Worker, Dispatch(w) PROVE TypeOK'
  BY <1>12, TailOf DEF Dispatch, Pool!Dispatch
<1>13. ASSUME NEW w \in Worker, OpenFile(w) PROVE TypeOK'
  BY <1>13, LowestIsFree DEF OpenFile, Running
<1>14. ASSUME NEW w \in Worker, CloseFile(w) PROVE TypeOK'
  BY <1>14 DEF CloseFile, Running
<1>15. ASSUME NEW w \in Worker, LeaveFile(w) PROVE TypeOK'
  BY <1>15 DEF LeaveFile, Running
<1>16. ASSUME NEW w \in Worker, Finish(w) PROVE TypeOK'
  <2>1. SocketOf(running[w]) \in Descriptor
    BY <1>16, SocketIsThere DEF Finish, Ended, Running, PoolInv
  <2>2. table' \in [Descriptor -> {"free", "unused", "reserve", "listen", "file", "left"} \cup Client]
    BY <1>16, <2>1 DEF Finish
  <2> QED
    BY <1>16, <2>2 DEF Finish, Ended, Running, Pool!Finish
<1>17. ASSUME NEW w \in Worker, Block(w) PROVE TypeOK'
  BY <1>17 DEF Block
<1> QED
  BY <1>1, <1>2, <1>3, <1>4, <1>5, <1>6, <1>7, <1>8, <1>9, <1>10, <1>11, <1>12, <1>13, <1>14, <1>15, <1>16, <1>17 DEF Next, Loop, Handle

LEMMA ConnectJoins ==
    ASSUME TypeOK, BacklogInv, Connect
    PROVE  BacklogInv'
<1>0. backlog \in Seq(Client) /\ DOMAIN state = Client
  BY DEF TypeOK
<1>1. PICK i \in DOMAIN Arrivals :
          /\ state[Arrivals[i]] = "new"
          /\ state' = [state EXCEPT ![Arrivals[i]] = "backlog"]
          /\ backlog' = Append(backlog, Arrivals[i])
  BY DEF Connect
<1> DEFINE c == Arrivals[i]
<1>2. c \in Client
  BY ServerAssumption, ElementOfSeq, LenProperties
<1>3. state[c] = "new" /\ state' = [state EXCEPT ![c] = "backlog"] /\ backlog' = Append(backlog, c)
  BY <1>1
<1> HIDE DEF c
<1>4. /\ Len(backlog) \in Nat /\ Len(backlog') = Len(backlog) + 1
      /\ \A j \in 1..Len(backlog) : backlog'[j] = backlog[j]
      /\ backlog'[Len(backlog) + 1] = c
  BY <1>0, <1>2, <1>3, AppendTo
<1>5. \A j \in 1..Len(backlog) : backlog[j] \in Client
  BY <1>0, ElementOfSeq
<1>6. \A j \in 1..Len(backlog) : backlog[j] # c /\ state[backlog[j]] = "backlog"
  BY <1>3 DEF BacklogInv
<1>7. \A j \in 1..Len(backlog) : state'[backlog[j]] = "backlog"
  BY <1>0, <1>3, <1>5, <1>6
<1>8. \A j \in 1..Len(backlog') : state'[backlog'[j]] = "backlog"
  <2>1. state'[c] = "backlog"
    BY <1>0, <1>2, <1>3
  <2> QED
    BY <1>4, <1>7, <2>1
<1>9. \A j, k \in 1..Len(backlog') : backlog'[j] = backlog'[k] => j = k
  <2>1. \A j, k \in 1..Len(backlog) : backlog[j] = backlog[k] => j = k
    BY DEF BacklogInv
  <2> QED
    BY <1>4, <1>6, <2>1
<1> QED
  BY <1>8, <1>9 DEF BacklogInv

LEMMA DispatchTakes ==
    ASSUME PoolInv, queue \in Seq(Client), running \in [Worker -> Client \cup {NoClient}],
           NEW w \in Worker, Pool!Dispatch(w), state' = state
    PROVE  PoolInv'
<1>1. /\ queue # <<>> /\ queue' = Tail(queue) /\ running' = [running EXCEPT ![w] = Head(queue)]
      /\ submitted' = submitted /\ finished' = finished
  BY DEF Pool!Dispatch
<1>2. /\ Len(queue) \in Nat /\ 1 \in 1..Len(queue) /\ Head(queue) = queue[1]
      /\ Len(queue') = Len(queue) - 1
      /\ \A i \in 1..Len(queue') : queue'[i] = queue[i + 1] /\ i + 1 \in 1..Len(queue)
  BY <1>1, TailOf
<1>3. \A v \in Worker : running'[v] = IF v = w THEN queue[1] ELSE running[v]
  BY <1>1, <1>2
<1>4. /\ \A i \in 1..Len(queue) : queue[i] \in submitted \ finished
      /\ \A i \in 1..Len(queue) : \A v \in Worker : running[v] # queue[i]
      /\ \A i, j \in 1..Len(queue) : queue[i] = queue[j] => i = j
  BY DEF PoolInv
<1>5. \A v \in Worker : running'[v] # NoClient => running'[v] \in submitted \ finished
  BY <1>2, <1>3, <1>4 DEF PoolInv
<1>6. \A u, v \in Worker : u # v /\ running'[u] # NoClient => running'[u] # running'[v]
  <2>1. \A u, v \in Worker : u # v /\ running[u] # NoClient => running[u] # running[v]
    BY DEF PoolInv
  <2> QED
    BY <1>2, <1>3, <1>4, <2>1
<1>7. \A i \in 1..Len(queue') : queue'[i] # queue[1] /\ queue'[i] \in submitted \ finished
  BY <1>2, <1>4
<1>8. \A i \in 1..Len(queue') : \A v \in Worker : running'[v] # queue'[i]
  BY <1>2, <1>3, <1>4, <1>7
<1>9. ASSUME NEW i \in 1..Len(queue'), NEW j \in 1..Len(queue'), queue'[i] = queue'[j]
      PROVE  i = j
  <2>1. i + 1 \in 1..Len(queue) /\ j + 1 \in 1..Len(queue) /\ queue[i + 1] = queue[j + 1]
    BY <1>2, <1>9
  <2>2. i + 1 = j + 1
    BY <1>4, <2>1
  <2> QED
    BY <1>2, <2>2
<1> QED
  BY <1>1, <1>5, <1>6, <1>7, <1>8, <1>9 DEF PoolInv

\* A failing accept may take the oldest away.
LEMMA FailsLeaves ==
    ASSUME TypeOK, BacklogInv, NEW stage, Fails(stage)
    PROVE  BacklogInv'
<1>1. CASE UNCHANGED <<backlog, state>>
  BY <1>1 DEF BacklogInv
<1>2. CASE backlog # <<>> /\ backlog' = Tail(backlog) /\ state' = [state EXCEPT ![Head(backlog)] = stage]
  <2>1. backlog \in Seq(Client) /\ DOMAIN state = Client
    BY DEF TypeOK
  <2> QED
    BY <1>2, <2>1, TailOf DEF BacklogInv
<1> QED
  BY <1>1, <1>2 DEF Fails

\* A client connects once, and the oldest leaves.
LEMMA NextBacklogInv == IInv /\ [Next]_vars => BacklogInv'
<1> SUFFICES ASSUME IInv, [Next]_vars PROVE BacklogInv'
  OBVIOUS
<1> USE ServerAssumption DEF IInv, TypeOK, BacklogInv, PoolInv, siteVars, mainVars, poolVars, fileVars
<1>1. ASSUME UNCHANGED vars PROVE BacklogInv'
  BY <1>1 DEF vars
<1>2. ASSUME Socket PROVE BacklogInv'
  BY <1>2 DEF Socket
<1>3. ASSUME BindListen PROVE BacklogInv'
  BY <1>3 DEF BindListen
<1>4. ASSUME Connect PROVE BacklogInv'
  BY <1>4, ConnectJoins
<1>5. ASSUME Accept4 PROVE BacklogInv'
  BY <1>5, TailOf DEF Accept4, Take, Pool!Submit
<1>6. ASSUME Emfile PROVE BacklogInv'
  BY <1>6 DEF Emfile
<1>7. ASSUME CloseIdle PROVE BacklogInv'
  BY <1>7 DEF CloseIdle, Release
<1>8. ASSUME AcceptIdle PROVE BacklogInv'
  <2>1. CASE Take("refused") /\ idlefd' = Lowest
    BY <1>8, <2>1, TailOf DEF AcceptIdle, Take
  <2>2. CASE AcceptFails /\ idlefd' = 0 /\ table' = table
    <3>1. CASE Full /\ UNCHANGED <<backlog, state>>
      BY <1>8, <2>2, <3>1 DEF AcceptIdle
    <3>2. CASE Fails("refused")
      BY <3>2, FailsLeaves
    <3> QED
      BY <2>2, <3>1, <3>2 DEF AcceptFails
  <2> QED
    BY <1>8, <2>1, <2>2 DEF AcceptIdle
<1>9. ASSUME CloseClient PROVE BacklogInv'
  BY <1>9 DEF CloseClient, Release
<1>10. ASSUME ReopenIdle PROVE BacklogInv'
  BY <1>10 DEF ReopenIdle
<1>11. ASSUME AcceptError PROVE BacklogInv'
  BY <1>11, FailsLeaves DEF AcceptError
<1>12. ASSUME NEW w \in Worker, Dispatch(w) PROVE BacklogInv'
  BY <1>12 DEF Dispatch, Pool!Dispatch
<1>13. ASSUME NEW w \in Worker, OpenFile(w) PROVE BacklogInv'
  BY <1>13 DEF OpenFile, Running
<1>14. ASSUME NEW w \in Worker, CloseFile(w) PROVE BacklogInv'
  BY <1>14 DEF CloseFile, Running
<1>15. ASSUME NEW w \in Worker, LeaveFile(w) PROVE BacklogInv'
  BY <1>15 DEF LeaveFile, Running
<1>16. ASSUME NEW w \in Worker, Finish(w) PROVE BacklogInv'
  BY <1>16 DEF Finish, Ended, Running, Pool!Finish
<1>17. ASSUME NEW w \in Worker, Block(w) PROVE BacklogInv'
  BY <1>17 DEF Block
<1> QED
  BY <1>1, <1>2, <1>3, <1>4, <1>5, <1>6, <1>7, <1>8, <1>9, <1>10, <1>11, <1>12, <1>13, <1>14, <1>15, <1>16, <1>17 DEF Next, Loop, Handle

\* The pool is given what was accepted, and gives each to one worker.
LEMMA NextPoolInv == IInv /\ [Next]_vars => PoolInv'
<1> SUFFICES ASSUME IInv, [Next]_vars PROVE PoolInv'
  OBVIOUS
<1> USE ServerAssumption DEF IInv, TypeOK, BacklogInv, PoolInv, siteVars, mainVars, poolVars, fileVars
<1>1. ASSUME UNCHANGED vars PROVE PoolInv'
  BY <1>1 DEF vars
<1>2. ASSUME Socket PROVE PoolInv'
  BY <1>2 DEF Socket
<1>3. ASSUME BindListen PROVE PoolInv'
  BY <1>3 DEF BindListen
<1>4. ASSUME Connect PROVE PoolInv'
  BY <1>4, ElementOfSeq DEF Connect
<1>5. ASSUME Accept4 PROVE PoolInv'
  <2> DEFINE c == Head(backlog)
  <2>1. /\ c \in Client /\ state[c] = "backlog"
        /\ state' = [state EXCEPT ![c] = "accepted"]
    BY <1>5, TailOf DEF Accept4, Take
  <2>2. /\ queue' = Append(queue, c) /\ submitted' = submitted \cup {c}
        /\ UNCHANGED <<running, finished>>
    BY <1>5 DEF Accept4, Pool!Submit
  <2> HIDE DEF c
  <2>3. c \notin submitted
    BY <2>1
  <2>4. /\ Len(queue) \in Nat /\ Len(queue') = Len(queue) + 1
        /\ \A i \in 1..Len(queue) : queue'[i] = queue[i]
        /\ queue'[Len(queue) + 1] = c
    BY <2>1, <2>2, AppendTo
  <2>5. /\ \A b \in submitted' : state'[b] = IF b \in finished' THEN "done" ELSE "accepted"
        /\ finished' \subseteq submitted'
    BY <2>1, <2>2, <2>3
  <2>6. \A w \in Worker : running[w] # c
    BY <2>1, <2>3
  <2>7. ASSUME NEW i \in 1..Len(queue')
        PROVE  queue'[i] \in submitted' \ finished' /\ \A w \in Worker : running'[w] # queue'[i]
    <3>1. CASE i \in 1..Len(queue)
      <4>1. queue'[i] = queue[i]
        BY <2>4, <3>1
      <4>2. queue[i] \in submitted \ finished /\ \A w \in Worker : running[w] # queue[i]
        BY <3>1
      <4> QED
        BY <2>2, <4>1, <4>2
    <3>2. CASE i = Len(queue) + 1
      <4>1. queue'[i] = c
        BY <2>4, <3>2
      <4>2. c \notin finished
        BY <2>3
      <4> QED
        BY <2>2, <2>6, <4>1, <4>2
    <3> QED
      BY <2>4, <3>1, <3>2
  <2>8. \A i, j \in 1..Len(queue') : queue'[i] = queue'[j] => i = j
    <3>1. \A i \in 1..Len(queue) : queue'[i] = queue[i] /\ queue'[i] # c
      <4>1. \A i \in 1..Len(queue) : queue[i] \in submitted
        OBVIOUS
      <4> QED
        BY <2>3, <2>4, <4>1
    <3>2. \A i, j \in 1..Len(queue) : queue[i] = queue[j] => i = j
      OBVIOUS
    <3> HIDE DEF IInv, TypeOK, BacklogInv, PoolInv
    <3>3. \A i \in 1..Len(queue') : i \in 1..Len(queue) \/ i = Len(queue) + 1
      BY <2>4
    <3> QED
      BY <2>4, <3>1, <3>2, <3>3
  <2>9. /\ \A w \in Worker : running'[w] # NoClient => running'[w] \in submitted' \ finished'
        /\ \A v, w \in Worker : v # w /\ running'[w] # NoClient => running'[v] # running'[w]
    BY <2>2, <2>3
  <2> HIDE DEF IInv, TypeOK, BacklogInv
  <2> QED
    BY <2>5, <2>7, <2>8, <2>9 DEF PoolInv
<1>6. ASSUME Emfile PROVE PoolInv'
  BY <1>6 DEF Emfile
<1>7. ASSUME CloseIdle PROVE PoolInv'
  BY <1>7 DEF CloseIdle, Release
<1>8. ASSUME AcceptIdle PROVE PoolInv'
  BY <1>8, TailOf DEF AcceptIdle, Take, AcceptFails, Fails
<1>9. ASSUME CloseClient PROVE PoolInv'
  BY <1>9 DEF CloseClient, Release
<1>10. ASSUME ReopenIdle PROVE PoolInv'
  BY <1>10 DEF ReopenIdle
<1>11. ASSUME AcceptError PROVE PoolInv'
  BY <1>11, TailOf DEF AcceptError, Fails
<1>12. ASSUME NEW w \in Worker, Dispatch(w) PROVE PoolInv'
  BY <1>12, DispatchTakes DEF Dispatch
<1>13. ASSUME NEW w \in Worker, OpenFile(w) PROVE PoolInv'
  BY <1>13 DEF OpenFile, Running
<1>14. ASSUME NEW w \in Worker, CloseFile(w) PROVE PoolInv'
  BY <1>14 DEF CloseFile, Running
<1>15. ASSUME NEW w \in Worker, LeaveFile(w) PROVE PoolInv'
  BY <1>15 DEF LeaveFile, Running
<1>16. ASSUME NEW w \in Worker, Finish(w) PROVE PoolInv'
  BY <1>16 DEF Finish, Ended, Running, Pool!Finish
<1>17. ASSUME NEW w \in Worker, Block(w) PROVE PoolInv'
  BY <1>17 DEF Block
<1> QED
  BY <1>1, <1>2, <1>3, <1>4, <1>5, <1>6, <1>7, <1>8, <1>9, <1>10, <1>11, <1>12, <1>13, <1>14, <1>15, <1>16, <1>17 DEF Next, Loop, Handle

LEMMA NextSocketInv == IInv /\ [Next]_vars => SocketInv'
<1> SUFFICES ASSUME IInv, [Next]_vars PROVE SocketInv'
  OBVIOUS
<1> USE ServerAssumption DEF IInv, TypeOK, PoolInv, SocketInv, IdleInv, siteVars, mainVars, poolVars, fileVars
<1>1. ASSUME UNCHANGED vars PROVE SocketInv'
  BY <1>1 DEF vars
<1>2. ASSUME Socket PROVE SocketInv'
  BY <1>2, LowestIsFree DEF Socket
<1>3. ASSUME BindListen PROVE SocketInv'
  BY <1>3 DEF BindListen
<1>4. ASSUME Connect PROVE SocketInv'
  BY <1>4 DEF Connect
<1>5. ASSUME Accept4 PROVE SocketInv'
  BY <1>5, LowestIsFree, TailOf DEF Accept4, Take, Pool!Submit
<1>6. ASSUME Emfile PROVE SocketInv'
  BY <1>6 DEF Emfile
<1>7. ASSUME CloseIdle PROVE SocketInv'
  BY <1>7 DEF CloseIdle, Release
<1>8. ASSUME AcceptIdle PROVE SocketInv'
  <2>1. /\ mainpc = "accept" /\ mainpc' = "closeClient"
        /\ UNCHANGED <<submitted, finished>>
        /\ \A d \in Descriptor : table[d] \in Client => table[d] \in submitted \ finished
    BY <1>8 DEF AcceptIdle
  <2>2. CASE Take("refused") /\ idlefd' = Lowest
    <3>1. Head(backlog) \in Client /\ Lowest \in Descriptor
      BY <2>2, LowestIsFree, TailOf DEF Take
    <3>2. state'[Head(backlog)] = "refused" /\ table' = [table EXCEPT ![Lowest] = Head(backlog)]
      BY <2>2, <3>1 DEF Take
    <3> QED
      BY <2>1, <2>2, <3>1, <3>2
  <2>3. CASE AcceptFails /\ table' = table
    BY <2>1, <2>3
  <2> QED
    BY <1>8, <2>2, <2>3 DEF AcceptIdle
<1>9. ASSUME CloseClient PROVE SocketInv'
  <2> SUFFICES ASSUME NEW d \in Descriptor, table'[d] \in Client
               PROVE  table'[d] \in submitted' \ finished'
    OBVIOUS
  <2>1. "free" \notin Client
    OBVIOUS
  <2>2. table'[d] = table[d] /\ d # idlefd
    BY <1>9, <2>1 DEF CloseClient, Release, Descriptor
  <2> QED
    BY <1>9, <2>2 DEF CloseClient
<1>10. ASSUME ReopenIdle PROVE SocketInv'
  <2> SUFFICES ASSUME NEW d \in Descriptor, table'[d] \in Client
               PROVE  table'[d] \in submitted' \ finished'
    OBVIOUS
  <2>1. "reserve" \notin Client
    OBVIOUS
  <2>2. table'[d] = table[d]
    BY <1>10, <2>1, LowestIsFree DEF ReopenIdle
  <2> QED
    BY <1>10, <2>2 DEF ReopenIdle
<1>11. ASSUME AcceptError PROVE SocketInv'
  BY <1>11, TailOf DEF AcceptError, Fails
<1>12. ASSUME NEW w \in Worker, Dispatch(w) PROVE SocketInv'
  BY <1>12, TailOf DEF Dispatch, Pool!Dispatch
<1>13. ASSUME NEW w \in Worker, OpenFile(w) PROVE SocketInv'
  BY <1>13, LowestIsFree DEF OpenFile, Running
<1>14. ASSUME NEW w \in Worker, CloseFile(w) PROVE SocketInv'
  BY <1>14 DEF CloseFile, Running
<1>15. ASSUME NEW w \in Worker, LeaveFile(w) PROVE SocketInv'
  BY <1>15 DEF LeaveFile, Running
<1>16. ASSUME NEW w \in Worker, Finish(w) PROVE SocketInv'
  <2>1. PICK s \in Descriptor : s = SocketOf(running[w]) /\ \A e \in Descriptor : table[e] = running[w] <=> e = s
    BY <1>16, SocketIsThere DEF Finish, Ended, Running
  <2> SUFFICES ASSUME NEW d \in Descriptor, table'[d] \in Client
               PROVE  \/ table'[d] \in submitted' \ finished'
                      \/ mainpc' = "closeClient" /\ idlefd' = d /\ state'[table'[d]] = "refused"
    OBVIOUS
  <2>2. "free" \notin Client
    OBVIOUS
  <2>3. d # s /\ table'[d] = table[d] /\ table[d] # running[w]
    BY <1>16, <2>1, <2>2 DEF Finish
  <2> QED
    BY <1>16, <2>3 DEF Finish, Ended, Running, Pool!Finish
<1>17. ASSUME NEW w \in Worker, Block(w) PROVE SocketInv'
  BY <1>17 DEF Block
<1> QED
  BY <1>1, <1>2, <1>3, <1>4, <1>5, <1>6, <1>7, <1>8, <1>9, <1>10, <1>11, <1>12, <1>13, <1>14, <1>15, <1>16, <1>17 DEF Next, Loop, Handle

LEMMA NextIdleInv == IInv /\ [Next]_vars => IdleInv'
<1> SUFFICES ASSUME IInv, [Next]_vars PROVE IdleInv'
  OBVIOUS
<1> USE ServerAssumption DEF IInv, TypeOK, PoolInv, SocketInv, IdleInv, DescriptorsKept, siteVars, mainVars, poolVars, fileVars
<1>1. ASSUME UNCHANGED vars PROVE IdleInv'
  BY <1>1 DEF vars
<1>2. ASSUME Socket PROVE IdleInv'
  BY <1>2, LowestIsFree DEF Socket
<1>3. ASSUME BindListen PROVE IdleInv'
  BY <1>3 DEF BindListen
<1>4. ASSUME Connect PROVE IdleInv'
  BY <1>4 DEF Connect
<1>5. ASSUME Accept4 PROVE IdleInv'
  BY <1>5, LowestIsFree, TailOf DEF Accept4, Take, Pool!Submit
<1>6. ASSUME Emfile PROVE IdleInv'
  BY <1>6 DEF Emfile
<1>7. ASSUME CloseIdle PROVE IdleInv'
  BY <1>7 DEF CloseIdle, Release
<1>8. ASSUME AcceptIdle PROVE IdleInv'
  BY <1>8, LowestIsFree, TailOf DEF AcceptIdle, Take, AcceptFails, Fails
<1>9. ASSUME CloseClient PROVE IdleInv'
  BY <1>9 DEF CloseClient, Release
<1>10. ASSUME ReopenIdle PROVE IdleInv'
  BY <1>10, LowestIsFree DEF ReopenIdle
<1>11. ASSUME AcceptError PROVE IdleInv'
  BY <1>11, TailOf DEF AcceptError, Fails
<1>12. ASSUME NEW w \in Worker, Dispatch(w) PROVE IdleInv'
  BY <1>12, TailOf DEF Dispatch, Pool!Dispatch
<1>13. ASSUME NEW w \in Worker, OpenFile(w) PROVE IdleInv'
  BY <1>13, LowestIsFree DEF OpenFile, Running
<1>14. ASSUME NEW w \in Worker, CloseFile(w) PROVE IdleInv'
  BY <1>14 DEF CloseFile, Running
<1>15. ASSUME NEW w \in Worker, LeaveFile(w) PROVE IdleInv'
  BY <1>15 DEF LeaveFile, Running
<1>16. ASSUME NEW w \in Worker, Finish(w) PROVE IdleInv'
  <2>1. PICK s \in Descriptor : s = SocketOf(running[w]) /\ \A e \in Descriptor : table[e] = running[w] <=> e = s
    BY <1>16, SocketIsThere DEF Finish, Ended, Running
  <2>2. running[w] \in Client /\ state[running[w]] = "accepted"
    BY <1>16 DEF Finish, Ended, Running
  <2>3. idlefd' = idlefd /\ mainpc' = mainpc
    BY <1>16 DEF Finish, Ended
  <2>4. ASSUME idlefd # 0, mainpc \notin {"accept", "reopen"} PROVE idlefd # s
    BY <2>1, <2>2, <2>4
  <2>5. ASSUME idlefd # 0, mainpc \notin {"accept", "reopen"}
        PROVE  table'[idlefd] = table[idlefd]
    BY <1>16, <2>1, <2>4, <2>5 DEF Finish
  <2>6. \A c \in Client : state[c] = "refused" => state'[c] = "refused"
    BY <1>16, <2>2 DEF Finish, Ended
  <2> QED
    BY <2>3, <2>5, <2>6
<1>17. ASSUME NEW w \in Worker, Block(w) PROVE IdleInv'
  BY <1>17 DEF Block
<1> QED
  BY <1>1, <1>2, <1>3, <1>4, <1>5, <1>6, <1>7, <1>8, <1>9, <1>10, <1>11, <1>12, <1>13, <1>14, <1>15, <1>16, <1>17 DEF Next, Loop, Handle

LEMMA NextDescriptorsKept == IInv /\ [Next]_vars => DescriptorsKept'
<1> SUFFICES ASSUME IInv, [Next]_vars PROVE DescriptorsKept'
  OBVIOUS
<1> USE ServerAssumption DEF IInv, TypeOK, BacklogInv, PoolInv, SocketInv, IdleInv, DescriptorsKept, siteVars, mainVars, poolVars, fileVars
<1>1. ASSUME UNCHANGED vars PROVE DescriptorsKept'
  BY <1>1 DEF vars
<1>2. ASSUME Socket PROVE DescriptorsKept'
  <2>2. "free" \notin Client /\ "listen" \notin Client
    OBVIOUS
  <2>3. UNCHANGED <<submitted, finished, file>>
    BY <1>2 DEF Socket
  <2>4. CASE ~Full /\ table' = [table EXCEPT ![Lowest] = "listen"]
    <3>1. Lowest \in Descriptor /\ table[Lowest] = "free"
      BY <2>4, LowestIsFree
    <3> QED
      BY <2>2, <2>3, <2>4, <3>1, OthersKept
  <2>5. CASE table' = table
    BY <2>3, <2>5
  <2> QED
    BY <1>2, <2>4, <2>5 DEF Socket
<1>3. ASSUME BindListen PROVE DescriptorsKept'
  BY <1>3 DEF BindListen
<1>4. ASSUME Connect PROVE DescriptorsKept'
  BY <1>4 DEF Connect
<1>5. ASSUME Accept4 PROVE DescriptorsKept'
  <2> DEFINE h == Head(backlog)
  <2>1. /\ h \in Client \ submitted /\ state[h] = "backlog"
        /\ submitted' = submitted \cup {h} /\ UNCHANGED <<finished, file>>
    BY <1>5, TailOf DEF Accept4, Take, Pool!Submit
  <2>2. Lowest \in Descriptor /\ table[Lowest] = "free"
    BY <1>5, LowestIsFree DEF Accept4, Take
  <2>3. table' = [table EXCEPT ![Lowest] = h]
    BY <1>5 DEF Accept4, Take
  <2>4. "free" \notin Client /\ "file" \notin Client
    OBVIOUS
  <2>5. \A d \in Descriptor : table[d] # h
    BY <1>5, <2>1 DEF Accept4
  <2> HIDE DEF h
  <2>6. ASSUME NEW c \in submitted' \ finished'
        PROVE  \E d \in Descriptor : \A e \in Descriptor : table'[e] = c <=> e = d
    <3>1. CASE c = h
      BY <2>2, <2>3, <2>5, <3>1
    <3>2. CASE c # h
      <4>1. c \in submitted \ finished
        BY <2>1, <3>2
      <4>2. PICK d \in Descriptor : \A e \in Descriptor : table[e] = c <=> e = d
        BY <4>1
      <4>3. d # Lowest
        BY <2>2, <2>4, <4>1, <4>2
      <4> QED
        BY <2>2, <2>3, <3>2, <4>2, <4>3
    <3> QED
      BY <3>1, <3>2
  <2>7. ASSUME NEW v \in Worker, file[v] # 0 PROVE table'[file[v]] = "file"
    BY <2>2, <2>3, <2>7
  <2> QED
    BY <2>1, <2>6, <2>7
<1>6. ASSUME Emfile PROVE DescriptorsKept'
  BY <1>6 DEF Emfile
<1>7. ASSUME CloseIdle PROVE DescriptorsKept'
  <2>1. UNCHANGED <<submitted, finished, file>>
    BY <1>7 DEF CloseIdle
  <2>2. CASE idlefd = 0
    BY <1>7, <2>1, <2>2 DEF CloseIdle, Release
  <2>3. CASE idlefd # 0
    <3>1. idlefd \in Descriptor /\ table[idlefd] = "reserve"
      BY <1>7, <2>3 DEF CloseIdle
    <3>2. "free" \notin Client /\ "reserve" \notin Client
      OBVIOUS
    <3>3. table' = [table EXCEPT ![idlefd] = "free"]
      BY <1>7, <2>3 DEF CloseIdle, Release
    <3> QED
      BY <2>1, <3>1, <3>2, <3>3, OthersKept
  <2> QED
    BY <2>2, <2>3
<1>8. ASSUME AcceptIdle PROVE DescriptorsKept'
  <2>1. UNCHANGED <<submitted, finished, file>>
    BY <1>8 DEF AcceptIdle
  <2>2. CASE table' = table
    BY <2>1, <2>2
  <2>3. CASE Take("refused")
    <3>1. Lowest \in Descriptor /\ table[Lowest] = "free"
      BY <2>3, LowestIsFree DEF Take
    <3>2. "free" \notin Client
      OBVIOUS
    <3>3. Head(backlog) \notin submitted
      BY <2>3, TailOf DEF Take
    <3>4. table' = [table EXCEPT ![Lowest] = Head(backlog)]
      BY <2>3 DEF Take
    <3> QED
      BY <2>1, <3>1, <3>2, <3>3, <3>4, OthersKept
  <2> QED
    BY <1>8, <2>2, <2>3 DEF AcceptIdle, AcceptFails
<1>9. ASSUME CloseClient PROVE DescriptorsKept'
  <2>1. UNCHANGED <<submitted, finished, file>>
    BY <1>9 DEF CloseClient
  <2>2. CASE idlefd = 0
    BY <1>9, <2>1, <2>2 DEF CloseClient, Release
  <2>3. CASE idlefd # 0
    <3>1. idlefd \in Descriptor /\ table[idlefd] \in Client /\ state[table[idlefd]] = "refused"
      BY <1>9, <2>3 DEF CloseClient
    <3>2. "free" \notin Client /\ "file" \notin Client
      OBVIOUS
    <3>3. table[idlefd] \notin submitted \ finished /\ table[idlefd] # "file"
      BY <3>1, <3>2
    <3>4. table' = [table EXCEPT ![idlefd] = "free"]
      BY <1>9, <2>3 DEF CloseClient, Release
    <3>5. "free" \notin submitted \ finished
      BY <3>2
    <3> HIDE DEF DescriptorsKept, TypeOK, PoolInv, SocketInv, IdleInv, BacklogInv
    <3> QED
      BY <2>1, <3>1, <3>3, <3>4, <3>5, OthersKept DEF IInv
  <2> QED
    BY <2>2, <2>3
<1>10. ASSUME ReopenIdle PROVE DescriptorsKept'
  <2>1. UNCHANGED <<submitted, finished, file>>
    BY <1>10 DEF ReopenIdle
  <2>2. CASE table' = table
    BY <2>1, <2>2
  <2>3. CASE ~Full /\ table' = [table EXCEPT ![Lowest] = "reserve"]
    <3>1. Lowest \in Descriptor /\ table[Lowest] = "free"
      BY <2>3, LowestIsFree
    <3>2. "free" \notin Client /\ "reserve" \notin Client
      OBVIOUS
    <3> QED
      BY <2>1, <2>3, <3>1, <3>2, OthersKept
  <2> QED
    BY <1>10, <2>2, <2>3 DEF ReopenIdle
<1>11. ASSUME AcceptError PROVE DescriptorsKept'
  BY <1>11 DEF AcceptError, Fails
<1>12. ASSUME NEW w \in Worker, Dispatch(w) PROVE DescriptorsKept'
  BY <1>12, TailOf DEF Dispatch, Pool!Dispatch
<1>13. ASSUME NEW w \in Worker, OpenFile(w) PROVE DescriptorsKept'
  <2>1. Lowest \in Descriptor /\ table[Lowest] = "free"
    BY <1>13, LowestIsFree DEF OpenFile
  <2>2. /\ table' = [table EXCEPT ![Lowest] = "file"] /\ file' = [file EXCEPT ![w] = Lowest]
        /\ UNCHANGED <<submitted, finished>>
    BY <1>13 DEF OpenFile
  <2>3. "free" \notin Client /\ "file" \notin Client
    OBVIOUS
  <2>4. ASSUME NEW c \in submitted' \ finished'
        PROVE  \E d \in Descriptor : \A e \in Descriptor : table'[e] = c <=> e = d
    <3>1. PICK d \in Descriptor : \A e \in Descriptor : table[e] = c <=> e = d
      BY <2>2
    <3>2. d # Lowest /\ c # "file"
      BY <2>1, <2>2, <2>3, <3>1
    <3>3. ASSUME NEW e \in Descriptor PROVE table'[e] = c <=> e = d
      BY <2>1, <2>2, <3>1, <3>2
    <3> QED
      BY <3>3
  <2>5. ASSUME NEW v \in Worker, file'[v] # 0 PROVE table'[file'[v]] = "file"
    BY <2>1, <2>2, <2>5
  <2>6. ASSUME NEW v \in Worker, v # w, file[v] # 0 PROVE file[v] # Lowest
    BY <2>1, <2>6
  <2>7. ASSUME NEW u \in Worker, NEW v \in Worker, u # v, file'[v] # 0 PROVE file'[v] # file'[u]
    <3>1. CASE v = w
      BY <2>1, <2>2, <2>6, <2>7, <3>1 DEF Descriptor
    <3>2. CASE v # w
      BY <2>2, <2>6, <2>7, <3>2
    <3> QED
      BY <3>1, <3>2
  <2> QED
    BY <2>4, <2>5, <2>7
<1>14. ASSUME NEW w \in Worker, CloseFile(w) PROVE DescriptorsKept'
  <2>1. file[w] \in Descriptor /\ table[file[w]] = "file"
    BY <1>14 DEF CloseFile
  <2>2. /\ table' = [table EXCEPT ![file[w]] = "free"] /\ file' = [file EXCEPT ![w] = 0]
        /\ UNCHANGED <<submitted, finished>>
    BY <1>14 DEF CloseFile
  <2>3. "free" \notin Client /\ "file" \notin Client
    OBVIOUS
  <2>4. ASSUME NEW c \in submitted' \ finished'
        PROVE  \E d \in Descriptor : \A e \in Descriptor : table'[e] = c <=> e = d
    <3>1. PICK d \in Descriptor : \A e \in Descriptor : table[e] = c <=> e = d
      BY <2>2
    <3>2. d # file[w] /\ c # "free"
      BY <2>1, <2>2, <2>3, <3>1
    <3>3. ASSUME NEW e \in Descriptor PROVE table'[e] = c <=> e = d
      BY <2>1, <2>2, <3>1, <3>2
    <3> QED
      BY <3>3
  <2>5. ASSUME NEW v \in Worker, file'[v] # 0 PROVE table'[file'[v]] = "file"
    BY <2>1, <2>2, <2>5
  <2>6. ASSUME NEW u \in Worker, NEW v \in Worker, u # v, file'[v] # 0 PROVE file'[v] # file'[u]
    BY <2>2, <2>6
  <2> QED
    BY <2>4, <2>5, <2>6
<1>15. ASSUME NEW w \in Worker, LeaveFile(w) PROVE DescriptorsKept'
  <2>1. file[w] \in Descriptor /\ table[file[w]] = "file"
    BY <1>15 DEF LeaveFile
  <2>2. /\ table' = [table EXCEPT ![file[w]] = "left"] /\ file' = [file EXCEPT ![w] = 0]
        /\ UNCHANGED <<submitted, finished>>
    BY <1>15 DEF LeaveFile
  <2>3. "left" \notin Client /\ "file" \notin Client
    OBVIOUS
  <2>4. ASSUME NEW c \in submitted' \ finished'
        PROVE  \E d \in Descriptor : \A e \in Descriptor : table'[e] = c <=> e = d
    <3>1. PICK d \in Descriptor : \A e \in Descriptor : table[e] = c <=> e = d
      BY <2>2
    <3>2. d # file[w] /\ c # "left"
      BY <2>1, <2>2, <2>3, <3>1
    <3>3. ASSUME NEW e \in Descriptor PROVE table'[e] = c <=> e = d
      BY <2>1, <2>2, <3>1, <3>2
    <3> QED
      BY <3>3
  <2>5. ASSUME NEW v \in Worker, file'[v] # 0 PROVE table'[file'[v]] = "file"
    BY <2>1, <2>2, <2>5
  <2>6. ASSUME NEW u \in Worker, NEW v \in Worker, u # v, file'[v] # 0 PROVE file'[v] # file'[u]
    BY <2>2, <2>6
  <2> QED
    BY <2>4, <2>5, <2>6
<1>16. ASSUME NEW w \in Worker, Finish(w) PROVE DescriptorsKept'
  <2>1. PICK s \in Descriptor : s = SocketOf(running[w]) /\ \A e \in Descriptor : table[e] = running[w] <=> e = s
    BY <1>16, SocketIsThere DEF Finish, Ended, Running
  <2>2. /\ table' = [table EXCEPT ![s] = "free"]
        /\ submitted' = submitted /\ finished' = finished \cup {running[w]} /\ file' = file
    BY <1>16, <2>1 DEF Finish, Ended, Pool!Finish
  <2>3. "free" \notin Client /\ "file" \notin Client /\ running[w] \in Client
    BY <1>16 DEF Finish, Ended, Running
  <2>4. ASSUME NEW c \in submitted' \ finished'
        PROVE  \E d \in Descriptor : \A e \in Descriptor : table'[e] = c <=> e = d
    <3>1. c \in submitted \ finished /\ c # running[w]
      BY <2>2
    <3>2. PICK d \in Descriptor : \A e \in Descriptor : table[e] = c <=> e = d
      BY <3>1
    <3>3. d # s /\ c # "free"
      BY <2>1, <2>3, <3>1, <3>2
    <3>4. \A e \in Descriptor : table'[e] = IF e = s THEN "free" ELSE table[e]
      BY <2>2
    <3>5. \A e \in Descriptor : table'[e] = c <=> e = d
      BY <3>2, <3>3, <3>4
    <3> QED
      BY <3>5
  <2>5. ASSUME NEW v \in Worker, file[v] # 0 PROVE table'[file[v]] = "file"
    BY <2>1, <2>2, <2>3, <2>5
  <2> QED
    BY <2>2, <2>4, <2>5
<1>17. ASSUME NEW w \in Worker, Block(w) PROVE DescriptorsKept'
  BY <1>17 DEF Block
<1> QED
  BY <1>1, <1>2, <1>3, <1>4, <1>5, <1>6, <1>7, <1>8, <1>9, <1>10, <1>11, <1>12, <1>13, <1>14, <1>15, <1>16, <1>17 DEF Next, Loop, Handle

LEMMA Inductive == Spec => []IInv
<1>1. IInv /\ [Next]_vars => IInv'
  BY NextTypeOK, NextBacklogInv, NextPoolInv, NextSocketInv, NextIdleInv, NextDescriptorsKept
     DEF IInv
<1> QED
  BY <1>1, InitIInv, PTL DEF Spec

\* Nothing has been left open before the socket is there.
StartInv ==
    mainpc = "socket" => submitted = {} /\ \A d \in Descriptor : table[d] # "left"

LEMMA StillOneLeft ==
    ASSUME TypeOK, OneDescriptorLeft,
           NEW n \in Descriptor, NEW is, is \notin {"left", "unused", "listen"},
           table' = [table EXCEPT ![n] = is]
    PROVE  OneDescriptorLeft'
<1>1. ASSUME NEW d \in Descriptor, table'[d] = "left"
      PROVE  \E e \in Descriptor : table'[e] \notin {"left", "unused", "listen"}
  <2>1. table[d] = "left" /\ d # n
    BY <1>1 DEF TypeOK
  <2>2. PICK e \in Descriptor : table[e] \notin {"left", "unused", "listen"}
    BY <2>1 DEF OneDescriptorLeft
  <2>3. CASE e = n
    BY <2>3 DEF TypeOK
  <2>4. CASE e # n
    BY <2>2, <2>4 DEF TypeOK
  <2> QED
    BY <2>3, <2>4
<1> QED
  BY <1>1 DEF OneDescriptorLeft

LEMMA SameTable == OneDescriptorLeft /\ table' = table => OneDescriptorLeft'
BY DEF OneDescriptorLeft

LEMMA NextOneLeft == IInv /\ StartInv /\ OneDescriptorLeft /\ [Next]_vars => OneDescriptorLeft'
<1> SUFFICES ASSUME IInv, StartInv, OneDescriptorLeft, [Next]_vars PROVE OneDescriptorLeft'
  OBVIOUS
<1>0. /\ TypeOK /\ Limit \in Nat \ {0}
      /\ \A c \in Client : c \notin {"left", "unused", "listen"}
  BY ServerAssumption DEF IInv
<1>1. CASE UNCHANGED table
  BY <1>1, SameTable
<1>2. CASE Socket
  <2>1. \A d \in Descriptor : table[d] # "left"
    BY <1>2 DEF Socket, StartInv
  <2>2. \A d \in Descriptor : table'[d] # "left"
    BY <1>0, <1>2, <2>1 DEF Socket, TypeOK
  <2> QED
    BY <2>2 DEF OneDescriptorLeft
<1>3. ASSUME NEW stage, Take(stage) PROVE OneDescriptorLeft'
  <2>1. Lowest \in Descriptor
    BY <1>0, <1>3, LowestIsFree DEF Take
  <2>2. Head(backlog) \in Client
    BY <1>0, <1>3, TailOf DEF Take, TypeOK
  <2>3. table' = [table EXCEPT ![Lowest] = Head(backlog)]
    BY <1>3 DEF Take
  <2> QED
    BY <1>0, <2>1, <2>2, <2>3, StillOneLeft
<1>4. ASSUME table' = Release PROVE OneDescriptorLeft'
  <2>1. CASE idlefd = 0
    BY <1>4, <2>1, SameTable DEF Release
  <2>2. CASE idlefd # 0
    <3>1. idlefd \in Descriptor /\ table' = [table EXCEPT ![idlefd] = "free"]
      BY <1>0, <1>4, <2>2 DEF Release, TypeOK
    <3> QED
      BY <1>0, <3>1, StillOneLeft
  <2> QED
    BY <2>1, <2>2
<1>5. CASE ReopenIdle
  <2>1. CASE table' = table
    BY <2>1, SameTable
  <2>2. CASE ~Full /\ table' = [table EXCEPT ![Lowest] = "reserve"]
    BY <1>0, <2>2, LowestIsFree, StillOneLeft
  <2> QED
    BY <1>5, <2>1, <2>2 DEF ReopenIdle
<1>6. ASSUME NEW w \in Worker, OpenFile(w) PROVE OneDescriptorLeft'
  <2>1. Lowest \in Descriptor /\ table' = [table EXCEPT ![Lowest] = "file"]
    BY <1>0, <1>6, LowestIsFree DEF OpenFile
  <2> QED
    BY <1>0, <2>1, StillOneLeft
<1>7. ASSUME NEW w \in Worker, CloseFile(w) PROVE OneDescriptorLeft'
  <2>1. file[w] \in Descriptor /\ table' = [table EXCEPT ![file[w]] = "free"]
    BY <1>0, <1>7 DEF CloseFile, TypeOK
  <2> QED
    BY <1>0, <2>1, StillOneLeft
\* Whoever leaves a file open has its socket.
<1>8. ASSUME NEW w \in Worker, LeaveFile(w) PROVE OneDescriptorLeft'
  <2>1. PICK s \in Descriptor : table[s] = running[w]
    BY <1>8, SocketIsThere DEF LeaveFile, Running
  <2>2. running[w] \in Client
    BY <1>0, <1>8 DEF LeaveFile, Running, TypeOK
  <2>3. table[file[w]] = "file"
    BY <1>8 DEF LeaveFile, IInv, DescriptorsKept
  <2>4. table[s] # "file"
    BY <2>1, <2>2, ServerAssumption
  <2>5. table'[s] = running[w]
    BY <1>0, <1>8, <2>1, <2>3, <2>4 DEF LeaveFile, TypeOK
  <2> QED
    BY <1>0, <2>2, <2>5 DEF OneDescriptorLeft
<1>9. ASSUME NEW w \in Worker, Finish(w) PROVE OneDescriptorLeft'
  <2>1. /\ SocketOf(running[w]) \in Descriptor
        /\ table' = [table EXCEPT ![SocketOf(running[w])] = "free"]
    BY <1>9, SocketIsThere DEF Finish, Ended, Running
  <2> QED
    BY <1>0, <2>1, StillOneLeft
<1>10. ASSUME NEW w \in Worker, Dispatch(w) PROVE OneDescriptorLeft'
  BY <1>10, SameTable DEF Dispatch
<1>11. CASE Accept4
  BY <1>3, <1>11 DEF Accept4
<1>12. CASE AcceptIdle
  BY <1>1, <1>3, <1>12 DEF AcceptIdle
<1>13. CASE CloseIdle \/ CloseClient
  BY <1>4, <1>13 DEF CloseIdle, CloseClient
<1>14. CASE BindListen \/ Connect \/ Emfile \/ AcceptError \/ UNCHANGED vars
  BY <1>1, <1>14 DEF BindListen, Connect, Emfile, AcceptError, vars
<1>15. ASSUME NEW w \in Worker, Block(w) PROVE OneDescriptorLeft'
  BY <1>1, <1>15 DEF Block
<1> QED
  BY <1>2, <1>5, <1>6, <1>7, <1>8, <1>9, <1>10, <1>11, <1>12, <1>13, <1>14, <1>15
     DEF Next, Loop, Handle

LEMMA NextStartInv == IInv /\ StartInv /\ [Next]_vars => StartInv'
<1> SUFFICES ASSUME IInv, StartInv, [Next]_vars, mainpc' = "socket"
             PROVE  UNCHANGED <<submitted, table>> /\ mainpc = "socket"
  BY DEF StartInv
<1> USE DEF siteVars, mainVars, poolVars, fileVars
<1>1. CASE UNCHANGED vars
  BY <1>1 DEF vars
<1>2. CASE Socket \/ BindListen \/ Loop \/ AcceptError
  BY <1>2 DEF Socket, BindListen, Loop, AcceptError, Accept4, Emfile, CloseIdle, AcceptIdle,
              CloseClient, ReopenIdle
<1>3. CASE Connect
  BY <1>3 DEF Connect, Listening
<1>4. ASSUME NEW w \in Worker, Handle(w) PROVE FALSE
  <2>1. mainpc = "socket"
    BY <1>4 DEF Handle, Dispatch, OpenFile, CloseFile, LeaveFile, Finish, Ended
  <2>2. submitted = {}
    BY <2>1 DEF StartInv
  <2>3. running[w] = NoClient /\ Len(queue) = 0
    <3>1. Len(queue) \in Nat
      BY LenProperties DEF IInv, TypeOK
    <3> QED
      BY <2>2, <3>1 DEF IInv, PoolInv
  <2>4. queue = <<>>
    BY <2>3, EmptySeq DEF IInv, TypeOK
  <2> QED
    BY <1>4, <2>3, <2>4 DEF Handle, Dispatch, Pool!Dispatch, OpenFile, CloseFile, LeaveFile,
                            Finish, Ended, Running
<1>5. ASSUME NEW w \in Worker, Block(w) PROVE UNCHANGED <<submitted, table>> /\ mainpc = "socket"
  BY <1>5 DEF Block
<1> QED
  BY <1>1, <1>2, <1>3, <1>4, <1>5 DEF Next

-----------------------------------------------------------------------------
(* Who uses which descriptor.                                              *)

\* Each open file is some handler's, and the only reserve is in idlefd.
UsersInv ==
    /\ \A d \in Descriptor : table[d] = "file" => \E w \in Worker : file[w] = d
    /\ \A d \in Descriptor :
          table[d] = "reserve" => idlefd = d /\ mainpc \notin {"accept", "closeClient", "reopen"}

LEMMA InitUsersInv == Init => UsersInv
<1> SUFFICES ASSUME Init PROVE UsersInv
  OBVIOUS
<1>1. PICK reserves \in {<<>>, <<"unused", "reserve">>} :
          /\ table = [d \in Descriptor |-> IF d \in DOMAIN reserves THEN reserves[d] ELSE "free"]
          /\ idlefd = Len(reserves)
  BY DEF Init
<1>2. mainpc = "socket"
  BY DEF Init
<1>3. CASE reserves = <<>>
  BY <1>1, <1>3 DEF UsersInv
<1>4. CASE reserves = <<"unused", "reserve">>
  <2>1. DOMAIN reserves = {1, 2} /\ reserves[1] = "unused" /\ reserves[2] = "reserve" /\ idlefd = 2
    BY <1>1, <1>4
  <2>2. \A d \in Descriptor : table[d] # "file" /\ (table[d] = "reserve" => d = 2)
    BY <1>1, <2>1
  <2> QED
    BY <1>2, <2>1, <2>2 DEF UsersInv
<1> QED
  BY <1>1, <1>3, <1>4

LEMMA NextUsersInv == IInv /\ UsersInv /\ [Next]_vars => UsersInv'
<1> SUFFICES ASSUME IInv, UsersInv, [Next]_vars PROVE UsersInv'
  OBVIOUS
<1> USE ServerAssumption DEF IInv, TypeOK, UsersInv, siteVars, mainVars, poolVars, fileVars
<1>1. ASSUME UNCHANGED vars PROVE UsersInv'
  BY <1>1 DEF vars
<1>2. ASSUME Socket PROVE UsersInv'
  BY <1>2, LowestIsFree DEF Socket
<1>3. ASSUME BindListen PROVE UsersInv'
  BY <1>3 DEF BindListen
<1>4. ASSUME Connect PROVE UsersInv'
  BY <1>4 DEF Connect
<1>5. ASSUME Accept4 PROVE UsersInv'
  BY <1>5, LowestIsFree, TailOf DEF Accept4, Take, Pool!Submit
<1>6. ASSUME Emfile PROVE UsersInv'
  BY <1>6 DEF Emfile
<1>7. ASSUME CloseIdle PROVE UsersInv'
  <2>1. UNCHANGED <<idlefd, file>> /\ mainpc' = "accept" /\ table' = Release
    BY <1>7 DEF CloseIdle
  <2> SUFFICES ASSUME NEW d \in Descriptor
               PROVE  /\ table'[d] = "file" => \E w \in Worker : file[w] = d
                      /\ table'[d] # "reserve"
    BY <2>1
  <2>2. d # 0
    BY DEF Descriptor
  <2>3. CASE d = idlefd
    BY <2>1, <2>2, <2>3 DEF Release
  <2>4. CASE d # idlefd
    <3>1. table'[d] = table[d]
      BY <2>1, <2>4 DEF Release
    <3> QED
      BY <2>4, <3>1
  <2> QED
    BY <2>3, <2>4
<1>8. ASSUME AcceptIdle PROVE UsersInv'
  <2>1. /\ mainpc = "accept" /\ mainpc' = "closeClient" /\ file' = file
        /\ \A d \in Descriptor : table[d] # "reserve"
    BY <1>8 DEF AcceptIdle
  <2>2. CASE Take("refused")
    <3>1. Head(backlog) \in Client /\ Lowest \in Descriptor
      BY <2>2, LowestIsFree, TailOf DEF Take
    <3>2. Head(backlog) # "file" /\ Head(backlog) # "reserve"
      BY <3>1
    <3>3. table' = [table EXCEPT ![Lowest] = Head(backlog)]
      BY <2>2 DEF Take
    <3>4. ASSUME NEW d \in Descriptor
          PROVE  table'[d] # "reserve" /\ (table'[d] = "file" => table[d] = "file")
      BY <2>1, <3>1, <3>2, <3>3
    <3> QED
      BY <2>1, <3>4
  <2>3. CASE table' = table
    BY <2>1, <2>3
  <2> QED
    BY <1>8, <2>2, <2>3 DEF AcceptIdle
<1>9. ASSUME CloseClient PROVE UsersInv'
  BY <1>9 DEF CloseClient, Release
<1>10. ASSUME ReopenIdle PROVE UsersInv'
  BY <1>10, LowestIsFree DEF ReopenIdle
<1>11. ASSUME AcceptError PROVE UsersInv'
  BY <1>11 DEF AcceptError, Fails
<1>12. ASSUME NEW w \in Worker, Dispatch(w) PROVE UsersInv'
  BY <1>12 DEF Dispatch
<1>13. ASSUME NEW w \in Worker, OpenFile(w) PROVE UsersInv'
  <2>1. /\ Lowest \in Descriptor /\ table[Lowest] = "free" /\ file[w] = 0
        /\ table' = [table EXCEPT ![Lowest] = "file"] /\ file' = [file EXCEPT ![w] = Lowest]
        /\ UNCHANGED <<idlefd, mainpc>>
    BY <1>13, LowestIsFree DEF OpenFile
  <2>2. ASSUME NEW d \in Descriptor, table'[d] = "file" PROVE \E v \in Worker : file'[v] = d
    <3>1. CASE d = Lowest
      BY <2>1, <3>1
    <3>2. CASE d # Lowest
      <4>1. PICK v \in Worker : file[v] = d
        BY <2>1, <2>2, <3>2
      <4>2. v # w
        BY <2>1, <4>1 DEF Descriptor
      <4> QED
        BY <2>1, <4>1, <4>2
    <3> QED
      BY <3>1, <3>2
  <2>3. ASSUME NEW d \in Descriptor, table'[d] = "reserve" PROVE table[d] = "reserve"
    BY <2>1, <2>3
  <2> QED
    BY <2>1, <2>2, <2>3
<1>14. ASSUME NEW w \in Worker, CloseFile(w) PROVE UsersInv'
  BY <1>14 DEF CloseFile, Running
<1>15. ASSUME NEW w \in Worker, LeaveFile(w) PROVE UsersInv'
  BY <1>15 DEF LeaveFile, Running
<1>16. ASSUME NEW w \in Worker, Finish(w) PROVE UsersInv'
  BY <1>16, SocketIsThere DEF Finish, Ended, Running
<1>17. ASSUME NEW w \in Worker, Block(w) PROVE UsersInv'
  BY <1>17 DEF Block
<1> QED
  BY <1>1, <1>2, <1>3, <1>4, <1>5, <1>6, <1>7, <1>8, <1>9, <1>10, <1>11, <1>12, <1>13, <1>14, <1>15, <1>16, <1>17 DEF Next, Loop, Handle

\* Disjoint sets are counted one by one.
LEMMA CountBoth ==
    ASSUME NEW S, NEW T, IsFiniteSet(S), IsFiniteSet(T), S \cap T = {}
    PROVE  /\ IsFiniteSet(S \cup T)
           /\ Cardinality(S) \in Nat /\ Cardinality(T) \in Nat
           /\ Cardinality(S \cup T) = Cardinality(S) + Cardinality(T)
<1>1. Cardinality(S) \in Nat /\ Cardinality(T) \in Nat
  BY FS_CardinalityType
<1>2. Cardinality(S \cap T) = 0
  BY FS_EmptySet
<1>3. IsFiniteSet(S \cup T) /\ Cardinality(S \cup T) = Cardinality(S) + Cardinality(T) - Cardinality(S \cap T)
  BY FS_Union
<1> QED
  BY <1>1, <1>2, <1>3

\* The descriptors in use are main's, the loop's, the files, the sockets and
\* what was left: each client has one socket, each handler at most one file.
LEMMA Accounts == IInv /\ UsersInv => DescriptorsAccounted
<1> SUFFICES ASSUME IInv, UsersInv PROVE DescriptorsAccounted
  OBVIOUS
<1> DEFINE Used    == {d \in Descriptor : table[d] # "free"}
           Lost    == {d \in Descriptor : table[d] = "left"}
           Mains   == {d \in Descriptor : table[d] \in {"unused", "listen"}}
           Files   == {d \in Descriptor : table[d] = "file"}
           Sockets == {d \in Descriptor : table[d] \in submitted \ finished}
           Loops   == IF idlefd # 0 /\ mainpc \notin {"accept", "reopen"} THEN {idlefd} ELSE {}
           Live    == submitted \ finished
           Busy    == {w \in Worker : file[w] # 0}
<1>1. IsFiniteSet(Descriptor)
  BY ServerAssumption, FS_Interval DEF Descriptor
<1>2. \A D \in SUBSET Descriptor : IsFiniteSet(D)
  BY <1>1, FS_Subset
<1>3. IsFiniteSet(Lost) /\ IsFiniteSet(Mains) /\ IsFiniteSet(Files) /\ IsFiniteSet(Sockets)
  BY <1>2
<1>4. /\ IsFiniteSet(Loops)
      /\ Cardinality(Loops) = IF idlefd # 0 /\ mainpc \notin {"accept", "reopen"} THEN 1 ELSE 0
  BY FS_EmptySet, FS_Singleton
<1>5. Cardinality(Live) = Cardinality(Sockets)
  <2> DEFINE f == [d \in Sockets |-> table[d]]
  <2>1. f \in [Sockets -> Live]
    OBVIOUS
  <2>2. \A c \in Live : \E d \in Descriptor : \A e \in Descriptor : table[e] = c <=> e = d
    BY DEF IInv, DescriptorsKept
  <2>3. \A d, e \in Sockets : f[d] = f[e] => d = e
    <3> SUFFICES ASSUME NEW d \in Sockets, NEW e \in Sockets, table[d] = table[e] PROVE d = e
      OBVIOUS
    <3>1. PICK n \in Descriptor : \A m \in Descriptor : table[m] = table[d] <=> m = n
      BY <2>2
    <3> QED
      BY <3>1
  <2>4. \A c \in Live : \E d \in Sockets : f[d] = c
    <3> SUFFICES ASSUME NEW c \in Live PROVE \E d \in Sockets : table[d] = c
      OBVIOUS
    <3>1. PICK n \in Descriptor : \A m \in Descriptor : table[m] = c <=> m = n
      BY <2>2
    <3>2. table[n] = c
      BY <3>1
    <3> QED
      BY <3>2
  <2> HIDE DEF f, Sockets, Live
  <2>5. f \in Bijection(Sockets, Live)
    BY <2>1, <2>3, <2>4, Fun_IsBij
  <2> QED
    BY <1>3, <2>5, FS_Bijection DEF ExistsBijection
<1>6. Cardinality(Busy) = Cardinality(Files)
  <2> DEFINE f == [w \in Busy |-> file[w]]
  <2>1. f \in [Busy -> Files]
    <3> SUFFICES ASSUME NEW w \in Worker, file[w] # 0
                 PROVE  file[w] \in Descriptor /\ table[file[w]] = "file"
      OBVIOUS
    <3> QED
      BY DEF IInv, TypeOK, DescriptorsKept
  <2>2. \A v, w \in Busy : f[v] = f[w] => v = w
    BY DEF IInv, DescriptorsKept
  <2>3. \A d \in Files : \E w \in Busy : f[w] = d
    <3> SUFFICES ASSUME NEW d \in Files PROVE \E w \in Busy : file[w] = d
      OBVIOUS
    <3>1. PICK w \in Worker : file[w] = d
      BY DEF UsersInv
    <3>2. d # 0
      BY DEF Descriptor
    <3> QED
      BY <3>1, <3>2
  <2>4. IsFiniteSet(Busy)
    BY ServerAssumption, FS_Subset
  <2> HIDE DEF f, Busy, Files
  <2>5. f \in Bijection(Busy, Files)
    BY <2>1, <2>2, <2>3, Fun_IsBij
  <2> QED
    BY <2>4, <2>5, FS_Bijection DEF ExistsBijection
<1>7. \A d \in Descriptor :
          d \in Loops <=> \/ table[d] = "reserve"
                          \/ table[d] \in Client /\ table[d] \notin Live
  <2> SUFFICES ASSUME NEW d \in Descriptor
               PROVE  d \in Loops <=> \/ table[d] = "reserve"
                                      \/ table[d] \in Client /\ table[d] \notin Live
    OBVIOUS
  <2>1. ASSUME table[d] = "reserve" PROVE d \in Loops
    BY <2>1 DEF UsersInv, Descriptor
  <2>2. ASSUME table[d] \in Client, table[d] \notin Live PROVE d \in Loops
    BY <2>2 DEF IInv, SocketInv, Descriptor
  <2>3. ASSUME d \in Loops PROVE \/ table[d] = "reserve"
                                 \/ table[d] \in Client /\ table[d] \notin Live
    BY <2>3 DEF IInv, IdleInv, PoolInv
  <2> HIDE DEF Loops, Live
  <2> QED
    BY <2>1, <2>2, <2>3
<1>8. Loops \subseteq Descriptor
  BY DEF IInv, TypeOK
<1>9. Used = ((((Lost \cup Mains) \cup Files) \cup Sockets) \cup Loops)
  <2> SUFFICES ASSUME NEW d \in Descriptor
               PROVE  table[d] # "free" <=> \/ d \in Lost \/ d \in Mains \/ d \in Files
                                            \/ d \in Sockets \/ d \in Loops
    BY <1>8
  <2>1. table[d] \in {"free", "unused", "reserve", "listen", "file", "left"} \cup Client
    BY DEF IInv, TypeOK
  <2>2. Live \subseteq Client
    BY DEF IInv, TypeOK
  <2> HIDE DEF Loops
  <2> QED
    BY <1>7, <2>1, <2>2, ServerAssumption
<1>10. /\ Lost \cap Mains = {}
       /\ (Lost \cup Mains) \cap Files = {}
       /\ ((Lost \cup Mains) \cup Files) \cap Sockets = {}
       /\ (((Lost \cup Mains) \cup Files) \cup Sockets) \cap Loops = {}
  <2>1. \A d \in Descriptor : table[d] \in Live =>
            table[d] \notin {"free", "unused", "reserve", "listen", "file", "left"}
    BY ServerAssumption DEF IInv, TypeOK
  <2>2. \A d \in Loops : d \notin Lost \cup Mains \cup Files \cup Sockets
    <3> HIDE DEF Loops
    <3> QED
      BY <1>7, <1>8, <2>1, ServerAssumption
  <2> HIDE DEF Loops
  <2> QED
    BY <2>1, <2>2
<1> HIDE DEF Used, Lost, Mains, Files, Sockets, Loops, Live, Busy
<1>11. /\ IsFiniteSet(Lost \cup Mains)
       /\ Cardinality(Lost \cup Mains) = Cardinality(Lost) + Cardinality(Mains)
  BY <1>3, <1>10, CountBoth
<1>12. /\ IsFiniteSet((Lost \cup Mains) \cup Files)
       /\ Cardinality((Lost \cup Mains) \cup Files) = Cardinality(Lost \cup Mains) + Cardinality(Files)
  BY <1>3, <1>10, <1>11, CountBoth
<1>13. /\ IsFiniteSet(((Lost \cup Mains) \cup Files) \cup Sockets)
       /\ Cardinality(((Lost \cup Mains) \cup Files) \cup Sockets)
            = Cardinality((Lost \cup Mains) \cup Files) + Cardinality(Sockets)
  BY <1>3, <1>10, <1>12, CountBoth
<1>14. Cardinality(Used) = Cardinality(((Lost \cup Mains) \cup Files) \cup Sockets) + Cardinality(Loops)
  BY <1>4, <1>9, <1>10, <1>13, CountBoth
<1>15. /\ Cardinality(Lost) \in Nat /\ Cardinality(Mains) \in Nat
       /\ Cardinality(Files) \in Nat /\ Cardinality(Sockets) \in Nat /\ Cardinality(Loops) \in Nat
  BY <1>3, <1>4, FS_CardinalityType
<1>16. Cardinality(Used) = (Cardinality(Live) + Cardinality(Busy)) + Cardinality(Mains)
                            + Cardinality(Loops) + Cardinality(Lost)
  BY <1>5, <1>6, <1>11, <1>12, <1>13, <1>14, <1>15
<1> QED
  BY <1>4, <1>16 DEF DescriptorsAccounted, Used, Lost, Mains, Loops, Live, Busy

-----------------------------------------------------------------------------
\* The table of descriptors, the queues and the clients keep their types, the
\* limit of descriptors and the errors of every call included.
THEOREM TypeCorrect == Spec => []TypeOK
<1>1. IInv => TypeOK
  BY DEF IInv
<1> QED
  BY <1>1, Inductive, PTL

\* No descriptor is closed under its user: the two closes of idlefd a round
\* hit nobody's socket or file.
THEOREM NothingClosedUnderItsUser == Spec => []DescriptorsKept
<1>1. IInv => DescriptorsKept
  BY DEF IInv
<1> QED
  BY <1>1, Inductive, PTL

\* What the loop is about to close is -1 or its own.
THEOREM IdleIsOurs == Spec => []IdleFdIsOurs
<1>1. IInv => IdleFdIsOurs
  BY DEF IInv, TypeOK, IdleInv, IdleFdIsOurs
<1> QED
  BY <1>1, Inductive, PTL

\* However many files the handlers leave open, one descriptor is left to
\* accept with, or will be: a server at its limit goes on turning clients away.
THEOREM OneIsAlwaysLeft == Spec => []OneDescriptorLeft
<1> DEFINE Inv == StartInv /\ OneDescriptorLeft
<1>1. Init => Inv
  <2> SUFFICES ASSUME Init PROVE Inv
    OBVIOUS
  <2>1. submitted = {}
    BY DEF Init, Pool!Init
  <2>2. \A d \in Descriptor : table[d] # "left"
    BY DEF Init
  <2> QED
    BY <2>1, <2>2 DEF StartInv, OneDescriptorLeft
<1>2. IInv /\ Inv /\ [Next]_vars => Inv'
  BY NextOneLeft, NextStartInv
<1>3. Inv => OneDescriptorLeft
  OBVIOUS
<1> HIDE DEF Inv
<1> QED
  BY <1>1, <1>2, <1>3, Inductive, PTL DEF Spec

\* No descriptor is lost but those the handlers leave open: every other one
\* that is in use is main's, the loop's, a client's or a handler's file.
THEOREM NothingElseIsLost == Spec => []DescriptorsAccounted
BY InitUsersInv, NextUsersInv, Accounts, Inductive, PTL DEF Spec

-----------------------------------------------------------------------------
(* The pool under the server.                                              *)

\* A step of the server that touches the pool is one of TaskDispatch.
LEMMA PoolSteps == TypeOK /\ [Next]_vars => [Pool!Next]_(Pool!vars)
<1> SUFFICES ASSUME TypeOK, [Next]_vars PROVE Pool!Next \/ UNCHANGED Pool!vars
  OBVIOUS
<1>1. CASE UNCHANGED vars
  BY <1>1 DEF vars, poolVars, Pool!vars
<1>2. CASE Socket \/ BindListen \/ Connect \/ AcceptError \/ Emfile \/ CloseIdle \/ AcceptIdle \/ CloseClient \/ ReopenIdle
  BY <1>2 DEF Socket, BindListen, Connect, AcceptError, Emfile, CloseIdle, AcceptIdle, CloseClient, ReopenIdle,
              poolVars, Pool!vars
<1>3. CASE Accept4
  <2>1. Head(backlog) \in Client
    BY <1>3, HeadTailProperties DEF TypeOK, Accept4, Take
  <2>2. Pool!Submit(Head(backlog))
    BY <1>3 DEF Accept4
  <2> QED
    BY <2>1, <2>2 DEF Pool!Next
<1>4. ASSUME NEW w \in Worker, Handle(w) PROVE Pool!Next \/ UNCHANGED Pool!vars
  <2>1. CASE Dispatch(w)
    <3>1. Pool!Dispatch(w)
      BY <2>1 DEF Dispatch
    <3> QED
      BY <3>1 DEF Pool!Next
  <2>2. CASE Finish(w)
    <3>1. Pool!Finish(w)
      BY <2>2 DEF Finish, Ended
    <3> QED
      BY <3>1 DEF Pool!Next
  <2>3. CASE OpenFile(w) \/ CloseFile(w) \/ LeaveFile(w)
    BY <2>3 DEF OpenFile, CloseFile, LeaveFile, poolVars, Pool!vars
  <2> QED
    BY <1>4, <2>1, <2>2, <2>3 DEF Handle
<1>5. ASSUME NEW w \in Worker, Block(w) PROVE UNCHANGED Pool!vars
  BY <1>5 DEF Block, poolVars, Pool!vars
<1> QED
  BY <1>1, <1>2, <1>3, <1>4, <1>5 DEF Next, Loop

\* What Loop and the handlers do to the pool is what the pool promises for:
\* a client is pushed once, and only a worker that runs it ends it.
THEOREM UsesThePool == Spec => Pool!Spec
<1>1. Init => Pool!Init
  BY DEF Init
<1>2. TypeOK /\ [Next]_vars => [Pool!Next]_(Pool!vars)
  BY PoolSteps
<1> QED
  BY <1>1, <1>2, TypeCorrect, PTL DEF Spec, Pool!Spec

-----------------------------------------------------------------------------
(* The order in which clients are served.                                  *)

Before(c, d) == \E i, j \in DOMAIN Arrivals : i < j /\ Arrivals[i] = c /\ Arrivals[j] = d

Queued(c) == \E k \in 1..Len(queue) : queue[k] = c

\* The backlog has the clients that wait there, in order, behind those that
\* were accepted and before those still to come.
WaitingInv ==
    /\ \A k, l \in 1..Len(backlog) : k < l => Before(backlog[k], backlog[l])
    /\ \A c \in Client : state[c] = "backlog" => \E k \in 1..Len(backlog) : backlog[k] = c
    /\ \A c, d \in Client : state[c] # "new" /\ state[d] = "new" => Before(c, d)
    /\ \A c \in submitted, d \in Client : state[d] = "backlog" => Before(c, d)

\* So is the queue, behind those that a worker has taken.
QueueInv ==
    /\ \A k, l \in 1..Len(queue) : k < l => Before(queue[k], queue[l])
    /\ \A c \in submitted : ~Queued(c) => \A k \in 1..Len(queue) : Before(c, queue[k])

\* A client that a worker has taken is never ahead of one that connected
\* before it and has been neither taken nor turned away.
ServedInOrder ==
    \A c, d \in Client :
        Before(c, d) /\ d \in submitted /\ ~Queued(d) =>
            state[c] \notin {"new", "backlog"} /\ ~Queued(c)

\* A client comes once, so none comes both before and after another.
LEMMA BeforeIsOrder ==
    ASSUME NEW c, NEW d, Before(c, d), Before(d, c)
    PROVE  FALSE
<1>1. PICK i, j \in DOMAIN Arrivals : i < j /\ Arrivals[i] = c /\ Arrivals[j] = d
  BY DEF Before
<1>2. PICK k, l \in DOMAIN Arrivals : k < l /\ Arrivals[k] = d /\ Arrivals[l] = c
  BY DEF Before
<1>3. i = l /\ j = k
  BY <1>1, <1>2, ServerAssumption DEF IsInjective
<1>4. i \in Nat /\ j \in Nat
  BY ServerAssumption, LenProperties
<1> QED
  BY <1>1, <1>2, <1>3, <1>4

\* The oldest connection leaves the backlog.
LEMMA HeadLeaves ==
    ASSUME TypeOK, BacklogInv, WaitingInv, backlog # <<>>, backlog' = Tail(backlog),
           NEW stage, stage \notin {"new", "backlog"},
           state' = [state EXCEPT ![Head(backlog)] = stage],
           submitted' \subseteq submitted \cup {Head(backlog)}
    PROVE  WaitingInv'
<1> DEFINE h == Head(backlog)
<1>1. /\ h = backlog[1] /\ h \in Client
      /\ Len(backlog) \in Nat /\ 1 <= Len(backlog) /\ Len(backlog') = Len(backlog) - 1
      /\ \A i \in 1..Len(backlog') : backlog'[i] = backlog[i + 1] /\ i + 1 \in 1..Len(backlog)
  BY TailOf DEF TypeOK
<1>2. state' = [state EXCEPT ![h] = stage] /\ submitted' \subseteq submitted \cup {h}
  OBVIOUS
<1> HIDE DEF h
<1>3. \A c \in Client : state'[c] = IF c = h THEN stage ELSE state[c]
  BY <1>2 DEF TypeOK
<1>4. state[h] = "backlog" /\ 1 \in 1..Len(backlog)
  BY <1>1 DEF BacklogInv
<1>5. ASSUME NEW k \in 1..Len(backlog'), NEW l \in 1..Len(backlog'), k < l
      PROVE  Before(backlog'[k], backlog'[l])
  <2>1. k + 1 \in 1..Len(backlog) /\ l + 1 \in 1..Len(backlog) /\ k + 1 < l + 1
    BY <1>1, <1>5
  <2>2. Before(backlog[k + 1], backlog[l + 1])
    BY <2>1 DEF WaitingInv
  <2> QED
    BY <1>1, <2>2
<1>6. ASSUME NEW c \in Client, state'[c] = "backlog"
      PROVE  Before(h, c) /\ \E k \in 1..Len(backlog') : backlog'[k] = c
  <2>1. c # h /\ state[c] = "backlog"
    BY <1>3, <1>6
  <2>2. PICK k \in 1..Len(backlog) : backlog[k] = c
    BY <2>1 DEF WaitingInv
  <2>3. k # 1 /\ 1 < k
    BY <1>1, <2>1, <2>2
  <2>4. Before(h, c)
    BY <1>1, <1>4, <2>2, <2>3 DEF WaitingInv
  <2>5. k - 1 \in 1..Len(backlog') /\ (k - 1) + 1 = k
    BY <1>1, <2>3
  <2> QED
    BY <1>1, <2>2, <2>4, <2>5
<1>7. ASSUME NEW c \in Client, NEW d \in Client, state'[c] # "new", state'[d] = "new"
      PROVE  Before(c, d)
  BY <1>3, <1>4, <1>7 DEF WaitingInv
<1>8. ASSUME NEW c \in submitted', NEW d \in Client, state'[d] = "backlog"
      PROVE  Before(c, d)
  <2>1. CASE c = h
    BY <1>6, <1>8, <2>1
  <2>2. CASE c # h
    BY <1>2, <1>3, <1>8, <2>2 DEF WaitingInv
  <2> QED
    BY <2>1, <2>2
<1> QED
  BY <1>5, <1>6, <1>7, <1>8 DEF WaitingInv

\* The next client to come joins the backlog.
LEMMA ConnectWaits ==
    ASSUME TypeOK, BacklogInv, PoolInv, WaitingInv, Connect
    PROVE  WaitingInv'
<1>1. PICK i \in DOMAIN Arrivals :
          /\ state[Arrivals[i]] = "new" /\ \A j \in 1..(i - 1) : state[Arrivals[j]] # "new"
          /\ state' = [state EXCEPT ![Arrivals[i]] = "backlog"]
          /\ backlog' = Append(backlog, Arrivals[i])
  BY DEF Connect
<1> DEFINE h == Arrivals[i]
<1>2. h \in Client
  BY ServerAssumption, ElementOfSeq, LenProperties
<1>3. state[h] = "new" /\ state' = [state EXCEPT ![h] = "backlog"] /\ backlog' = Append(backlog, h)
  BY <1>1
<1>4. ASSUME NEW d \in Client, d # h, state[d] = "new" PROVE Before(h, d)
  <2>1. PICK j \in DOMAIN Arrivals : Arrivals[j] = d
    BY DEF Client, Range
  <2>2. DOMAIN Arrivals = 1..Len(Arrivals) /\ Len(Arrivals) \in Nat
    BY ServerAssumption, LenProperties
  <2>3. j # i /\ j \notin 1..(i - 1)
    BY <1>1, <1>4, <2>1
  <2>4. i < j
    BY <2>2, <2>3
  <2> QED
    BY <2>1, <2>4 DEF Before
<1> HIDE DEF h
<1>5. submitted' = submitted
  BY DEF Connect, poolVars
<1>6. \A c \in Client : state'[c] = IF c = h THEN "backlog" ELSE state[c]
  BY <1>3 DEF TypeOK
<1>7. /\ Len(backlog) \in Nat /\ Len(backlog') = Len(backlog) + 1
      /\ \A j \in 1..Len(backlog) : backlog'[j] = backlog[j] /\ backlog[j] \in Client
      /\ backlog'[Len(backlog) + 1] = h
  BY <1>2, <1>3, AppendTo, ElementOfSeq DEF TypeOK
<1>8. \A j \in 1..Len(backlog) : Before(backlog[j], h)
  BY <1>2, <1>3, <1>7 DEF WaitingInv, BacklogInv
<1>9. ASSUME NEW k \in 1..Len(backlog'), NEW l \in 1..Len(backlog'), k < l
      PROVE  Before(backlog'[k], backlog'[l])
  <2>1. k \in 1..Len(backlog)
    BY <1>7, <1>9
  <2>2. CASE l = Len(backlog) + 1
    BY <1>7, <1>8, <2>1, <2>2
  <2>3. CASE l # Len(backlog) + 1
    <3>1. l \in 1..Len(backlog)
      BY <1>7, <2>3
    <3>2. Before(backlog[k], backlog[l])
      BY <1>9, <2>1, <3>1 DEF WaitingInv
    <3> QED
      BY <1>7, <2>1, <3>1, <3>2
  <2> QED
    BY <2>2, <2>3
<1>10. ASSUME NEW c \in Client, state'[c] = "backlog" PROVE \E k \in 1..Len(backlog') : backlog'[k] = c
  <2>1. CASE c = h
    <3>1. Len(backlog) + 1 \in 1..Len(backlog')
      BY <1>7
    <3> QED
      BY <1>7, <2>1, <3>1
  <2>2. CASE c # h
    <3>1. PICK k \in 1..Len(backlog) : backlog[k] = c
      BY <1>6, <1>10, <2>2 DEF WaitingInv
    <3>2. k \in 1..Len(backlog')
      BY <1>7
    <3> QED
      BY <1>7, <3>1, <3>2
  <2> QED
    BY <2>1, <2>2
<1>11. ASSUME NEW c \in Client, NEW d \in Client, state'[c] # "new", state'[d] = "new"
       PROVE  Before(c, d)
  <2>1. d # h /\ state[d] = "new"
    BY <1>6, <1>11
  <2>2. CASE c = h
    BY <1>4, <2>1, <2>2
  <2>3. CASE c # h
    BY <1>6, <1>11, <2>1, <2>3 DEF WaitingInv
  <2> QED
    BY <2>2, <2>3
<1>12. ASSUME NEW c \in submitted', NEW d \in Client, state'[d] = "backlog"
       PROVE  Before(c, d)
  <2>1. c \in Client /\ state[c] # "new" /\ c \in submitted
    BY <1>5 DEF PoolInv, TypeOK
  <2>2. CASE d = h
    BY <1>3, <2>1, <2>2, <1>2 DEF WaitingInv
  <2>3. CASE d # h
    BY <1>6, <1>12, <2>1, <2>3 DEF WaitingInv
  <2> QED
    BY <2>2, <2>3
<1> QED
  BY <1>9, <1>10, <1>11, <1>12 DEF WaitingInv

\* An accepted client is put behind all others in the queue.
LEMMA AcceptQueues ==
    ASSUME TypeOK, PoolInv, BacklogInv, WaitingInv, QueueInv, backlog # <<>>, Pool!Submit(Head(backlog))
    PROVE  QueueInv'
<1> DEFINE h == Head(backlog)
<1>1. h = backlog[1] /\ h \in Client /\ state[h] = "backlog"
  <2>1. h = backlog[1] /\ h \in Client /\ 1 \in 1..Len(backlog)
    BY TailOf DEF TypeOK
  <2> QED
    BY <2>1 DEF BacklogInv
<1>2. submitted' = submitted \cup {h} /\ queue' = Append(queue, h)
  BY DEF Pool!Submit
<1> HIDE DEF h
<1>3. /\ Len(queue) \in Nat /\ Len(queue') = Len(queue) + 1
      /\ \A j \in 1..Len(queue) : queue'[j] = queue[j]
      /\ queue'[Len(queue) + 1] = h
  BY <1>1, <1>2, AppendTo DEF TypeOK
<1>4. \A c \in submitted : Before(c, h)
  BY <1>1 DEF WaitingInv
<1>5. \A j \in 1..Len(queue) : queue[j] \in submitted
  BY DEF PoolInv
<1>6. ASSUME NEW k \in 1..Len(queue'), NEW l \in 1..Len(queue'), k < l
      PROVE  Before(queue'[k], queue'[l])
  <2>1. k \in 1..Len(queue)
    BY <1>3, <1>6
  <2>2. CASE l = Len(queue) + 1
    BY <1>3, <1>4, <1>5, <2>1, <2>2
  <2>3. CASE l # Len(queue) + 1
    <3>1. l \in 1..Len(queue)
      BY <1>3, <2>3
    <3>2. Before(queue[k], queue[l])
      BY <1>6, <2>1, <3>1 DEF QueueInv
    <3> QED
      BY <1>3, <2>1, <3>1, <3>2
  <2> QED
    BY <2>2, <2>3
<1>7. ASSUME NEW c \in submitted', ~Queued(c)', NEW k \in 1..Len(queue') PROVE Before(c, queue'[k])
  <2>1. \A j \in 1..Len(queue') : queue'[j] # c
    BY <1>7 DEF Queued
  <2>2. Len(queue) + 1 \in 1..Len(queue') /\ \A j \in 1..Len(queue) : j \in 1..Len(queue')
    BY <1>3
  <2>3. c # h /\ c \in submitted /\ ~Queued(c)
    BY <1>2, <1>3, <2>1, <2>2 DEF Queued
  <2>4. CASE k = Len(queue) + 1
    BY <1>3, <1>4, <2>3, <2>4
  <2>5. CASE k # Len(queue) + 1
    <3>1. k \in 1..Len(queue)
      BY <1>3, <2>5
    <3> QED
      BY <1>3, <2>3, <3>1 DEF QueueInv
  <2> QED
    BY <2>4, <2>5
<1> QED
  BY <1>6, <1>7 DEF QueueInv

\* A worker takes the first of the queue.
LEMMA DispatchKeepsOrder ==
    ASSUME TypeOK, QueueInv, NEW w \in Worker, Pool!Dispatch(w)
    PROVE  QueueInv'
<1>1. queue # <<>> /\ queue' = Tail(queue) /\ submitted' = submitted
  BY DEF Pool!Dispatch
<1>2. /\ Len(queue) \in Nat /\ 1 <= Len(queue) /\ Len(queue') = Len(queue) - 1
      /\ \A i \in 1..Len(queue') : queue'[i] = queue[i + 1] /\ i + 1 \in 1..Len(queue)
  BY <1>1, TailOf DEF TypeOK
<1>3. ASSUME NEW k \in 1..Len(queue'), NEW l \in 1..Len(queue'), k < l
      PROVE  Before(queue'[k], queue'[l])
  <2>1. k + 1 \in 1..Len(queue) /\ l + 1 \in 1..Len(queue) /\ k + 1 < l + 1
    BY <1>2, <1>3
  <2>2. Before(queue[k + 1], queue[l + 1])
    BY <2>1 DEF QueueInv
  <2> QED
    BY <1>2, <2>2
<1>4. ASSUME NEW c \in submitted', ~Queued(c)', NEW k \in 1..Len(queue') PROVE Before(c, queue'[k])
  <2>1. \A j \in 1..Len(queue') : queue'[j] # c
    BY <1>4 DEF Queued
  <2>2. k + 1 \in 1..Len(queue) /\ 1 \in 1..Len(queue) /\ 1 < k + 1 /\ queue'[k] = queue[k + 1]
    BY <1>2
  <2>3. CASE c = queue[1]
    <3>1. Before(queue[1], queue[k + 1])
      BY <2>2 DEF QueueInv
    <3> QED
      BY <2>2, <2>3, <3>1
  <2>4. CASE c # queue[1]
    <3>1. ASSUME NEW j \in 1..Len(queue), queue[j] = c PROVE FALSE
      <4>1. j # 1 /\ j - 1 \in 1..Len(queue') /\ (j - 1) + 1 = j
        BY <1>2, <2>4, <3>1
      <4> QED
        BY <1>2, <2>1, <3>1, <4>1
    <3>2. ~Queued(c)
      BY <3>1 DEF Queued
    <3> QED
      BY <1>1, <2>2, <3>2 DEF QueueInv
  <2> QED
    BY <2>3, <2>4
<1> QED
  BY <1>3, <1>4 DEF QueueInv

\* The order depends on nothing else.
LEMMA OrderStays ==
    ASSUME WaitingInv, QueueInv, UNCHANGED <<backlog, state, submitted, queue>>
    PROVE  WaitingInv' /\ QueueInv'
BY DEF WaitingInv, QueueInv, Queued

\* At the start nobody waits.
LEMMA InitOrder == Init => WaitingInv /\ QueueInv
<1> SUFFICES ASSUME Init PROVE WaitingInv /\ QueueInv
  OBVIOUS
<1>1. backlog = <<>> /\ queue = <<>> /\ submitted = {} /\ state = [c \in Client |-> "new"]
  BY DEF Init, Pool!Init
<1> QED
  BY <1>1 DEF WaitingInv, QueueInv

\* Every round of Loop and every step of a worker keeps the order.
LEMMA NextOrder == IInv /\ WaitingInv /\ QueueInv /\ [Next]_vars => WaitingInv' /\ QueueInv'
<1> SUFFICES ASSUME IInv, WaitingInv, QueueInv, [Next]_vars PROVE WaitingInv' /\ QueueInv'
  OBVIOUS
<1> USE DEF IInv
<1>1. CASE UNCHANGED vars
  BY <1>1, OrderStays DEF vars, poolVars
<1>2. CASE Socket \/ BindListen \/ Emfile \/ CloseIdle \/ CloseClient \/ ReopenIdle
  BY <1>2, OrderStays DEF Socket, BindListen, Emfile, CloseIdle, CloseClient, ReopenIdle, poolVars
<1>3. CASE Connect
  <2>1. WaitingInv'
    BY <1>3, ConnectWaits
  <2>2. QueueInv'
    BY <1>3 DEF Connect, poolVars, QueueInv, Queued
  <2> QED
    BY <2>1, <2>2
<1>4. CASE Accept4
  <2>1. /\ backlog # <<>> /\ backlog' = Tail(backlog) /\ state' = [state EXCEPT ![Head(backlog)] = "accepted"]
        /\ Pool!Submit(Head(backlog))
    BY <1>4 DEF Accept4, Take
  <2>2. submitted' \subseteq submitted \cup {Head(backlog)}
    BY <2>1 DEF Pool!Submit
  <2>3. "accepted" \notin {"new", "backlog"}
    OBVIOUS
  <2>4. WaitingInv'
    BY <2>1, <2>2, <2>3, HeadLeaves
  <2>5. QueueInv'
    BY <2>1, AcceptQueues
  <2> QED
    BY <2>4, <2>5
<1>5. ASSUME NEW stage \in {"refused", "aborted"}, backlog # <<>>, backlog' = Tail(backlog),
             state' = [state EXCEPT ![Head(backlog)] = stage], UNCHANGED poolVars
      PROVE  WaitingInv' /\ QueueInv'
  <2>1. submitted' \subseteq submitted \cup {Head(backlog)} /\ stage \notin {"new", "backlog"}
    BY <1>5 DEF poolVars
  <2>2. WaitingInv'
    BY <1>5, <2>1, HeadLeaves
  <2>3. QueueInv'
    BY <1>5 DEF poolVars, QueueInv, Queued
  <2> QED
    BY <2>2, <2>3
<1>6. CASE AcceptIdle
  <2>1. UNCHANGED poolVars
    BY <1>6 DEF AcceptIdle
  <2>2. CASE UNCHANGED <<backlog, state>>
    BY <2>1, <2>2, OrderStays DEF poolVars
  <2>3. CASE backlog # <<>> /\ backlog' = Tail(backlog) /\ state' = [state EXCEPT ![Head(backlog)] = "refused"]
    BY <1>5, <2>1, <2>3
  <2> QED
    BY <1>6, <2>2, <2>3 DEF AcceptIdle, Take, AcceptFails, Fails
<1>7. CASE AcceptError
  <2>1. UNCHANGED poolVars
    BY <1>7 DEF AcceptError
  <2>2. CASE UNCHANGED <<backlog, state>>
    BY <2>1, <2>2, OrderStays DEF poolVars
  <2>3. CASE backlog # <<>> /\ backlog' = Tail(backlog) /\ state' = [state EXCEPT ![Head(backlog)] = "aborted"]
    BY <1>5, <2>1, <2>3
  <2> QED
    BY <1>7, <2>2, <2>3 DEF AcceptError, Fails
<1>8. ASSUME NEW w \in Worker, Handle(w) PROVE WaitingInv' /\ QueueInv'
  <2>1. CASE OpenFile(w) \/ CloseFile(w) \/ LeaveFile(w)
    BY <2>1, OrderStays DEF OpenFile, CloseFile, LeaveFile, poolVars
  <2>2. CASE Dispatch(w)
    <3>1. Pool!Dispatch(w) /\ UNCHANGED <<backlog, state>> /\ submitted' = submitted
      BY <2>2 DEF Dispatch, Pool!Dispatch
    <3>2. QueueInv'
      BY <3>1, DispatchKeepsOrder
    <3>3. WaitingInv'
      BY <3>1 DEF WaitingInv
    <3> QED
      BY <3>2, <3>3
  <2>3. CASE Finish(w)
    <3>1. /\ running[w] # NoClient /\ UNCHANGED <<backlog, queue, submitted>>
          /\ state' = [state EXCEPT ![running[w]] = "done"]
      BY <2>3 DEF Finish, Ended, Running, Pool!Finish
    <3>2. running[w] \in Client /\ state[running[w]] = "accepted"
      BY <3>1 DEF PoolInv, TypeOK
    <3>3. \A c \in Client : /\ state'[c] = "new" <=> state[c] = "new"
                            /\ state'[c] = "backlog" <=> state[c] = "backlog"
      BY <3>1, <3>2 DEF TypeOK
    <3>4. WaitingInv'
      BY <3>1, <3>3 DEF WaitingInv
    <3>5. QueueInv'
      BY <3>1 DEF QueueInv, Queued
    <3> QED
      BY <3>4, <3>5
  <2> QED
    BY <1>8, <2>1, <2>2, <2>3 DEF Handle
<1>9. ASSUME NEW w \in Worker, Block(w) PROVE WaitingInv' /\ QueueInv'
  BY <1>9, OrderStays DEF Block, poolVars
<1> QED
  BY <1>1, <1>2, <1>3, <1>4, <1>6, <1>7, <1>8, <1>9 DEF Next, Loop

\* Clients are served in the order in which they connected: Loop accepts from
\* the head of the backlog and pushes at the tail of the queue, workers take
\* from its head, and neither the failed accepts nor the detour through idlefd
\* lets anybody pass.
THEOREM ClientsServedInOrder == Spec => []ServedInOrder
<1>1. IInv /\ WaitingInv /\ QueueInv => ServedInOrder
  <2> SUFFICES ASSUME IInv, WaitingInv, QueueInv, NEW c \in Client, NEW d \in Client,
                      Before(c, d), d \in submitted, ~Queued(d)
               PROVE  state[c] \notin {"new", "backlog"} /\ ~Queued(c)
    BY DEF ServedInOrder
  <2>1. ~Before(d, c)
    BY BeforeIsOrder
  <2>2. state[d] # "new"
    BY DEF IInv, PoolInv
  <2>3. state[c] \notin {"new", "backlog"}
    BY <2>1, <2>2 DEF WaitingInv
  <2>4. ~Queued(c)
    BY <2>1 DEF QueueInv, Queued
  <2> QED
    BY <2>3, <2>4
<1>2. Spec => [](WaitingInv /\ QueueInv)
  <2>1. Init => WaitingInv /\ QueueInv
    BY InitOrder
  <2>2. IInv /\ (WaitingInv /\ QueueInv) /\ [Next]_vars => (WaitingInv /\ QueueInv)'
    BY NextOrder
  <2> QED
    BY <2>1, <2>2, Inductive, PTL DEF Spec
<1> QED
  BY <1>1, <1>2, Inductive, PTL
=============================================================================
