------------------------------- MODULE Server -------------------------------
(***************************************************************************)
(* The program from main to the accept loop, HttpServer::Loop in           *)
(* src/http_server.cc, composed with the thread pool as TaskDispatch       *)
(* specifies it, and with what the loop shares with every handler: the     *)
(* descriptors of the process.  A handler opens files and may leave them   *)
(* open, within what Responder's LeakBound allows.                         *)
(***************************************************************************)
EXTENDS Naturals, Sequences, FiniteSets, Functions

CONSTANTS
    Arrivals, \* the clients, once each, in the order in which they connect
    Worker,   \* the threads of the pool that could be created
    NoClient,
    Limit,    \* descriptors the process may have besides the standard ones
    BACKLOG,  \* the kernel holds one connection more than that
    Opens,    \* files a handler opens at most
    Leaves    \* how many of them it leaves open at most

Client == Range(Arrivals)

ASSUME ServerAssumption ==
    /\ Arrivals \in Seq(Client) /\ IsInjective(Arrivals) /\ NoClient \notin Client
    /\ IsFiniteSet(Worker) /\ Worker # {}
    /\ Limit \in Nat \ {0} /\ BACKLOG \in Nat
    /\ Opens \in Nat /\ Leaves \in 0..Opens
    /\ Client \cap {"free", "unused", "reserve", "listen", "file", "left"} = {}

VARIABLES
    table,     \* what each descriptor is of
    backlog,   \* the clients the kernel holds for accept, in order
    state,     \* how far each client has got
    devnull,   \* there is a "dev/null" below the working directory
    console,   \* what is logged can be written
    mainpc,    \* the next system call of main's thread
    idlefd,    \* 0 stands for -1
    errno,     \* what a failed accept, or the log after it, has left there, until
               \* the round of Loop is over
    queue, running, submitted, finished, \* the pool
    file,      \* the file each worker's handler has open, or 0
    opens,     \* how many files it has opened
    left,      \* how many of them it has left open
    stuck      \* the workers whose handler waits for ever

siteVars == <<devnull, console>>
mainVars == <<mainpc, idlefd, errno>>
poolVars == <<queue, running, submitted, finished>>
fileVars == <<file, opens, left, stuck>>
vars == <<table, backlog, state, siteVars, mainVars, poolVars, fileVars>>

Pool == INSTANCE TaskDispatch WITH Server <- Worker, Task <- Client, NoTask <- NoClient

Descriptor == 1..Limit
Full == \A d \in Descriptor : table[d] # "free"

\* The kernel hands out the lowest free number.
Lowest == CHOOSE d \in Descriptor :
              table[d] = "free" /\ \A e \in 1..(d - 1) : table[e] # "free"

\* main has built two HttpServers, each with a reserve if /dev/null could be
\* opened; the first one is never used.
Init ==
    /\ \E reserves \in {<<>>, <<"unused", "reserve">>} :
          /\ Len(reserves) <= Limit
          /\ table = [d \in Descriptor |-> IF d \in DOMAIN reserves THEN reserves[d] ELSE "free"]
          /\ idlefd = Len(reserves)
    /\ backlog = <<>>
    /\ state = [c \in Client |-> "new"]
    /\ devnull \in BOOLEAN /\ console \in BOOLEAN
    /\ mainpc = "socket"
    /\ errno = "none"
    /\ Pool!Init
    /\ file = [w \in Worker |-> 0]
    /\ opens = [w \in Worker |-> 0]
    /\ left = [w \in Worker |-> 0]
    /\ stuck = {}

-----------------------------------------------------------------------------
(* HttpServer::InitServer.  Every failure ends the process: ERR_EXIT.      *)

Socket ==
    /\ mainpc = "socket"
    /\ \/ ~Full /\ table' = [table EXCEPT ![Lowest] = "listen"] /\ mainpc' = "bind"
       \/ table' = table /\ mainpc' = "exited"
    /\ UNCHANGED <<backlog, state, siteVars, idlefd, errno, poolVars, fileVars>>

BindListen ==
    /\ \/ mainpc = "bind" /\ mainpc' \in {"listen", "exited"}
       \/ mainpc = "listen" /\ mainpc' \in {"accept4", "exited"}
    /\ UNCHANGED <<table, backlog, state, siteVars, idlefd, errno, poolVars, fileVars>>

Listening == mainpc \notin {"socket", "bind", "listen", "exited"}

\* The next client connects.
Connect ==
    /\ Listening
    /\ Len(backlog) <= BACKLOG
    /\ \E i \in DOMAIN Arrivals :
          /\ state[Arrivals[i]] = "new"
          /\ \A j \in 1..(i - 1) : state[Arrivals[j]] # "new"
          /\ state' = [state EXCEPT ![Arrivals[i]] = "backlog"]
          /\ backlog' = Append(backlog, Arrivals[i])
    /\ UNCHANGED <<table, siteVars, mainVars, poolVars, fileVars>>

-----------------------------------------------------------------------------
(* HttpServer::Loop.                                                       *)

\* The oldest connection gets the lowest descriptor.
Take(stage) ==
    /\ backlog # <<>> /\ ~Full
    /\ table' = [table EXCEPT ![Lowest] = Head(backlog)]
    /\ state' = [state EXCEPT ![Head(backlog)] = stage]
    /\ backlog' = Tail(backlog)

\* accept4, and PushTask for the new connection.
Accept4 ==
    /\ mainpc = "accept4"
    /\ Take("accepted")
    /\ Pool!Submit(Head(backlog))
    /\ UNCHANGED <<siteVars, mainVars, fileVars>>

\* Faulty variant: every error of accept4 ends the process.
EmfileExits ==
    /\ mainpc = "accept4"
    /\ Full
    /\ errno' = "EMFILE"
    /\ mainpc' = "exited"
    /\ UNCHANGED <<table, backlog, state, siteVars, idlefd, poolVars, fileVars>>

\* EMFILE.  Linux looks for a descriptor first, so this happens whether or
\* not somebody is waiting.  errno is looked at after something was logged:
\* a failed write may have changed it, and then this is taken for any error.
Emfile ==
    /\ mainpc = "accept4"
    /\ Full
    /\ errno' \in {"EMFILE"} \cup (IF console THEN {} ELSE {"EIO"})
    /\ mainpc' = IF errno' = "EMFILE" THEN "closeIdle" ELSE "exited"
    /\ UNCHANGED <<table, backlog, state, siteVars, idlefd, poolVars, fileVars>>

\* With a descriptor free accept fails all the same: the client has gone, or
\* nobody has to be there, as for ENFILE, ENOBUFS and ENOMEM.
Fails(stage) ==
    /\ ~Full
    /\ \/ UNCHANGED <<backlog, state>>
       \/ /\ backlog # <<>>
          /\ state' = [state EXCEPT ![Head(backlog)] = stage]
          /\ backlog' = Tail(backlog)

\* Any error but EMFILE ends the process: ERR_EXIT.
AcceptError ==
    /\ mainpc = "accept4"
    /\ Fails("aborted")
    /\ errno' = "other"
    /\ mainpc' = "exited"
    /\ UNCHANGED <<table, siteVars, idlefd, poolVars, fileVars>>

\* close(idlefd), which does nothing for -1.
Release == IF idlefd = 0 THEN table ELSE [table EXCEPT ![idlefd] = "free"]

CloseIdle ==
    /\ mainpc = "closeIdle"
    /\ table' = Release
    /\ mainpc' = "accept"
    /\ UNCHANGED <<backlog, state, siteVars, idlefd, errno, poolVars, fileVars>>

\* Somebody else has taken the descriptor that was freed, or another error.
AcceptFails == \/ Full /\ errno' = "EMFILE" /\ UNCHANGED <<backlog, state>>
               \/ Fails("refused") /\ errno' = "other"

\* Faulty variant: idlefd keeps its number when accept fails.
AcceptIdleKeeps ==
    /\ mainpc = "accept"
    /\ \/ /\ Take("refused")
          /\ idlefd' = Lowest /\ errno' = errno
       \/ /\ AcceptFails
          /\ UNCHANGED <<table, idlefd>>
    /\ mainpc' = "closeClient"
    /\ UNCHANGED <<siteVars, poolVars, fileVars>>

\* idlefd = accept(): waits for a client, or fails.
AcceptIdle ==
    /\ mainpc = "accept"
    /\ \/ /\ Take("refused")
          /\ idlefd' = Lowest /\ errno' = errno
       \/ /\ AcceptFails
          /\ idlefd' = 0 /\ table' = table
    /\ mainpc' = "closeClient"
    /\ UNCHANGED <<siteVars, poolVars, fileVars>>

CloseClient ==
    /\ mainpc = "closeClient"
    /\ table' = Release
    /\ mainpc' = "reopen"
    /\ UNCHANGED <<backlog, state, siteVars, idlefd, errno, poolVars, fileVars>>

\* Faulty variant: idlefd is set only when the file could be opened.
ReopenIdleKeeps ==
    /\ mainpc = "reopen"
    /\ IF devnull /\ ~Full
       THEN table' = [table EXCEPT ![Lowest] = "reserve"] /\ idlefd' = Lowest
       ELSE UNCHANGED <<table, idlefd>>
    /\ errno' = "none"
    /\ mainpc' = "accept4"
    /\ UNCHANGED <<backlog, state, siteVars, poolVars, fileVars>>

\* open("dev/null"), a relative path.
ReopenIdle ==
    /\ mainpc = "reopen"
    /\ IF devnull /\ ~Full
       THEN table' = [table EXCEPT ![Lowest] = "reserve"] /\ idlefd' = Lowest
       ELSE table' = table /\ idlefd' = 0
    /\ errno' = "none"
    /\ mainpc' = "accept4"
    /\ UNCHANGED <<backlog, state, siteVars, poolVars, fileVars>>

Loop == Accept4 \/ Emfile \/ CloseIdle \/ AcceptIdle \/ CloseClient \/ ReopenIdle

-----------------------------------------------------------------------------
(* The handlers, as far as descriptors go.                                 *)

Alive == mainpc # "exited"

Dispatch(w) ==
    /\ Alive
    /\ Pool!Dispatch(w)
    /\ UNCHANGED <<table, backlog, state, siteVars, mainVars, fileVars>>

Running(w) == Alive /\ running[w] # NoClient /\ w \notin stuck

OpenFile(w) ==
    /\ Running(w)
    /\ file[w] = 0 /\ opens[w] < Opens /\ ~Full
    /\ table' = [table EXCEPT ![Lowest] = "file"]
    /\ file' = [file EXCEPT ![w] = Lowest]
    /\ opens' = [opens EXCEPT ![w] = @ + 1]
    /\ UNCHANGED <<backlog, state, siteVars, mainVars, poolVars, left, stuck>>

\* Faulty variant: m_fd is reset before it is closed.
CloseFileForgotten(w) ==
    /\ Running(w) /\ file[w] # 0
    /\ file' = [file EXCEPT ![w] = 0]
    /\ UNCHANGED <<table, backlog, state, siteVars, mainVars, poolVars, opens, left, stuck>>

CloseFile(w) ==
    /\ Running(w) /\ file[w] # 0
    /\ table' = [table EXCEPT ![file[w]] = "free"]
    /\ file' = [file EXCEPT ![w] = 0]
    /\ UNCHANGED <<backlog, state, siteVars, mainVars, poolVars, opens, left, stuck>>

\* Faulty variant: the second m_fd is forgotten like the first.
LeaveEveryFile(w) ==
    /\ Running(w) /\ file[w] # 0
    /\ table' = [table EXCEPT ![file[w]] = "left"]
    /\ file' = [file EXCEPT ![w] = 0]
    /\ left' = [left EXCEPT ![w] = @ + 1]
    /\ UNCHANGED <<backlog, state, siteVars, mainVars, poolVars, opens, stuck>>

\* m_fd is overwritten: nobody will close this file.
LeaveFile(w) ==
    /\ Running(w) /\ file[w] # 0 /\ left[w] < Leaves
    /\ table' = [table EXCEPT ![file[w]] = "left"]
    /\ file' = [file EXCEPT ![w] = 0]
    /\ left' = [left EXCEPT ![w] = @ + 1]
    /\ UNCHANGED <<backlog, state, siteVars, mainVars, poolVars, opens, stuck>>

SocketOf(c) == CHOOSE d \in Descriptor : table[d] = c

\* The end of a handler.
Ended(w) ==
    /\ Running(w) /\ file[w] = 0
    /\ Pool!Finish(w)
    /\ state' = [state EXCEPT ![running[w]] = "done"]
    /\ opens' = [opens EXCEPT ![w] = 0] /\ left' = [left EXCEPT ![w] = 0]
    /\ UNCHANGED <<backlog, siteVars, mainVars, file, stuck>>

\* Faulty variant: HandlerRequest returns without close(sock).
FinishKeepsSocket(w) ==
    /\ Ended(w)
    /\ table' = [table EXCEPT ![SocketOf(running[w])] = "left"]

Finish(w) ==
    /\ Ended(w)
    /\ table' = [table EXCEPT ![SocketOf(running[w])] = "free"]

\* CgiProcess may wait for ever for the end of its program's output.
Block(w) ==
    /\ Running(w)
    /\ stuck' = stuck \cup {w}
    /\ UNCHANGED <<table, backlog, state, siteVars, mainVars, poolVars, file, opens, left>>

Handle(w) == Dispatch(w) \/ OpenFile(w) \/ CloseFile(w) \/ LeaveFile(w) \/ Finish(w)

Next ==
    \/ Socket \/ BindListen \/ Connect \/ Loop \/ AcceptError
    \/ \E w \in Worker : Handle(w) \/ Block(w)

Spec == Init /\ [][Next]_vars

\* All threads are scheduled; no client has to connect.
FairSpec == Spec /\ WF_vars(Loop) /\ \A w \in Worker : WF_vars(Handle(w))

-----------------------------------------------------------------------------
(* Properties.                                                             *)

TypeOK ==
    /\ table \in [Descriptor -> {"free", "unused", "reserve", "listen", "file", "left"} \cup Client]
    /\ backlog \in Seq(Client)
    /\ state \in [Client -> {"new", "backlog", "accepted", "refused", "aborted", "done"}]
    /\ devnull \in BOOLEAN /\ console \in BOOLEAN
    /\ mainpc \in {"socket", "bind", "listen", "accept4", "closeIdle", "accept",
                   "closeClient", "reopen", "exited"}
    /\ idlefd \in {0} \cup Descriptor
    /\ errno \in {"none", "EMFILE", "EIO", "other"}
    /\ queue \in Seq(Client) /\ running \in [Worker -> Client \cup {NoClient}]
    /\ submitted \subseteq Client /\ finished \subseteq Client
    /\ file \in [Worker -> {0} \cup Descriptor]
    /\ opens \in [Worker -> 0..Opens] /\ left \in [Worker -> 0..Leaves]
    /\ stuck \subseteq Worker

\* No descriptor is closed under its user: each connection in the queue or
\* with a worker and each handler's file keeps a descriptor of its own, and
\* idlefd, wherever it is about to be closed, is -1 or still the loop's.  The
\* loop closes idlefd twice a round by a number that other threads reuse at
\* once.
DescriptorsKept ==
    /\ \A c \in submitted \ finished :
          \E d \in Descriptor : \A e \in Descriptor : table[e] = c <=> e = d
    /\ \A w \in Worker : file[w] # 0 => table[file[w]] = "file"
    /\ \A v, w \in Worker : v # w /\ file[w] # 0 => file[w] # file[v]

IdleFdIsOurs ==
    idlefd # 0 =>
        CASE mainpc \notin {"accept", "closeClient", "reopen"} -> table[idlefd] = "reserve"
          [] mainpc = "closeClient" ->
                \E c \in Client : table[idlefd] = c /\ state[c] = "refused"
          [] OTHER -> TRUE

\* Every descriptor in use is in use for a reason: nothing is lost but what
\* the handlers leave.
DescriptorsAccounted ==
    LET used == Cardinality({d \in Descriptor : table[d] # "free"})
        lost == Cardinality({d \in Descriptor : table[d] = "left"})
        live == Cardinality(submitted \ finished) + Cardinality({w \in Worker : file[w] # 0})
        mains == Cardinality({d \in Descriptor : table[d] \in {"unused", "listen"}})
        loops == IF idlefd # 0 /\ mainpc \notin {"accept", "reopen"}
                 THEN 1 ELSE 0
    IN  used = live + mains + loops + lost

\* The files handlers leave open never use up the last descriptor: whoever
\* leaves one has a socket open besides.  The server grows unable to send
\* pages, but not to accept.
OneDescriptorLeft ==
    (\E d \in Descriptor : table[d] = "left") =>
        \E d \in Descriptor : table[d] \notin {"left", "unused", "listen"}

\* A client that has connected is answered or turned away in the end, at the
\* limit of descriptors, without the reserve and with files left open too,
\* unless another error of accept4, or of the log behind it, ends the process:
\* the limit of descriptors alone never ends it.  Handlers that wait for ever
\* keep from it only the clients they have, all when they have every worker,
\* and those outside when they hold what is missing and there is no reserve,
\* or the accept that is to use it fails over and over.
ClientGetsAnEnd ==
    \/ \A c \in Client :
          state[c] = "backlog" ~>
              \/ state[c] \in {"refused", "done"}
              \/ mainpc = "exited" /\ errno \in {"other", "EIO"}
              \/ \E w \in stuck : running[w] = c
              \/ stuck = Worker
              \/ stuck # {} /\ Full /\ idlefd = 0
    \/ []<>(mainpc = "closeClient" /\ errno = "other")

-----------------------------------------------------------------------------
(* What the sources say of the loop and the code does not do.              *)

\* http_server.cc:44, "the number of file descriptors reaches the upper
\* limit, close the client connection": with clients waiting the loop has one
\* to close.  Said of a server that has started with its reserve.
EmfileClosesClient ==
    /\ mainpc = "closeClient" /\ errno = "EMFILE" /\ backlog # <<>>
    /\ \E d \in Descriptor : table[d] = "unused"
    => idlefd # 0
=============================================================================
