----------------------------- MODULE ThreadPool -----------------------------
(***************************************************************************)
(* The thread pool of src/thread_pool.cc: one queue m_q, one mutex, one    *)
(* condition variable, the main thread that pushes accepted connections    *)
(* and the workers that run ThreadRoutine.  Every access to shared state   *)
(* is a step of its own, so that all interleavings are explored.           *)
(*                                                                         *)
(* PushTask reads m_q.size() after it has released the mutex.  m_q is a    *)
(* std::queue over a std::deque, whose elements live in blocks of NodeCap  *)
(* slots.  A pop inside a block is one store, and the unlocked read sees   *)
(* the size before it or the size after it.  A pop of the last slot of a   *)
(* block moves the begin iterator in several stores and frees the block:   *)
(* a read that overlaps it is torn and may yield any value, 0 included.    *)
(***************************************************************************)
EXTENDS Naturals, Sequences, FiniteSets, Functions

CONSTANTS
    Worker,   \* the m_num threads InitThreadPool asks for
    Task,     \* the connections main accepts: one Task object each
    NodeCap,  \* slots in a block of the deque (64 in libstdc++)
    Main,     \* the thread that runs HttpServer::Loop
    NoThread, \* the owner of a free mutex
    NoTask    \* no Task object

ASSUME PoolAssumption ==
    /\ IsFiniteSet(Worker) /\ Worker # {}
    /\ NodeCap \in Nat \ {0}
    /\ Main \notin Worker
    /\ NoThread \notin Worker \cup {Main}
    /\ NoTask \notin Task

VARIABLES
    m_mutex, \* the owner of m_mutex
    m_q,     \* the queued tasks, oldest first
    m_start, \* slot of the oldest task in its deque block
    mainpc,  \* where the main thread is
    in,      \* the argument of PushTask
    pc,      \* where each worker is
    out,     \* each worker's local Task t
    pushed,  \* history: the tasks pushed, in order
    served,  \* history: the tasks popped, in order
    handled, \* history: the tasks whose handler has returned
    missed   \* history: signals a torn size read has suppressed since a
             \* worker last found the queue empty

queueVars == <<m_q, m_start, pushed, served>>
mainVars  == <<mainpc, in>>
vars == <<m_mutex, queueVars, mainVars, pc, out, handled, missed>>

-----------------------------------------------------------------------------
\* Construction: m_num threads are still to be created; none runs yet.
Init ==
    /\ m_mutex = NoThread
    /\ m_q = <<>>
    /\ m_start = 0
    /\ mainpc = "create"
    /\ in = NoTask
    /\ pc = [w \in Worker |-> "unborn"]
    /\ out = [w \in Worker |-> NoTask]
    /\ pushed = <<>>
    /\ served = <<>>
    /\ handled = {}
    /\ missed = 0

\* One pthread_create of InitThreadPool; its result is not looked at, so a
\* thread that could not be created is simply absent afterwards.
CreateWorker(w) ==
    /\ mainpc = "create"
    /\ pc[w] = "unborn"
    /\ \E start \in {"lock", "absent"} : pc' = [pc EXCEPT ![w] = start]
    /\ mainpc' = IF \E v \in Worker \ {w} : pc[v] = "unborn"
                 THEN "create" ELSE "idle"
    /\ UNCHANGED <<m_mutex, queueVars, in, out, handled, missed>>

-----------------------------------------------------------------------------
(* PushTask, called by the accept loop for a connection accepted just now. *)

Accept(t) ==
    /\ mainpc = "idle"
    /\ t \notin Range(pushed)
    /\ in' = t
    /\ mainpc' = "lock"
    /\ UNCHANGED <<m_mutex, queueVars, pc, out, handled, missed>>

PushLock ==
    /\ mainpc = "lock"
    /\ m_mutex = NoThread
    /\ m_mutex' = Main
    /\ mainpc' = "push"
    /\ UNCHANGED <<queueVars, in, pc, out, handled, missed>>

Push ==
    /\ mainpc = "push"
    /\ m_q' = Append(m_q, in)
    /\ pushed' = Append(pushed, in)
    /\ mainpc' = "unlock"
    /\ UNCHANGED <<m_mutex, m_start, served, in, pc, out, handled, missed>>

PushUnlock ==
    /\ mainpc = "unlock"
    /\ m_mutex' = NoThread
    /\ mainpc' = "size"
    /\ UNCHANGED <<queueVars, in, pc, out, handled, missed>>

\* A worker is inside m_q.pop(), and the pop leaves a block of the deque.
TornRead ==
    /\ m_start = NodeCap - 1
    /\ \E w \in Worker : pc[w] = "popping"

\* Faulty variants: size() > 1 tested instead of size() > 0, and a signal
\* sent only when the push found the queue empty.
SizeReadOffByOne == {Len(m_q) > 1}
SizeReadWasEmpty == {Len(m_q) = 1}

\* What the unlocked m_q.size() > 0 may evaluate to.
SizeRead == IF TornRead THEN BOOLEAN ELSE {m_q # <<>>}

ReadSize ==
    /\ mainpc = "size"
    /\ \E nonempty \in SizeRead :
          /\ mainpc' = IF nonempty THEN "signal" ELSE "idle"
          /\ missed' = IF ~nonempty /\ TornRead THEN missed + 1 ELSE missed
    /\ UNCHANGED <<m_mutex, queueVars, in, pc, out, handled>>

\* pthread_cond_signal wakes one waiter; with no waiter it is lost.
Signal ==
    /\ mainpc = "signal"
    /\ mainpc' = "idle"
    /\ IF \E w \in Worker : pc[w] = "waiting"
       THEN \E w \in Worker : /\ pc[w] = "waiting"
                              /\ pc' = [pc EXCEPT ![w] = "relock"]
       ELSE pc' = pc
    /\ UNCHANGED <<m_mutex, queueVars, in, out, handled, missed>>

-----------------------------------------------------------------------------
(* ThreadRoutine.                                                          *)

\* Lock() at the top of the loop, or the mutex taken again in cond_wait.
Lock(w) ==
    /\ pc[w] \in {"lock", "relock"}
    /\ m_mutex = NoThread
    /\ m_mutex' = w
    /\ pc' = [pc EXCEPT ![w] = "check"]
    /\ UNCHANGED <<queueVars, mainVars, out, handled, missed>>

\* Size() == 0: pthread_cond_wait releases the mutex and sleeps, atomically.
Wait(w) ==
    /\ pc[w] = "check"
    /\ m_q = <<>>
    /\ pc' = [pc EXCEPT ![w] = "waiting"]
    /\ m_mutex' = NoThread
    /\ missed' = 0
    /\ UNCHANGED <<queueVars, mainVars, out, handled>>

\* POSIX lets pthread_cond_wait return without a signal.
SpuriousWakeup(w) ==
    /\ pc[w] = "waiting"
    /\ pc' = [pc EXCEPT ![w] = "relock"]
    /\ UNCHANGED <<m_mutex, queueVars, mainVars, out, handled, missed>>

\* PopTask, first half: out = m_q.front().
Front(w) ==
    /\ pc[w] = "check"
    /\ m_q # <<>>
    /\ out' = [out EXCEPT ![w] = Head(m_q)]
    /\ pc' = [pc EXCEPT ![w] = "popping"]
    /\ UNCHANGED <<m_mutex, queueVars, mainVars, handled, missed>>

\* Faulty variants of m_q.pop(): the begin iterator runs past its block, the
\* newest task is removed, the task is not removed at all.
PopPastBlock(w) ==
    /\ pc[w] = "popping"
    /\ m_q' = Tail(m_q)
    /\ m_start' = m_start + 1
    /\ served' = Append(served, Head(m_q))
    /\ pc' = [pc EXCEPT ![w] = "unlock"]
    /\ UNCHANGED <<m_mutex, pushed, mainVars, out, handled, missed>>

PopNewest(w) ==
    /\ pc[w] = "popping"
    /\ m_q' = SubSeq(m_q, 1, Len(m_q) - 1)
    /\ m_start' = (m_start + 1) % NodeCap
    /\ served' = Append(served, Head(m_q))
    /\ pc' = [pc EXCEPT ![w] = "unlock"]
    /\ UNCHANGED <<m_mutex, pushed, mainVars, out, handled, missed>>

PopNothing(w) ==
    /\ pc[w] = "popping"
    /\ pc' = [pc EXCEPT ![w] = "unlock"]
    /\ UNCHANGED <<m_mutex, queueVars, mainVars, out, handled, missed>>

\* PopTask, second half: m_q.pop() has taken effect.
Pop(w) ==
    /\ pc[w] = "popping"
    /\ m_q' = Tail(m_q)
    /\ m_start' = (m_start + 1) % NodeCap
    /\ served' = Append(served, Head(m_q))
    /\ pc' = [pc EXCEPT ![w] = "unlock"]
    /\ UNCHANGED <<m_mutex, pushed, mainVars, out, handled, missed>>

Unlock(w) ==
    /\ pc[w] = "unlock"
    /\ m_mutex' = NoThread
    /\ pc' = [pc EXCEPT ![w] = "handle"]
    /\ UNCHANGED <<queueVars, mainVars, out, handled, missed>>

\* t.HanderTask() has returned; Task t goes out of scope.
Handle(w) ==
    /\ pc[w] = "handle"
    /\ handled' = handled \cup {out[w]}
    /\ out' = [out EXCEPT ![w] = NoTask]
    /\ pc' = [pc EXCEPT ![w] = "lock"]
    /\ UNCHANGED <<m_mutex, queueVars, mainVars, missed>>

-----------------------------------------------------------------------------
PushTask == PushLock \/ Push \/ PushUnlock \/ ReadSize \/ Signal

ThreadRoutine(w) ==
    Lock(w) \/ Wait(w) \/ Front(w) \/ Pop(w) \/ Unlock(w) \/ Handle(w)

Next ==
    \/ \E w \in Worker :
          CreateWorker(w) \/ ThreadRoutine(w) \/ SpuriousWakeup(w)
    \/ \E t \in Task : Accept(t)
    \/ PushTask

Spec == Init /\ [][Next]_vars

\* The scheduler runs every thread that can run, and handlers return.
\* Nothing is assumed of new connections, of spurious wake-ups, or of which
\* contender the mutex admits.
Fairness ==
    /\ WF_vars(PushTask)
    /\ \A w \in Worker : WF_vars(ThreadRoutine(w))

FairSpec == Spec /\ Fairness

-----------------------------------------------------------------------------
(* Properties.                                                             *)

Holding == {"check", "popping", "unlock"}
Contending == {"lock", "relock"} \cup Holding

\* Workers that sleep on the condition variable.
Waiting == {w \in Worker : pc[w] = "waiting"}

\* Workers on their way to the size check, or taking a task off the queue.
Coming == {w \in Worker : pc[w] \in {"lock", "relock", "check", "popping"}}

\* Main has pushed and has not decided about its signal yet, or owes it.
Owed == IF mainpc \in {"unlock", "size", "signal"} THEN 1 ELSE 0

TypeOK ==
    /\ m_mutex \in Worker \cup {Main, NoThread}
    /\ m_q \in Seq(Task)
    /\ m_start \in 0..(NodeCap - 1)
    /\ mainpc \in {"create", "idle", "lock", "push", "unlock", "size", "signal"}
    /\ in \in Task \cup {NoTask}
    /\ pc \in [Worker -> {"unborn", "absent", "waiting", "handle"} \cup Contending]
    /\ out \in [Worker -> Task \cup {NoTask}]
    /\ pushed \in Seq(Task)
    /\ served \in Seq(Task)
    /\ handled \in SUBSET Task
    /\ missed \in Nat

\* Nothing is lost, duplicated or overtaken between PushTask and PopTask:
\* the tasks popped, followed by the tasks queued, are the tasks pushed.
FirstInFirstOut == pushed = served \o m_q

\* A connection is handled by one worker, once: no two workers hold the same
\* task, and none holds a task whose handler has already returned (its socket
\* is closed and the descriptor may belong to somebody else).
HandledOnce ==
    \A v, w \in Worker :
        /\ pc[w] \in {"unlock", "handle"}
        /\ pc[v] \in {"unlock", "handle"}
        => out[w] \notin handled /\ (v # w => out[v] # out[w])

\* The tasks never wait while everybody sleeps: if the queue is not empty,
\* main still owes its signal or some worker will look at the queue again.
\* This is what the while loop around pthread_cond_wait and the signal after
\* the push achieve together, torn size reads included.
NoStrandedQueue ==
    m_q # <<>> => \/ Owed = 1
                  \/ \E w \in Worker : pc[w] \in {"handle"} \cup Contending
                  \/ \A w \in Worker : pc[w] = "absent"

\* The pool is work-conserving up to torn reads: while a worker sleeps, every
\* queued task has a wake-up of its own on the way, save one for each signal
\* that a torn size read has suppressed.
WakeupPerTask ==
    Waiting # {} => Len(m_q) <= Cardinality(Coming) + Owed + missed

\* A queued task is eventually handled if InitThreadPool got any thread: not
\* implied by NoStrandedQueue, a worker must come back after its handler.
QueuedTaskIsHandled ==
    \A t \in Task :
        /\ t \in Range(m_q)
        /\ \E w \in Worker : pc[w] # "absent"
        ~> t \in handled

\* The pool implements what TaskDispatch promises to the accept loop.
Promise == INSTANCE TaskDispatch WITH
    Server    <- Worker,
    queue     <- m_q,
    running   <- [w \in Worker |-> IF pc[w] \in {"unlock", "handle"}
                                   THEN out[w] ELSE NoTask],
    submitted <- Range(pushed),
    finished  <- handled

ImplementsTaskDispatch == Promise!Spec

=============================================================================
