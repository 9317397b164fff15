---------------------------- MODULE TaskDispatch ----------------------------
(***************************************************************************)
(* What the thread pool promises to the accept loop, without threads,      *)
(* locks or signals: the connections handed over wait in one queue, an     *)
(* idle server takes the oldest one, and a connection that was taken is    *)
(* handled by that server only, once.                                      *)
(***************************************************************************)
EXTENDS Sequences

CONSTANTS
    Server,  \* the servers: the worker threads of the pool
    Task,    \* the tasks: one per accepted connection
    NoTask   \* a server that handles nothing

VARIABLES
    queue,     \* tasks handed over and not yet taken, oldest first
    running,   \* what each server is handling
    submitted, \* every task handed over so far
    finished   \* every task whose handler has returned

vars == <<queue, running, submitted, finished>>

Init ==
    /\ queue = <<>>
    /\ running = [s \in Server |-> NoTask]
    /\ submitted = {}
    /\ finished = {}

\* A task is handed over: a task is submitted at most once.
Submit(t) ==
    /\ t \notin submitted
    /\ submitted' = submitted \cup {t}
    /\ queue' = Append(queue, t)
    /\ UNCHANGED <<running, finished>>

\* An idle server takes the oldest task.
Dispatch(s) ==
    /\ running[s] = NoTask
    /\ queue # <<>>
    /\ running' = [running EXCEPT ![s] = Head(queue)]
    /\ queue' = Tail(queue)
    /\ UNCHANGED <<submitted, finished>>

\* The handler of a task returns; no task finishes twice.
Finish(s) ==
    /\ running[s] # NoTask
    /\ running[s] \notin finished
    /\ finished' = finished \cup {running[s]}
    /\ running' = [running EXCEPT ![s] = NoTask]
    /\ UNCHANGED <<queue, submitted>>

Next ==
    \/ \E t \in Task : Submit(t)
    \/ \E s \in Server : Dispatch(s) \/ Finish(s)

Spec == Init /\ [][Next]_vars
=============================================================================
