--------------------------------- MODULE Cgi ---------------------------------
(***************************************************************************)
(* EndPoint::CgiProcess in src/protocal.cc, run by several workers of one  *)
(* process at a time: two pipes, a fork, the program in the child, and the *)
(* read loop of the parent.  A child inherits a copy of every pipe end the *)
(* process has open at that moment, those of the other workers included,   *)
(* and keeps it through execl, for the pipes are not close-on-exec.  It    *)
(* inherits the buffer of stdout too, with what other threads have logged. *)
(***************************************************************************)
EXTENDS Naturals, Sequences, FiniteSets, SequencesExt

CONSTANTS
    Worker,   \* the workers that are in CgiProcess
    Program,  \* the kinds of resource each may be asked for
    Method,   \* the methods each may be asked with
    Freed,    \* what may become of a string that has been freed
    MaxOutput \* bound on how often a program writes

\* A filter reads its standard input to the end before it ends; a plain
\* program, such as wwwroot/test_cgi.cc, reads no more than it was announced;
\* any other resource, such as a page that is POSTed to, cannot be executed.
ASSUME CgiAssumption ==
    /\ IsFiniteSet(Worker)
    /\ Program \in [Worker -> SUBSET {"plain", "filter", "other"}]
    /\ Method \in [Worker -> SUBSET {"GET", "POST"}]
    /\ Freed \subseteq {"kept", "lost"}
    /\ MaxOutput \in Nat

VARIABLES
    pc,        \* where each worker is
    child,     \* its child: "none", "forked", what it runs, "exited"
    environ,   \* the value of its METHOD and the name of its second entry
    server,    \* the pipe ends the server process has open
    copies,    \* the pipe ends each worker's child has open
    pipe,      \* what each output pipe holds, unread
    body       \* m_response_body

vars == <<pc, child, environ, server, copies, pipe, body>>

\* The ends of the pipes of w: input[0], input[1], output[0], output[1].
InR(w)  == <<w, "in", 0>>
InW(w)  == <<w, "in", 1>>
OutR(w) == <<w, "out", 0>>
OutW(w) == <<w, "out", 1>>
Ends == Worker \X {"in", "out"} \X {0, 1}

\* What a pipe may carry.
Text == {"output", "log", "error"}

Init ==
    /\ pc = [w \in Worker |-> "input"]
    /\ child = [w \in Worker |-> "none"]
    /\ environ = [w \in Worker |-> {}]
    /\ server = {}
    /\ copies = [w \in Worker |-> {}]
    /\ pipe = [w \in Worker |-> <<>>]
    /\ body = [w \in Worker |-> <<>>]

Goto(w, l) == pc' = [pc EXCEPT ![w] = l]

-----------------------------------------------------------------------------
(* The parent.                                                             *)

\* pipe(input) and pipe(output); a failure returns SERVER_ERROR at once.
PipeInput(w) ==
    /\ pc[w] = "input"
    /\ \/ Goto(w, "output") /\ server' = server \cup {InR(w), InW(w)}
       \/ Goto(w, "failed") /\ server' = server
    /\ UNCHANGED <<child, environ, copies, pipe, body>>

PipeOutput(w) ==
    /\ pc[w] = "output"
    /\ \/ Goto(w, "fork") /\ server' = server \cup {OutR(w), OutW(w)}
       \/ Goto(w, "failed") /\ server' = server
    /\ UNCHANGED <<child, environ, copies, pipe, body>>

\* The child starts with all that is open and buffered; fork may also fail.
Fork(w) ==
    /\ pc[w] = "fork"
    /\ \/ /\ Goto(w, "close")
          /\ child' = [child EXCEPT ![w] = "forked"]
          /\ copies' = [copies EXCEPT ![w] = server]
       \/ /\ Goto(w, "failed")
          /\ UNCHANGED <<child, copies>>
    /\ UNCHANGED <<environ, server, pipe, body>>

\* Faulty variant: the parent keeps its own write end of the output pipe.
CloseInputOnly(w) ==
    /\ pc[w] = "close"
    /\ server' = server \ {InR(w)}
    /\ Goto(w, "read")
    /\ UNCHANGED <<child, environ, copies, pipe, body>>

\* close(input[0]), close(output[1]); the body of a POST is empty, write
\* returns 0 at once.
CloseOthers(w) ==
    /\ pc[w] = "close"
    /\ server' = server \ {InR(w), OutW(w)}
    /\ Goto(w, "read")
    /\ UNCHANGED <<child, environ, copies, pipe, body>>

\* Somebody may still write to the output of w.
Writable(w) == OutW(w) \in server \/ \E v \in Worker : OutW(w) \in copies[v]

\* Faulty variant: the return value 0 is taken for a byte.
ReadCountsEnd(w) ==
    /\ pc[w] = "read"
    /\ pipe[w] # <<>> \/ ~Writable(w)
    /\ body' = [body EXCEPT ![w] = Append(@, IF pipe[w] = <<>> THEN "none" ELSE Head(pipe[w]))]
    /\ pipe' = [pipe EXCEPT ![w] = IF @ = <<>> THEN @ ELSE Tail(@)]
    /\ Goto(w, IF pipe[w] = <<>> THEN "wait" ELSE "read")
    /\ UNCHANGED <<child, environ, server, copies>>

\* read(output[0]): something, the end of file, or it waits.
Read(w) ==
    /\ pc[w] = "read"
    /\ \/ /\ pipe[w] # <<>>
          /\ pipe' = [pipe EXCEPT ![w] = Tail(@)]
          /\ body' = [body EXCEPT ![w] = Append(@, Head(pipe[w]))]
          /\ pc' = pc
       \/ /\ pipe[w] = <<>> /\ ~Writable(w)
          /\ Goto(w, "wait")
          /\ UNCHANGED <<pipe, body>>
    /\ UNCHANGED <<child, environ, server, copies>>

\* Faulty variant: the end the request would be written to is forgotten.
FinishForgetsInput(w) ==
    /\ pc[w] = "wait" /\ child[w] = "exited"
    /\ server' = server \ {OutR(w)}
    /\ Goto(w, "done")
    /\ UNCHANGED <<child, environ, copies, pipe, body>>

\* waitpid returns when the child has ended: SIGCHLD is ignored, the child
\* has been reaped, and the result is an error the code does not look at.
\* Then close(output[0]), close(input[1]).
Finish(w) ==
    /\ pc[w] = "wait" /\ child[w] = "exited"
    /\ server' = server \ {OutR(w), InW(w)}
    /\ Goto(w, "done")
    /\ UNCHANGED <<child, environ, copies, pipe, body>>

-----------------------------------------------------------------------------
(* The child.                                                              *)

\* putenv keeps a pointer to the text.  METHOD's string lives until execl;
\* that of the second entry is freed at the end of its block.
Putenv(w, method) ==
    \E f \in Freed :
        LET second == IF method = "GET" THEN "PARAMETER" ELSE "Content-Length"
        IN  environ' = [environ EXCEPT ![w] =
                           {method} \cup (IF f = "kept" THEN {second} ELSE {})]

\* Faulty variant: a line is written to cerr for a GET too.
PrintedAlways(p, method, inherited) ==
    IF p = "other" THEN Append(inherited, "error") ELSE inherited

\* What the child itself puts into its output pipe, given what other threads
\* had left in stdout's buffer at the fork.  The child of a POST writes a line
\* to cerr, which is tied to cout: that flushes the buffer.  So does the
\* "execl error" behind a failed execl; a successful one drops the buffer.
Printed(p, method, inherited) ==
    CASE p = "other"                      -> Append(inherited, "error")
      [] p # "other" /\ method = "POST"   -> inherited
      [] p # "other" /\ method = "GET"    -> <<>>

\* Faulty variant: the two indices of the output pipe are exchanged.
ExecSwapped(w) ==
    /\ child[w] = "forked"
    /\ copies' = [copies EXCEPT ![w] = @ \ {InW(w), OutW(w)}]
    /\ child' \in {[child EXCEPT ![w] = p] : p \in Program[w]}
    /\ \E method \in Method[w] : Putenv(w, method)
    /\ UNCHANGED <<pc, server, pipe, body>>

\* close(input[1]), close(output[0]), dup2, putenv, execl.
Exec(w) ==
    /\ child[w] = "forked"
    /\ copies' = [copies EXCEPT ![w] = @ \ {InW(w), OutR(w)}]
    /\ \E p \in Program[w], method \in Method[w], inherited \in {<<>>, <<"log">>} :
          /\ child' = [child EXCEPT ![w] = p]
          /\ pipe' = [pipe EXCEPT ![w] = Printed(p, method, inherited)]
          /\ Putenv(w, method)
    /\ UNCHANGED <<pc, server, body>>

Written(w) == body[w] \o pipe[w]

Write(w) ==
    /\ child[w] \in {"plain", "filter"}
    /\ Len(SelectSeq(Written(w), LAMBDA t : t = "output")) < MaxOutput
    /\ pipe' = [pipe EXCEPT ![w] = Append(@, "output")]
    /\ UNCHANGED <<pc, child, environ, server, copies, body>>

\* No more input can come.
InputEnded(w) == InW(w) \notin server /\ \A v \in Worker : InW(w) \notin copies[v]

\* The program ends, by itself or by a signal; exit(1) after a failed execl.
Exit(w) ==
    /\ child[w] \in {"plain", "filter", "other"}
    /\ child[w] = "filter" => InputEnded(w)
    /\ child' = [child EXCEPT ![w] = "exited"]
    /\ copies' = [copies EXCEPT ![w] = {}]
    /\ UNCHANGED <<pc, environ, server, pipe, body>>

-----------------------------------------------------------------------------
CgiProcess(w) ==
    \/ PipeInput(w) \/ PipeOutput(w) \/ Fork(w) \/ CloseOthers(w)
    \/ Read(w) \/ Finish(w)

Next == \E w \in Worker : CgiProcess(w) \/ Exec(w) \/ Write(w) \/ Exit(w)

Spec == Init /\ [][Next]_vars

\* The workers and the children are scheduled, and a program that has its
\* input ends.
FairSpec ==
    Spec /\ \A w \in Worker : WF_vars(CgiProcess(w)) /\ WF_vars(Exec(w) \/ Exit(w))

-----------------------------------------------------------------------------
(* Properties.                                                             *)

TypeOK ==
    /\ pc \in [Worker -> {"input", "output", "fork", "close", "read", "wait",
                          "done", "failed"}]
    /\ child \in [Worker -> {"none", "forked", "plain", "filter", "other", "exited"}]
    /\ environ \in [Worker -> SUBSET {"GET", "POST", "PARAMETER", "Content-Length"}]
    /\ server \in SUBSET Ends
    /\ copies \in [Worker -> SUBSET Ends]
    /\ pipe \in [Worker -> Seq(Text)] /\ body \in [Worker -> Seq(Text)]

\* A CGI answer is what the program has written, all of it: the end of file
\* is not seen before the program has ended, whoever else holds the pipe.
WholeOutput ==
    \A w \in Worker :
        pc[w] \in {"wait", "done"} => child[w] = "exited" /\ pipe[w] = <<>>

\* What the child inherits of the log never gets among the output of a
\* program.  It may be in front of it in the answer to a POST, which the line
\* to cerr is to blame for; otherwise it is in an answer only before the
\* message of a failed execl.
OutputUnmixed ==
    \A w \in Worker :
        /\ \A i \in 2..Len(Written(w)) : Written(w)[i] # "log"
        /\ Contains(Written(w), "log") =>
               "POST" \in environ[w] \/ Written(w) = <<"log", "error">>

\* The server process closes each end of a run that did not fail, once.
EndsClosed ==
    \A w \in Worker :
        /\ pc[w] = "done" => \A e \in server : e[1] # w
        /\ pc[w] = "read" => {OutR(w), InW(w)} \subseteq server

\* A worker that waits although its own child has ended waits for children
\* of other workers, which still run; it never waits for itself.
WaitsForChildOnly ==
    \A w \in Worker :
        pc[w] = "read" /\ child[w] = "exited" /\ Writable(w) =>
            \E v \in Worker \ {w} : child[v] # "exited" /\ OutW(w) \in copies[v]

\* Every run ends, except when a filter has inherited the write end of its
\* output: its own program, or one that another worker has started meanwhile.
\* A filter waits for ever for the end its own worker keeps open, and all
\* whose output it holds wait with it; nothing else makes a worker wait.
EveryRunEnds ==
    <>(\A w \in Worker :
           \/ pc[w] \in {"done", "failed"}
           \/ \E v \in Worker : child[v] = "filter" /\ OutW(w) \in copies[v])

-----------------------------------------------------------------------------
(* What the sources say of CGI and the code does not do.                   *)

\* protocal.cc:241: the parameter of a GET can be passed to the child through
\* an environment variable.
ParameterReachesProgram ==
    \A w \in Worker :
        child[w] \in {"plain", "filter"} /\ "GET" \in environ[w] => "PARAMETER" \in environ[w]
=============================================================================
