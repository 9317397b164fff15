------------------------------ MODULE Responder ------------------------------
(***************************************************************************)
(* Answering one request: EndPoint::BuildHttpResponse, its helpers, and    *)
(* EndPoint::SendHttpResponse in src/protocal.cc, one action per system    *)
(* call that can fail.  Between two of them somebody may edit wwwroot, the *)
(* client may reset the connection, and a descriptor may be refused        *)
(* because the process has used its limit up.                              *)
(***************************************************************************)
EXTENDS Naturals, Sequences, FiniteSets

CONSTANTS
    Pages,    \* the error pages wwwroot has (as shipped: PAGE_404 only)
    Size,     \* blocks of data in every file and page
    DirSize,  \* the st_size of a directory, in blocks
    MaxEdits, \* bound on the edits of wwwroot during one request
    Uninit    \* the content of a member no constructor has set

PAGE_400 == "400.html"
PAGE_404 == "404.html"
PAGE_500 == "500.html"

ASSUME ResponderAssumption ==
    /\ Pages \subseteq {PAGE_400, PAGE_404, PAGE_500}
    /\ Size \in Nat \ {0} /\ DirSize \in Nat \ {0}
    /\ MaxEdits \in Nat
    /\ Uninit \notin Nat

\* What wwwroot has at the requested name: nothing, a page, a program, or a
\* directory without index.html, with a page or with a program there.
Site == {"none", "file", "exec", "dir", "dirFile", "dirExec"}

VARIABLES
    site,        \* what wwwroot has at the requested name
    edits,       \* how often it has been edited
    alive,       \* the client has not reset the connection
    pc,          \* the next system call
    status,      \* m_status_code
    cgi,         \* m_cgi
    path,        \* m_path: "name", or "index" for the index.html below it
    fds,         \* every descriptor this request has got, by what it is of
    closed,      \* those it has closed again, as positions in fds
    m_fd,        \* a position in fds, 0 for -1
    m_file_size,
    header,      \* m_response_header: the pages announced, each with its size
    body,        \* m_response_body: the CGI runs whose output it holds
    todo,        \* error pages BuildResponseHelper has still to go through
    blocks,      \* blocks of a page, or outputs, written to the socket
    runs         \* history: how each call of CgiProcess ended

envVars  == <<site, edits, alive>>
fdVars   == <<fds, closed, m_fd>>
sendVars == <<header, body, todo, blocks>>
vars == <<envVars, pc, status, cgi, path, m_file_size, fdVars, sendVars, runs>>

\* What RecvHttpRequest leaves: a bad method has set 400, POST has set m_cgi,
\* and a URL that ends in "/" names the index.
Init ==
    /\ site \in Site /\ edits = 0 /\ alive = TRUE
    /\ status \in {200, 400}
    /\ cgi \in {FALSE, status = 200}
    /\ path \in {"name", "index"}
    /\ pc = IF status = 400 THEN "helper" ELSE "stat"
    /\ fds = <<>> /\ closed = {} /\ m_fd = Uninit /\ m_file_size = Uninit
    /\ header = <<>> /\ body = <<>> /\ todo = <<>> /\ blocks = 0 /\ runs = <<>>

-----------------------------------------------------------------------------
(* The environment.                                                        *)

Edit ==
    /\ edits < MaxEdits
    /\ pc \in {"stat", "statIndex", "open", "reopen"}
    /\ site' \in Site
    /\ edits' = edits + 1
    /\ UNCHANGED <<alive, pc, status, cgi, path, m_file_size, fdVars, sendVars, runs>>

\* The client is gone: what is sent from now on is lost.
Reset ==
    /\ alive
    /\ alive' = FALSE
    /\ UNCHANGED <<site, edits, pc, status, cgi, path, m_file_size, fdVars, sendVars, runs>>

-----------------------------------------------------------------------------
(* BuildHttpResponse.                                                      *)

InDir == site \in {"dir", "dirFile", "dirExec"}

\* What the system finds at m_path.
Found ==
    CASE path = "name"  -> IF InDir THEN "dir" ELSE site
      [] path = "index" -> IF site = "dirFile" THEN "file"
                           ELSE IF site = "dirExec" THEN "exec" ELSE "none"

Produce(isCgi) == IF isCgi THEN "cgi" ELSE "open"

\* Faulty variant: a name that is not found returns past the helper.
StatReturns ==
    /\ pc = "stat"
    /\ \/ /\ Found = "none"
          /\ status' = 404
          /\ pc' = "send"
          /\ UNCHANGED <<cgi, path, m_file_size>>
       \/ /\ Found \in {"file", "exec"}
          /\ cgi' = (cgi \/ Found = "exec")
          /\ m_file_size' = Size
          /\ pc' = Produce(cgi')
          /\ UNCHANGED <<status, path>>
    /\ UNCHANGED <<envVars, fdVars, sendVars, runs>>

Stat ==
    /\ pc = "stat"
    /\ \/ /\ Found = "none"
          /\ status' = 404
          /\ pc' = "helper"
          /\ UNCHANGED <<cgi, path, m_file_size>>
       \/ /\ Found = "dir"
          /\ path' = "index"
          /\ pc' = "statIndex"
          /\ UNCHANGED <<status, cgi, m_file_size>>
       \/ /\ Found \in {"file", "exec"}
          /\ cgi' = (cgi \/ Found = "exec")
          /\ m_file_size' = Size
          /\ pc' = Produce(cgi')
          /\ UNCHANGED <<status, path>>
    /\ UNCHANGED <<envVars, fdVars, sendVars, runs>>

\* The index of a directory.  Nobody looks at the result: st keeps the size
\* of the directory if there is none, and a program is taken for a page.
StatIndex ==
    /\ pc = "statIndex"
    /\ m_file_size' = IF Found = "none" THEN DirSize ELSE Size
    /\ pc' = Produce(cgi)
    /\ UNCHANGED <<envVars, status, cgi, path, fdVars, sendVars, runs>>

\* open() of what is there: a new descriptor in m_fd, or -1.
OpenPath(what) ==
    \/ what # "none" /\ fds' = Append(fds, what) /\ m_fd' = Len(fds')
    \/ fds' = fds /\ m_fd' = 0

\* NotCgiProcess, called for a code that nobody uses ...
Open ==
    /\ pc = "open"
    /\ OpenPath(Found)
    /\ pc' = "reopen"
    /\ UNCHANGED <<envVars, status, cgi, path, m_file_size, closed, sendVars, runs>>

\* Faulty variant: the code of the first call is the one that is set.
ReopenForFirstCode ==
    /\ pc = "reopen"
    /\ OpenPath(Found)
    /\ status' = IF m_fd > 0 THEN 200 ELSE 500
    /\ pc' = "helper"
    /\ UNCHANGED <<envVars, cgi, path, m_file_size, closed, sendVars, runs>>

\* ... and called again for the code that is set.
Reopen ==
    /\ pc = "reopen"
    /\ OpenPath(Found)
    /\ status' = IF m_fd' > 0 THEN 200 ELSE 500
    /\ pc' = "helper"
    /\ UNCHANGED <<envVars, cgi, path, m_file_size, closed, sendVars, runs>>

\* One call of CgiProcess: a pipe or the fork may fail, which leaves the
\* pipes made so far open.  A child that crashed counts as OK: SIGCHLD is
\* ignored, so waitpid finds no child and its result is not the pid.
CgiProcess ==
    \/ runs' = Append(runs, [code |-> 500, left |-> 0]) /\ UNCHANGED <<fds, body>>
    \/ /\ runs' = Append(runs, [code |-> 500, left |-> 2])
       /\ fds' = fds \o <<"pipe", "pipe">>
       /\ UNCHANGED body
    \/ /\ runs' = Append(runs, [code |-> 404, left |-> 4])
       /\ fds' = fds \o <<"pipe", "pipe", "pipe", "pipe">>
       /\ UNCHANGED body
    \/ /\ runs' = Append(runs, [code |-> 200, left |-> 0])
       /\ body' \in {body, Append(body, Len(runs'))}
       /\ UNCHANGED fds

\* Faulty variant: called again until a run succeeds.
CgiRetried ==
    /\ pc = "cgi"
    /\ CgiProcess
    /\ IF runs'[Len(runs')].code # 200
       THEN UNCHANGED <<pc, status>>
       ELSE pc' = "helper" /\ status' = 200
    /\ UNCHANGED <<envVars, cgi, path, m_file_size, closed, m_fd, header, todo, blocks>>

\* CgiProcess is called twice too; the second code is the one that is set.
Cgi ==
    /\ pc = "cgi"
    /\ CgiProcess
    /\ IF Len(runs') = 1
       THEN UNCHANGED <<pc, status>>
       ELSE pc' = "helper" /\ status' = runs'[2].code
    /\ UNCHANGED <<envVars, cgi, path, m_file_size, closed, m_fd, header, todo, blocks>>

\* The headers of a 200 are pushed onto a copy of m_response_header.
Build200header == header

\* BuildResponseHelper: the switch falls through from 404 to 500.
Helper ==
    /\ pc = "helper"
    /\ todo' = CASE status = 200 -> <<>>
                 [] status = 400 -> <<PAGE_400>>
                 [] status = 404 -> <<PAGE_404, PAGE_500>>
                 [] status = 500 -> <<PAGE_500>>
    /\ header' = IF status = 200 THEN Build200header ELSE header
    /\ pc' = IF todo' = <<>> THEN "send" ELSE "page"
    /\ UNCHANGED <<envVars, status, cgi, path, m_file_size, fdVars, body, blocks, runs>>

\* BuildErrorHeader for the next page.  The stat behind an open that worked
\* may fail, the page having just been removed: what m_file_size was, set or
\* not, is then announced and stays.
BuildErrorHeader ==
    /\ pc = "page"
    /\ OpenPath(IF Head(todo) \in Pages THEN Head(todo) ELSE "none")
    /\ m_file_size' \in IF m_fd' > 0 THEN {Size, m_file_size} ELSE {m_file_size}
    /\ header' = IF m_fd' > 0
                 THEN Append(header, [page |-> Head(todo), size |-> m_file_size'])
                 ELSE header
    /\ todo' = Tail(todo)
    /\ pc' = IF todo' = <<>> THEN "send" ELSE "page"
    /\ UNCHANGED <<envVars, status, cgi, path, closed, body, blocks, runs>>

-----------------------------------------------------------------------------
(* SendHttpResponse.  The status line, the headers and the blank line are  *)
(* small and fit the empty buffer of a new connection; after them only as  *)
(* much is taken as fits, since the socket does not block.                 *)

\* How much there can be to send, where sendfile reads from m_fd: a size that
\* nobody has set is any number.
ToSend ==
    IF cgi THEN {Len(body)}
    ELSE IF m_fd = 0 \/ fds[m_fd] = "dir" THEN {0}
    ELSE IF m_file_size = Uninit THEN 0..Size
    ELSE IF m_file_size < Size THEN {m_file_size} ELSE {Size}

\* As much of it as the client lets through.
Written(n) == IF alive /\ n > 0 THEN 1..n ELSE {0}

\* Faulty variant: sending is tried again until everything is sent.
SendUntilWhole ==
    /\ pc = "send"
    /\ \E n \in ToSend :
          /\ blocks' \in Written(n)
          /\ pc' = IF blocks' < n THEN "send" ELSE IF cgi THEN "hangup" ELSE "close"
    /\ UNCHANGED <<envVars, status, cgi, path, m_file_size, fdVars, header, body, todo, runs>>

Send ==
    /\ pc = "send"
    /\ \E n \in ToSend : blocks' \in Written(n)
    /\ pc' = IF cgi THEN "hangup" ELSE "close"
    /\ UNCHANGED <<envVars, status, cgi, path, m_file_size, fdVars, header, body, todo, runs>>

\* Faulty variant: a failed sendfile returns without closing.
CloseIfSent ==
    /\ pc = "close"
    /\ closed' = IF blocks > 0 THEN closed \cup {m_fd} ELSE closed
    /\ pc' = "hangup"
    /\ UNCHANGED <<envVars, status, cgi, path, m_file_size, fds, m_fd, sendVars, runs>>

\* close(m_fd), which does nothing for -1.
Close ==
    /\ pc = "close"
    /\ closed' = closed \cup ({m_fd} \ {0})
    /\ pc' = "hangup"
    /\ UNCHANGED <<envVars, status, cgi, path, m_file_size, fds, m_fd, sendVars, runs>>

\* HandlerRequest closes the socket, whatever the request said.
CloseSocket ==
    /\ pc = "hangup"
    /\ pc' = "done"
    /\ UNCHANGED <<envVars, status, cgi, path, m_file_size, fdVars, sendVars, runs>>

-----------------------------------------------------------------------------
Handler ==
    \/ Stat \/ StatIndex \/ Open \/ Reopen \/ Cgi \/ Helper \/ BuildErrorHeader
    \/ Send \/ Close \/ CloseSocket

Next == Edit \/ Reset \/ Handler

Spec == Init /\ [][Next]_vars

\* The thread is scheduled, and CGI programs end.
FairSpec == Spec /\ WF_vars(Handler)

-----------------------------------------------------------------------------
(* Properties.                                                             *)

Got  == 1..Len(fds)
Left == Got \ closed

TypeOK ==
    /\ site \in Site /\ edits \in 0..MaxEdits /\ alive \in BOOLEAN
    /\ pc \in {"stat", "statIndex", "open", "reopen", "cgi", "helper", "page",
               "send", "close", "hangup", "done"}
    /\ status \in {200, 400, 404, 500}
    /\ cgi \in BOOLEAN /\ path \in {"name", "index"}
    /\ fds \in Seq((Site \ {"none", "dirFile", "dirExec"}) \cup Pages \cup {"pipe"})
    /\ closed \in SUBSET Got
    /\ m_fd \in {Uninit, 0} \cup Got
    /\ m_file_size \in {Uninit, Size, DirSize}
    /\ header \in Seq([page : Pages, size : {Uninit, Size, DirSize}])
    /\ todo \in Seq({PAGE_400, PAGE_404, PAGE_500})
    /\ body \in Seq({1, 2}) /\ blocks \in 0..(Size + DirSize + 2)
    /\ runs \in Seq([code : {200, 404, 500}, left : {0, 2, 4}])

\* What sendfile reads and close releases is -1 or a descriptor this request
\* has opened and not closed yet.  m_fd and m_file_size start out
\* uninitialised, and each path must get past that: a size nobody has set is
\* used only if a bad or unknown request was to get an error page and each
\* page that could be opened was gone before its stat.
DescriptorInHand ==
    pc \in {"send", "close"} /\ ~cgi =>
        /\ m_fd \in {0} \cup Left
        /\ m_fd # 0 /\ m_file_size = Uninit =>
              /\ status \in {400, 404} /\ header # <<>>
              /\ \A k \in DOMAIN header : header[k].size = Uninit

\* A 200 that is no CGI answer has the site's own page behind it, a 400 and a
\* 500 have their error pages or none, and a 404 an error page or none (which
\* one, AnnouncedPageIsSent says): open is called twice, and each call may
\* fail or find something else than stat did.
PageMatchesStatus ==
    pc \in {"send", "close"} /\ ~cgi =>
        /\ status = 200 => m_fd \in Left /\ fds[m_fd] \notin Pages
        /\ status = 400 /\ m_fd # 0 => fds[m_fd] = PAGE_400
        /\ status = 404 /\ m_fd # 0 => fds[m_fd] \in Pages
        /\ status = 500 /\ m_fd # 0 => fds[m_fd] = PAGE_500

\* What a request leaves open for good: one descriptor unless it took the
\* CGI way, and then the pipes of runs that failed and its error pages.
LeakBound ==
    pc = "done" =>
        Cardinality(Left) <=
            IF ~cgi THEN 1
            ELSE IF runs = <<>> THEN Len(header)
            ELSE runs[1].left + runs[2].left + Len(header)

\* Every request is over some day, whatever is refused, edited or reset.
RequestEnds == <>(pc = "done")

-----------------------------------------------------------------------------
(* What the sources say of the answer and the code does not do.            *)

\* protocal.cc:430, "what to do is determined by the status code": the page
\* whose length the headers announce is the page that is sent.
AnnouncedPageIsSent ==
    pc = "close" /\ header # <<>> => m_fd > 0 /\ fds[m_fd] = header[1].page
=============================================================================
