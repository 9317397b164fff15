# A verification project for myHttpServer

TLA+ models of the web server in this repository, the TLC runs that check
them and the proofs that TLAPS checks. Paths such as `src/thread_pool.cc` are
relative to the root of the repository.

## 1. The system

One process, built from `http_server.cc`, `protocal.cc`, `tcp_server.cc`,
`thread_pool.cc`, `util.cc`, `log.cc` and `main.cc`. The main thread accepts
connections and puts one `Task` per connection in a queue; three worker
threads take tasks from it. A worker reads one request, answers it and closes
the socket. Sockets of accepted connections do not block. A request for an
executable, or a POST, is answered by a child process.

| component | its state | its operations | works with |
|---|---|---|---|
| Thread pool (`thread_pool.cc`, `task.h`) | `m_q`, `m_mutex`, `m_cond`, the program counters of the threads | `InitThreadPool`, `PushTask`, `ThreadRoutine` | called by the accept loop, calls the handler |
| Accept loop (`http_server.cc`) | `idlefd`, and through the kernel the descriptor table and the backlog | `Loop` and its EMFILE branch | calls `PushTask`; shares descriptors with all handlers |
| Request reader (`protocal.cc`, `util.cc`) | the socket's bytes, the line being read, `m_stop`, `m_http_request` | `RecvHttpRequest` and all it calls, `ReaLine`, `Cutstring` | the client sends while it reads |
| Response builder and sender (`protocal.cc`) | `m_fd`, `m_file_size`, status, headers, body, `wwwroot` | `BuildHttpResponse`, `BuildResponseHelper`, `BuildErrorHeader`, `NotCgiProcess`, `SendHttpResponse` | the file system and the client change under it |
| CGI (`protocal.cc`) | two pipes per run, the copies of the ends in the children, the child's environment and its copy of stdout's buffer | `CgiProcess`, in the parent and in the child | children of all workers inherit from one process |
| Program start, listening socket (`main.cc`, `tcp_server.cc`) | two `HttpServer` objects with a reserve each, the listening descriptor | `main`, `InitServer`, `Socket`, `Bind`, `Listen` | runs before the accept loop and fills the descriptor table |
| Log (`log.cc`) | loggers, appenders, parsed patterns | `log`, `addAppender`, `init` of the pattern, ... | called from every thread |
| Timer heap (`timer.cc`) | a binary heap of timers in an array | both constructors, `add_timer`, `del_timer`, `pop_timer`, `tick`, `resize`, `percolate_down` | callbacks call it back; nothing in the server uses it, it is in no build |
| `wwwroot/test_cgi.cc`, `WebBench/` | - | - | an example, a vendored load generator |

What is hard to get right here, and hard to test:

* **threads** - the mutex, the lost and spurious wake-ups of the condition
  variable, and a size that is read outside the mutex (`thread_pool.cc:36`);
* **bytes in flight** - a socket that does not block, read while the client
  still sends, with a peek behind every CR (`util.cc:16`);
* **failure halfway** - `open`, `pipe`, `fork` fail one by one, each leaves
  something open or unset, and members start out uninitialised;
* **the file system changes** between `stat` and two calls of `open`;
* **the limit of descriptors** - shared by every thread, with a loop that
  closes a number it may no longer own;
* **inheritance** - children of one worker hold the pipes of the others, and a
  copy of what other threads have logged and not yet flushed;
* **callbacks** - a timer's callback may change the heap that `tick` is in the
  middle of.

What makes each component correct: the pool neither loses, doubles nor
overtakes a task and does not leave one behind while all workers sleep; the
reader gives back the lines that were sent and stops at the blank line; the
builder sends a page that fits the status and closes only what it has opened;
the CGI answer is the whole output of one's own child; the accept loop never
closes somebody's descriptor and gives every client an end; the log prints
what the pattern says, never without a formatter, and a file it says is open
has the lines; the timer heap calls timers in order, none early, and deletes
the one it has called.
`PROJECT.json` lists the hazards by line, each with the properties aimed at it.

## 2. The modules

| module | models | its variables are |
|---|---|---|
| `TaskDispatch` | what the pool promises: a queue, idle servers take the oldest task, each task handled once | abstract |
| `ThreadPool` | the pool, one action per access to shared state | `m_q`, `m_mutex`, the threads' positions and locals; the histories `pushed`, `served`, `handled`, `missed` |
| `MCThreadPool` | its instances for TLC | |
| `ThreadPoolProofs` | the theorems about it | |
| `RequestReader` | one request read from a socket that fills meanwhile | the stream and how far it has arrived; `pos`, `line`, `m_stop`, `m_request_header`, `m_header_kv`, `request`; the histories `lines`, `cuts`, `ready`, `garbage` |
| `MCRequestReader` | the streams TLC explores | |
| `Responder` | one answer, one action per call that can fail | `site` and `alive` are the world; `m_fd`, `m_file_size`, `status`, ... the members; `fds`, `closed` every descriptor the request got and gave back |
| `MCResponder` | which error pages the site has | |
| `Server` | the program from `main` to the accept loop, composed with the pool (an instance of `TaskDispatch`), the descriptor table, and the handlers as users of descriptors | `table`, `backlog`, `idlefd`, `errno`, position of the loop, the pool's `queue` and `running`, `file` per worker, `stuck` |
| `MCServer` | the order in which clients connect | |
| `Cgi` | `CgiProcess` in several workers at once, with the children | which pipe ends the server and each child hold, `environ`, what is in the output pipes and in `m_response_body` |
| `MCCgi` | what each worker is asked for | |
| `LogFormatter` | `LogFormatter::init` as a pure algorithm, and the grammar of `log.cc:329` it should follow | none |
| `Logger` | loggers, appenders and a log file, used by one thread | `m_appenders`, `m_formatter`, `own` (the formatter of each appender), `level`, `stream` and `file` |
| `MCLogger` | the patterns TLC explores | |
| `TimerQueue` | what a timer container promises its users | abstract |
| `TimerHeap` | the heap of `timer.cc`, with callbacks in the middle of `tick` | `array`, `cur_size`, `expire`, `cb_func`, the clock; the histories `made`, `freed`, `called` |
| `MCTimerHeap` | symmetry for TLC | |
| `CgiProofs`, `ServerProofs`, `ResponderProofs`, `RequestReaderProofs`, `LoggerProofs`, `TimerHeapProofs` | the theorems about these modules | |
| `LeastElement` | the lemmas that several of them share: a set of numbers has a least element, and induction over an interval, upwards and downwards | |

`ThreadPool` and `TaskDispatch` are related by refinement
(`ImplementsTaskDispatch`), and `TimerHeap` and `TimerQueue` likewise
(`ImplementsTimerQueue`). `Server` is composed with the abstract pool: its
`Accept4` is `Pool!Submit`, a worker's `Dispatch` and `Finish` are those of
`TaskDispatch` (`UsesThePool` proves that nothing else in `Server` touches the
pool); the refinement is what justifies putting the simple pool in the place of
the real one. It takes from `Responder` that a handler leaves a bounded
number of descriptors open (`LeakBound`; `Opens` and `Leaves` in `Server`).
`Responder` takes from `RequestReader` what parsing leaves (status 200 or 400,
`m_cgi` set by POST), and from `Cgi` how a run can end.

### Choices that matter

*The unlocked size.* `std::queue` sits on `std::deque`. A pop inside a block of
the deque is one store, so a concurrent `size()` sees the value before or
after it. A pop that leaves a block changes several words and frees the block:
a read that overlaps it may give any value (`TornRead`), so the signal may be
left out. The model counts those signals in `missed`.

*The uninitialised members.* `EndPoint(int)` does not set `m_stop`, no
constructor sets `m_fd` or `m_file_size`. `m_stop` starts with either value
(remembered in `garbage`); the other two start as `Uninit`. `DescriptorInHand`
says that nobody uses an unset `m_fd`, and when an unset `m_file_size` gets to
`sendfile`: on the ways to a 400 and a 404 only `BuildErrorHeader` sets it, and not
if the page is gone when `stat` looks for it (`protocal.cc:460`).

*Descriptors.* The kernel gives the lowest free number, and `accept4` looks for
a number before it looks for a client: EMFILE does not need a client.

*errno.* Any error of `accept4` but EMFILE ends the process, whether or not a
client is there: one that has gone, or ENFILE, ENOBUFS, ENOMEM (`Fails`); the
`accept` of the EMFILE branch fails with the same errors and goes on.
`http_server.cc:32` logs before `errno` is looked at. If the console
can be written (`console`), EMFILE is seen as EMFILE; if not, the failed write
may have replaced it, and the process ends as for any other error. The variable
`errno` says which it was, until the round is over.

*Handlers that wait for ever.* `CgiProcess` may never see the end of its
program's output (`EveryRunEnds`). In `Server` any handler may stop for good
(`Block`, remembered in `stuck`).

*Ends of files and pipes.* A read of a pipe ends when nobody can write to it,
and "nobody" includes the children of other workers: pipes are not
close-on-exec.

*The child of a fork.* It has a copy of stdout's buffer, with what other threads
may have logged and not flushed: the model lets the child have inherited such
text or not. The child of a POST writes a line to `cerr` (`protocal.cc:249`), and
`cerr` is tied to `cout`, so that text goes into the pipe before the program
starts. In the child of a GET nothing flushes it before `execl` succeeds; if
`execl` fails, its message does (`Printed`). `putenv` is given the text of a string: that
of `METHOD` lives until `execl`, that of the second entry ends with its block
(`protocal.cc:244`), and what is in its memory at `execl` is one of `Freed`.
`CgiProcess` is modelled with an empty body, as `RequestReader` shows that no
body is ever read: the header lines go into a copy (`KeepHeader`,
`protocal.cc:98`), and what would be parsed of them into another (`KeepHeaderKv`,
`protocal.cc:158`).

*Bytes.* A byte in `RequestReader` is what the code distinguishes: CR, LF, a
word, a piece of a URL, the text of a header, a byte of the body.

*Patterns.* Of a character the parser asks whether it is `%`, `{`, `}` or a
letter. `Items` is the code's scan from left to right; the reference
(`Readings`) knows nothing of a scan: it cuts the pattern in every possible way
and keeps the cuts whose pieces are texts or one of the three forms of the
comment, `%name`, `%name{format}` and `%%`.
`IsReadRight` says that a pattern has at most one reading, that `Items` finds it,
and that an error is reported exactly for a pattern without a reading or with a
name nobody knows. `PatternReadRight` asks it of every pattern without two percent
signs in a row (`Escaped`): of `%%` the code makes something else than the comment
(section 4). The scan is a recursive function of the number of turns
(`Scans`), so that it can be proved about.

*The log file.* `ofstream` keeps an error bit until `open` succeeds; `close`
without an open file sets one, `open` with an open file fails. `file` counts
what the stream has taken, since buffers hide when a line reaches the disk.

*The hole.* The loops of `add_timer` and `percolate_down` move a hole through
the array and fill it last. `Rise` and `Sink` say for each place where the hole
goes from there, to itself where the loop ends; `Way` is the set of places it
comes to, and `Shift` what the array is when it has come to rest.

*The timer heap.* `timer.cc` does not compile (`timer->->cb_func`, `chile`,
`percalate_down`) and is read as it is plainly meant. Its users are assumed to
do what its interface is for: a timer is added when it is made, `del_timer` is
called with timers still in the heap, a callback may add and delete timers but
does not call `pop_timer` or `tick`, delays are not negative and the clock does
not go back. A write past the array ends the model (`overrun`).

Faulty variants of a definition stand right before it, under a comment that
begins with "Faulty variant". They are not part of any specification: each is
there to show that some property of the module would notice that mistake.

## 3. The runs

| run | instance | what it shows |
|---|---|---|
| `pool` | 3 workers (`NUM`), 3 connections, blocks of 2 slots, any thread creation may fail | types, order, single handling, no stranded task, work conservation, refinement of `TaskDispatch`, every queued task handled |
| `reader` | 6 typical streams and every stream of up to 5 words, CRs and LFs, every way to cut them up, hang-up at any point (137,314 states) | `LinesAsSent`, `NeverReadsPastHeaders`, `ParsedAtHeaderEnd`, `CompleteRequestAnswered`, `HandlerReturns` |
| `reader_split` | 5 typical streams, the rest as before | **violated**: the request line's late LF is a blank line, and the headers are not read |
| `reader_body` | as `reader_split` | **violated**: the body of a POST is not read |
| `answer` | 6 kinds of resource, 2 edits during the request, all error pages there, though each may be gone when `stat` looks (18,900 states) | `DescriptorInHand`, `PageMatchesStatus`, `LeakBound`, `RequestEnds` |
| `answer_404` | the site as shipped (404.html only) | **violated**: another page, or none, follows the headers |
| `server` | 3 clients, 2 workers, 4 descriptors, a backlog of 2, up to 2 files per handler of which 1 is left open; with and without reserves at the start, a `dev/null`, a working console; errors of `accept4` and `accept` with and without a client, handlers that stop for good (229,000 states) | `DescriptorsKept`, `IdleFdIsOurs`, `DescriptorsAccounted`, `OneDescriptorLeft`, `ClientGetsAnEnd` |
| `server_emfile` | 3 clients, 1 worker, 3 descriptors | **violated**: a later round at the limit closes nobody though clients wait, as `dev/null` could not be opened again |
| `cgi` | 3 workers: a POST to a program, a GET of a resource that cannot be executed, and a GET of a program or a filter; one unit of output (1,070,000 states) | `WholeOutput`, `OutputUnmixed`, `EndsClosed`, `WaitsForChildOnly`, `EveryRunEnds` |
| `cgi_parameter` | 1 worker, GET and POST, freed strings kept or lost | **violated**: the program may find no `PARAMETER` |
| `log` | root and one more logger, console and file, 4 calls, all 781 patterns of up to 4 characters over 5 (152,000 states) | `PatternReadRight`, `AppendersCanPrint`, `LinesReachFile` |
| `timer` | 5 timers with 3 delays, heaps made with room for 0, 1 and 5, empty or from any array, callbacks that add and delete (466,000 states) | `HeapOrder`, `EntriesLive`, `RoomUnlessNone`, `NothingDueIsLeft`, `ImplementsTimerQueue` |

### Why the bounds are enough

* Pool: three connections cross a block border with blocks of two slots while
  two more are queued or being pushed; three workers give a popper, a sleeper
  and one on its way. What the invariants say is proved for all sizes.
* Reader: up to five tokens cover every order of line endings around and behind
  one word and two blank lines. Each longer stream stands for a class - CR LF
  with and without a body, LF only with a query, CR only with an unknown method,
  a blank first line, no blank line. Every prefix may have arrived at every step.
  What the invariants say is proved for all streams.
* Answer: one edit between `stat` and the first `open`, one between the two.
  Files have two blocks, so a partial `sendfile` differs from a whole one.
* Server: two of the four descriptors go to main's unused reserve and the
  listening socket, two remain for the reserve, sockets and files; three if
  `/dev/null` could not be opened at the start. With three clients and two
  workers one is served, one waits in the queue or is turned away, one waits in
  the backlog, and a worker may open or leave a file at each step of the loop.
  Clients are numbered in the order in which they connect, which loses nothing:
  they differ in nothing else. What the invariants say is proved for all sizes.
* CGI: three workers allow a chain of waits (the first for the child of the
  second, the second for that of the third). One of them runs a plain program,
  one something that cannot be executed, one a program or a filter, so each kind
  of child meets the others in every order. One is a POST, whose child flushes
  what it has inherited, two are a GET. What the invariants say is proved for all
  programs and methods.
* Log: four characters have a text on either side of a directive, an empty
  name, braces with and without an end, and two percent signs; any pattern may
  be set by the first call, a good and a faulty one (`Again`) by later calls.
  Four calls can add, open, write and open again. What the invariants say is
  proved for any patterns and any number of calls.
* Timers: five make a heap of three levels whose last parent has one child or
  two; room for one is doubled three times, room for none is the case of
  `resize` that fails. A clock that moves once, with delays of 0, 1 and 2, makes
  timers that are due now, due at the next tick, and not due. What the
  properties say is proved for all sizes.

Deadlock is not checked: every instance has a bounded number of clients and
stops when they have been served. That nothing stops earlier is what the
liveness properties say.

### Fairness

Weak fairness of each thread's code, and nothing else: the operating system
runs every thread that can run. For the pool it is fairness of `PushTask` and
of each worker's `ThreadRoutine` - not of the mutex, which may prefer the same
worker for ever, and not of spurious wake-ups. For the server it is fairness of
the loop and of each worker whose handler has not stopped for good: that reading
and answering end is `HandlerReturns` and `RequestEnds`, and `EveryRunEnds` says
when a filter holds a worker for ever. `ClientGetsAnEnd` states what such
workers may cost: the clients they have, everybody when all workers have
stopped, and those outside when they hold the last descriptors and there is no
reserve, or the `accept` that is to use it fails without end. Nothing is assumed
of clients, nor that `accept4` fails or a file is opened. In `Cgi` the parent
and the child are scheduled and a program that needs no more input ends by
itself; a filter ends when its input does. Nothing obliges a program to write.

## 4. Disagreements between the sources and the code

Five have a run (the findings of `PROJECT.json`):

1. `util.cc:16` ignores the result of the peek (`reader_split`).
2. `protocal.cc:98` pushes headers onto a copy, and `protocal.cc:158` the parsed
   ones into another, so a POST has no body (`reader_body`).
3. `protocal.cc:438` falls through from 404 to 500 (`answer_404`).
4. `http_server.cc:42` opens the relative `dev/null` (`server_emfile`).
5. `protocal.cc:244` gives `putenv` the text of a string that is freed before
   `execl` (`cgi_parameter`).

Others are visible in the model's actions, and have no run of their own:

* In the pool, `thread_pool.cc:36` reads the size outside the mutex (`ReadSize`,
  `TornRead`). The consequence is at worst a signal that is left out, and
  `NoStrandedQueue` still holds. All workers contend for one mutex (`Lock`)
  although README.md:24 says otherwise.
* In `Cgi`, the parent closes the program's input only after it has read its
  output to the end (`protocal.cc:294`). A program that reads its input to the
  end waits for the parent, and the parent for it: `EveryRunEnds` states exactly
  which runs this may keep from ending, those of other workers whose output
  the program has inherited included. A resource that cannot be executed is
  answered with status 200 and the child's message, behind whatever log text the
  child had inherited, and such text may come in front of any answer to a POST
  (`Printed`, `OutputUnmixed`).
* In `Responder`, the headers of a 200 go into a copy (`Build200header`),
  `CgiProcess` and `NotCgiProcess` run twice (`Cgi`, `Open` and `Reopen`), and
  one `sendfile` may send part of a page (`Send`). An error page that goes away
  behind its `open` is announced and sent with the size that was there before,
  which may be unset (`BuildErrorHeader`, `ToSend`). Every connection is closed
  after one answer (`CloseSocket`) although README.md:23 speaks of long
  connections.
* In `RequestReader`, a request line that cannot be read leaves the status at
  200 (`ReadFails`), and a connection without bytes is dropped at once (`Start`,
  `ReadFails`) although README.md:22 speaks of events.
* In `Server`, the `accept` of the EMFILE branch waits for a client
  (`AcceptIdle`) that is then turned away even if descriptors are free again,
  and `errno` is read after the log has written (`Emfile`). Errors of `accept4`
  that pass by themselves, such as ENFILE, end the process (`AcceptError`). The
  listening socket and connections accepted at `http_server.cc:40` are inherited
  by CGI programs; the descriptors of other processes are not modelled.
* In the log, the comment on `init` (`log.cc:329`, `%xxx %xxx{xxx} %%`) lists `%%` as
  a form of its own. The code takes the first percent sign as text and goes on at
  the second: `%%` alone is an error, and `%%m` prints a percent sign and the
  message where the comment's form would print the letter. `PatternReadRight`
  leaves such patterns out (`Escaped`); `getLogger` compares the
  result of `find` with itself and makes a new logger every time (`GetLogger`);
  after a failed write `reopen` does not close the file, so it can never succeed
  again (`Reopen`); and text before a brace that is never closed comes behind
  the error text (`Scan` appends `PatternError` without a `Flush`).
* In the timer heap, a capacity of 0 stays 0 when it is doubled
  (`RoomUnlessNone` says that this is the only way past the array).

## 5. The proofs

Seven modules hold theorems, one for each component (`LoggerProofs` has the
pattern parser too); `LeastElement` holds lemmas. They hold for all values of the
constants that satisfy the `...Assumption` of the module, and each follows the
same plan: an invariant `IInv` whose named parts are stated at the head of the
module, lemmas that the first states have it and that each step keeps it (one case per
action), and theorems
that draw the properties from it.

`ThreadPoolProofs` proves, for any finite set of workers, any set of
connections and any block size, from the assumptions in `PoolAssumption` (the
workers are finitely many and at least one, the names are distinct, the block
size is positive):

| theorem | says |
|---|---|
| `TypeCorrect` | `Spec => []TypeOK` |
| `ControlCorrect` | `Spec => []ControlInv` |
| `Fifo` | `Spec => []FirstInFirstOut` |
| `SingleHandling` | `Spec => []HandledOnce` |
| `NoLostWakeup` | `Spec => []NoStrandedQueue` |
| `WorkConserving` | `Spec => []WakeupPerTask` |
| `PoolImplementsDispatch` | `Spec => ImplementsTaskDispatch` |

The inductive invariant has two layers. `ControlInv` ties program counters to
the mutex (`LockInv`: whoever is between `Lock` and `UnLock` owns it, nobody
else), to the locals (`LocalsInv`: between `front` and `pop` the worker holds
the head of the queue) and to the order of start-up. Without it a step of one
worker could change the queue between `front` and `pop` of another.
`HistoryInv` adds that no task is pushed twice and that what workers hold or
have finished was popped: that is what makes `HandledOnce` inductive, because a
task popped now was never popped before (`HeadNotServed`). `NoStrandedQueue` is
inductive over `ControlInv` alone. For `WakeupPerTask` each step is a count:
the workers on their way (`Coming`) grow by one with a signal and shrink by one
with a pop, and a torn read moves the debt of main to `missed`. The refinement
maps the second half of `PopTask` to `Dispatch`, `Handle` to `Finish`, `Push` to
`Submit`, and everything else to a stutter.

The other modules, with `TypeCorrect` in each:

| module | theorem | says |
|---|---|---|
| `CgiProofs` | `WholeAnswers` | `Spec => []WholeOutput` |
| | `EndsAreClosed` | `Spec => []EndsClosed` |
| | `NobodyWaitsForItself` | `Spec => []WaitsForChildOnly` |
| | `OutputIsPure` | `Spec => []OutputUnmixed` |
| `ServerProofs` | `NothingClosedUnderItsUser` | `Spec => []DescriptorsKept` |
| | `IdleIsOurs` | `Spec => []IdleFdIsOurs` |
| | `OneIsAlwaysLeft` | `Spec => []OneDescriptorLeft` |
| | `NothingElseIsLost` | `Spec => []DescriptorsAccounted` |
| | `UsesThePool` | `Spec => Pool!Spec` |
| | `ClientsServedInOrder` | `Spec => []ServedInOrder` (stated in `ServerProofs`) |
| `ResponderProofs` | `DescriptorSafe` | `Spec => []DescriptorInHand` |
| | `RightPage` | `Spec => []PageMatchesStatus` |
| | `LeaksBounded` | `Spec => []LeakBound` |
| `RequestReaderProofs` | `LinesAreTheClients` | `Spec => []LinesAsSent` |
| | `StopsAtHeaders` | `Spec => []NeverReadsPastHeaders` |
| | `ParsedBehindHeaders` | `Spec => []ParsedAtHeaderEnd` |
| | `CompleteIsAnswered` | `Spec => []CompleteRequestAnswered` |
| `LoggerProofs` | `PatternsAreReadRight` | `Spec => []PatternReadRight` |
| | `PrintingIsSafe` | `Spec => []AppendersCanPrint` |
| | `FileIsComplete` | `Spec => []LinesReachFile` |
| `TimerHeapProofs` | `HeapKeepsOrder` | `Spec => []HeapOrder` |
| | `HeapKeepsEntries` | `Spec => []EntriesLive` |
| | `RoomOnlyLacksAtZero` | `Spec => []RoomUnlessNone` |
| | `TickIsThorough` | `Spec => NothingDueIsLeft` |
| | `HeapImplementsQueue` | `Spec => ImplementsTimerQueue` |

* **Cgi.** `ServerEnds` says which ends of its pipes a worker has open at each
  point, `ChildEnds` that a child has the write end of its output for as long as
  it lives. The end of the output, which is what the parent waits for, then
  comes only when the child has ended, whoever else has inherited the pipe; and
  whoever still holds it while the parent waits is a child, since the server has
  closed its own copy (`EndsInv` when `pc[w] = "read"`). `OutputInv` says what a
  child has written by what it has become and the method it was started with
  (`WrittenBy`): first what it puts out itself (`PrintedIs`), then the output of
  its program, which a write only makes longer (`AppendOutput`). It takes what
  the parent has read and what is still in the pipe together: reading moves an
  item from one to the other and changes nothing (`ReadMoves`).
* **Server.** `DescriptorsKept` is not inductive: to know that closing a number
  hurts nobody one has to know what the number stands for. `IdleInv` ties
  `idlefd` to the table, `SocketInv` a socket in the table to a client in the
  pool's hands, `PoolInv` those to the queue and the workers, each once, and
  `BacklogInv` keeps a client from being accepted twice. `StartInv`, proved
  separately, says what a process that has not listened yet looks like. For
  `OneDescriptorLeft` the argument is that nothing has been left before the
  listening socket exists, that a worker that leaves a file still has the
  socket of its client, and that no step turns the last descriptor that is not
  left into one that is: what is closed becomes free, and free counts.
  `DescriptorsAccounted` is a count: `UsersInv` gives each open file a handler
  and the reserve to `idlefd`, one bijection pairs live clients with sockets,
  another busy handlers with files, and the kinds of use are disjoint
  (`Accounts`). `ServedInOrder` relates the two queues a client passes: whoever a
  worker has taken is never ahead of one that connected before and is still
  waiting, in the kernel's queue or in the pool's. `WaitingInv` puts the backlog
  between those that were accepted and those still to come, `QueueInv` the
  pool's queue behind those that were taken; each is in the order of arrival.
  It says nothing of the order in which the answers end, which the workers
  do not keep.
* **Responder.** `FlowInv` says which way a request has taken, `FilesInv` how
  many descriptors it has on each and where `m_fd` points, `RunsInv` counts what
  runs of `CgiProcess` have left. Without the count of descriptors at each
  point `LeakBound`, which looks only at the end, says nothing about a step.
* **RequestReader.** The positions of the stream are sorted into `Ends`, `Plain`
  and `Blank`, sets that never change. `ReadInv` says that no end of a line lies
  between the start of the line that is being read and the position of the
  reader, except under a peek, and that an empty line has consumed nothing but
  endings; so the blank line is recognised where it ends and not behind.
  `LineInv` says that the line in hand is exactly what lies behind the last end,
  without the CR under a peek; with it `LinesAsSent` is inductive.
  `DoneInv` is what remains when reading is over.
* **Patterns.** `ReadRight` is a lemma about every sequence of characters, whose
  only assumptions are `FormatterAssumption`: letters are none of the three marks,
  names are made of letters and not empty. `ReachedInduction` turns the recursive
  function into an induction over the turns of the loop. One direction follows a
  reading through the loop: `TakePiece` says that a turn, or one turn for each
  character of a text, takes exactly the next piece, because what follows a piece
  ends it (`Fits`) and a run of characters has one end (`EndOfRunUnique`); so
  every reading is what the loop finds (`ReadingIsFound`), and there is only one.
  The other direction is the invariant `Readable` of the loop: either an error has
  been noted, which stays, or what has been taken is cut into pieces that fit
  (`Partial`), the last of them a text exactly if `nstr` is not empty. `AddPiece`
  and `ExtendText` are its steps, and `NoErrorIsReading` its end. That names are
  not empty is needed: `%` alone would otherwise be a directive to the loop and
  to no reading.
* **Logger.** `FormattersInv` says that no formatter with an error is in
  anybody's hands, `AddedInv` that whoever was added has one. Whether a pattern
  has an error (`IsError`) is never expanded. `LinesReachFile` is inductive
  together with the types.

* **TimerHeap.** The loops are proved, not only the steps: nothing is assumed
  about where the hole stops. The prover takes no induction over a predicate,
  but `LeastElement` states it with a set in the predicate's place
  (`IntervalInduction`, `DownwardInduction`), and that is enough to unroll
  recursive functions. `HolesIs` does it for the places of the hole, `WayIs`
  concludes that a way along which something shrinks (the place itself upwards,
  the distance to the end downwards) is closed, comes to rest and has a
  predecessor for each place but the first. From this `ShiftKeeps` draws that a
  shift loses and doubles nothing, and `HoleRises` and `HoleSinks` that it leaves
  order: on the way up each place behind the hole held a timer that expires later
  than the new one, on the way down each holds one that expires earlier than the
  sinking one, and its sibling not before it (`LeastChild`). `HeapifyOrders` is
  the constructor's loop, whose invariant is order from place `i` downwards
  (`OrderFrom`), from the last parent to the root. In the state machine,
  `EntriesLive` with its count is what tells that the timer on top is nowhere
  else, so that `pop_timer` takes out one and only one (`PopIs`); `CallInv` says
  that the timer whose callback is running stays on top, since what is added
  meanwhile is due no earlier than now. The refinement needs it: `PopDue` must
  delete the timer that was called. `TopIsEarliest`, an
  induction along parents, turns the local order into the statement about all
  timers that `TickIsThorough` and `HeapImplementsQueue` need.

Only model-checked: all liveness (`HandlerReturns`, `RequestEnds`,
`ClientGetsAnEnd`, `EveryRunEnds`, `QueuedTaskIsHandled`), which the prover does
not do.

## 6. What is not modelled

* Content types, reason phrases and header texts: no property looks at them.
* The body that would be written to a CGI program: it is always empty.
* The second run of `CgiProcess` in a request, as `Cgi` has one run for each worker
  (`Responder` has both); more than one open file of a handler at a time in
  `Server`, where a run of `CgiProcess` holds four pipe ends.
* A client that sends without end: the streams of `RequestReader` are finite.
* `tick` on a heap of capacity 0, which reads the place it does not have.
* The log as seen by the server: its output mixes on the console and has no
  effect on the state of the server. In `Logger` there is one thread: `log`
  changes nothing in a logger, only the streams.
* What the items of a pattern print; the order in which threads' lines mix on
  the console; `setFormatter` with a formatter built elsewhere, which nothing in
  the repository calls; `LogEvent::format`, which only appends to the text of
  one event.
* The check of `main`'s arguments; `singleton.h`, a function-local static; the
  lock of `GetTcpServer` and of `GetThreadPool`, each called once, before there
  is a second thread.
* The destructors: of the pool, never reached; of the timer heap, its end.
* A process in which no worker could be created: `Server` takes at least one
  (`ThreadPool` has the other case).
* `WebBench/`, the CGI example and the rest of `wwwroot/`: programs and pages of
  their own, which keep no state for the server.

## 7. Plan

1. Done: all components of the server and the timer heap, each with its runs;
   the pool and the timer heap as refinements of what they promise; the proofs
   of section 5.
2. The process as a whole: `ThreadPool` in place of `TaskDispatch` under
   `Server`, for a run with one worker, to see the loop and a late worker meet.
