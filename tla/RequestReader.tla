---------------------------- MODULE RequestReader ----------------------------
(***************************************************************************)
(* Reading and parsing one request: EndPoint::RecvHttpRequest and all it   *)
(* calls in src/protocal.cc, on top of Util::ReaLine in src/util.cc.  The  *)
(* socket does not block, so a recv that finds the buffer empty fails at   *)
(* once; the client's bytes arrive while the handler is reading.           *)
(*                                                                         *)
(* A "byte" is what a definition here looks at: CR, LF, a word of the      *)
(* request line or a piece of its URL, a header line's text, a byte of the *)
(* body.  White space and the version of the request line are left out.    *)
(***************************************************************************)
EXTENDS Naturals, Sequences, FiniteSets, Functions

CONSTANTS
    Messages,     \* the byte streams clients send
    ContentLength \* the value of a Content-Length header

CR == "CR"
LF == "LF"
ContentLengthHeader == "Content-Length"

ASSUME ReaderAssumption ==
    /\ \A m \in Messages : m \in Seq(STRING)
    /\ ContentLength \in Nat

VARIABLES
    stream,  \* what this client sends if it does not hang up first
    arrived, \* how many of its bytes have reached the socket
    fin,     \* the client has closed its end
    pos,     \* how many bytes the handler has consumed
    pc,      \* where the handler is
    peek,    \* ReaLine has consumed a CR and is about to look behind it
    line,    \* the line ReaLine is reading
    m_stop,
    m_request_header, \* the header lines kept for ParseHttpRequestHeader
    m_header_kv,      \* the headers IsNeedRecvHttpRequestBody finds
    m_request_body,
    request, \* what the parsing leaves in m_http_request and m_http_response
    lines,   \* history: the lines read, each with the position where it ended
    cuts,    \* history: CRs behind which the peek found nothing yet
    ready,   \* history: how much had arrived when the handler started
    garbage  \* history: what the memory of m_stop held

clientVars == <<stream, arrived, fin>>
parseVars  == <<m_request_header, m_header_kv, m_request_body, request>>
histVars   == <<ready, garbage>>
vars == <<clientVars, pos, pc, peek, line, m_stop, parseVars, lines, cuts, histVars>>

NoRequest == [method |-> "", path |-> <<>>, parameter |-> <<>>, cgi |-> FALSE,
              status |-> 200]

\* EndPoint(int sock) initialises m_sock only: m_stop holds what the memory
\* of the new EndPoint held before.
Init ==
    /\ stream \in Messages
    /\ arrived = 0 /\ fin = FALSE /\ pos = 0
    /\ pc = "queued" /\ peek = FALSE /\ line = <<>>
    /\ garbage \in BOOLEAN /\ m_stop = garbage
    /\ m_request_header = <<>> /\ m_header_kv = {} /\ m_request_body = <<>>
    /\ request = NoRequest
    /\ lines = <<>> /\ cuts = {} /\ ready = 0

-----------------------------------------------------------------------------
(* The client.                                                             *)

Deliver ==
    /\ ~fin
    /\ pc \in {"queued", "line", "headers"}
    /\ \E n \in (arrived + 1)..Len(stream) : arrived' = n
    /\ UNCHANGED <<stream, fin, pos, pc, peek, line, m_stop, parseVars, lines, cuts, histVars>>

Hangup ==
    /\ ~fin
    /\ pc \in {"queued", "line", "headers"}
    /\ fin' = TRUE
    /\ UNCHANGED <<stream, arrived, pos, pc, peek, line, m_stop, parseVars, lines, cuts, histVars>>

-----------------------------------------------------------------------------
(* The handler.                                                            *)

\* A worker has popped the task and calls HandlerRequest.
Start ==
    /\ pc = "queued"
    /\ pc' = "line"
    /\ ready' = arrived
    /\ UNCHANGED <<clientVars, pos, peek, line, m_stop, parseVars, lines, cuts, garbage>>

Reading == pc \in {"line", "headers"}
Dry == pos = arrived

\* Faulty variant: the handler waits for more, as a blocking socket would.
ReadBlocks ==
    /\ Reading /\ ~peek /\ Dry /\ fin
    /\ m_stop' = TRUE
    /\ pc' = "dropped"
    /\ UNCHANGED <<clientVars, pos, peek, line, parseVars, lines, cuts, histVars>>

\* recv fails or finds the connection closed: ReaLine returns -1 or 0.
ReadFails ==
    /\ Reading /\ ~peek /\ Dry
    /\ m_stop' = TRUE
    /\ pc' = "dropped"
    /\ UNCHANGED <<clientVars, pos, peek, line, parseVars, lines, cuts, histVars>>

\* Faulty variant: the line ending is left on, and a blank line not blank.
AfterLineUntrimmed ==
    IF pc = "line" THEN IF m_stop THEN "dropped" ELSE "headers" ELSE "headers"

\* Faulty variant: a blank line ends the request line's part too.
AfterLineEager ==
    IF line = <<>> /\ ~m_stop THEN "parse" ELSE IF m_stop THEN "dropped" ELSE "headers"

\* What the caller of ReaLine does with a whole line.  RecvHttpRequestLine
\* returns m_stop, which nothing has set; RecvHttpRequestHeader goes on until
\* a blank line.
AfterLine ==
    IF pc = "line" THEN IF m_stop THEN "dropped" ELSE "headers"
                   ELSE IF line = <<>> THEN "parse" ELSE "headers"

\* getRequestHeader() returns a copy, which is where the line is pushed.
KeepHeader == m_request_header

\* ReaLine returns a line that ends with the byte at position p.
EndLine(p) ==
    /\ pos' = p
    /\ lines' = Append(lines, [text |-> line, end |-> p])
    /\ line' = <<>>
    /\ pc' = AfterLine
    /\ m_request_header' = KeepHeader
    /\ peek' = FALSE

RecvChar ==
    /\ Reading /\ ~peek /\ ~Dry
    /\ LET ch == stream[pos + 1] IN
       \/ /\ ch = CR
          /\ pos' = pos + 1
          /\ peek' = TRUE
          /\ UNCHANGED <<line, lines, pc, m_request_header>>
       \/ /\ ch = LF
          /\ EndLine(pos + 1)
       \/ /\ ch \notin {CR, LF}
          /\ pos' = pos + 1
          /\ line' = Append(line, ch)
          /\ UNCHANGED <<peek, lines, pc, m_request_header>>
    /\ UNCHANGED <<clientVars, m_stop, m_header_kv, m_request_body, request, cuts, histVars>>

\* Faulty variant: the byte behind a CR is consumed whatever it is.
PeekEats ==
    /\ Reading /\ peek
    /\ IF Dry THEN EndLine(pos) /\ cuts' = cuts \cup {pos}
              ELSE EndLine(pos + 1) /\ cuts' = cuts
    /\ UNCHANGED <<clientVars, m_stop, m_header_kv, m_request_body, request, histVars>>

\* Faulty variant: a line feed is assumed behind every CR.
PeekAssumesLF ==
    /\ Reading /\ peek
    /\ EndLine(pos + 1)
    /\ cuts' = IF Dry THEN cuts \cup {pos} ELSE cuts
    /\ UNCHANGED <<clientVars, m_stop, m_header_kv, m_request_body, request, histVars>>

\* recv(MSG_PEEK) behind a CR.  A line feed is consumed too; anything else,
\* or nothing at all (ch keeps the CR), leaves the CR alone as line ending.
Peek ==
    /\ Reading /\ peek
    /\ \/ /\ ~Dry /\ stream[pos + 1] = LF
          /\ EndLine(pos + 1)
          /\ cuts' = cuts
       \/ /\ ~Dry /\ stream[pos + 1] # LF
          /\ EndLine(pos)
          /\ cuts' = cuts
       \/ /\ Dry
          /\ EndLine(pos)
          /\ cuts' = cuts \cup {pos}
    /\ UNCHANGED <<clientVars, m_stop, m_header_kv, m_request_body, request, histVars>>

-----------------------------------------------------------------------------
(* Parsing.                                                                *)

First(S) == CHOOSE i \in S : \A j \in S : i <= j

Upper(m) == CASE m = "get" -> "GET" [] m = "post" -> "POST" [] OTHER -> m

Method(l) == IF l = <<>> THEN "" ELSE Upper(l[1])
Url(l)    == IF l = <<>> THEN <<>> ELSE Tail(l)

\* Util::Cutstring for a symbol that occurs.
Cutstring(s, symbol) ==
    LET at == First({i \in 1..Len(s) : s[i] = symbol})
    IN  <<SubSeq(s, 1, at - 1), SubSeq(s, at + 1, Len(s))>>

ParseURL(method, url) ==
    LET parsed(path, parameter, cgi, status) ==
          [method |-> method, path |-> path, parameter |-> parameter,
           cgi |-> cgi, status |-> status]
        cut == Cutstring(url, "?")
    IN  CASE method \notin {"GET", "POST"}  -> parsed(<<>>, <<>>, FALSE, 400)
          [] method = "GET" /\ "?" \in Range(url) -> parsed(cut[1], cut[2], FALSE, 200)
          [] method = "GET" /\ "?" \notin Range(url) -> parsed(url, <<>>, FALSE, 200)
          [] method = "POST"                -> parsed(url, <<>>, TRUE, 200)

\* ParseHttpRequestHeader: getHeaderKv() returns a copy, which is where the
\* headers of m_request_header are inserted.
KeepHeaderKv == m_header_kv

IsNeedRecvHttpRequestBody(method, header_kv) ==
    /\ method = "POST"
    /\ <<ContentLengthHeader>> \in header_kv

\* RecvHttpRequestBody reads what has arrived; too little of it stops.
RecvHttpRequestBody(method, header_kv) ==
    LET need == IsNeedRecvHttpRequestBody(method, header_kv)
        have == IF arrived - pos < ContentLength THEN arrived - pos ELSE ContentLength
        n    == IF need THEN have ELSE 0
    IN  /\ m_request_body' = SubSeq(stream, pos + 1, pos + n)
        /\ pos' = pos + n
        /\ m_stop' = (m_stop \/ (need /\ n < ContentLength))

\* ParseHttpRequestLine, ParseURL, ParseHttpRequestHeader and the body.
Parse ==
    /\ pc = "parse"
    /\ LET l == lines[1].text IN
          /\ request' = ParseURL(Method(l), Url(l))
          /\ m_header_kv' = KeepHeaderKv
          /\ RecvHttpRequestBody(Method(l), m_header_kv')
    /\ pc' = IF m_stop' THEN "dropped" ELSE "answer"
    /\ UNCHANGED <<clientVars, peek, line, m_request_header, lines, cuts, histVars>>

Handler == Start \/ ReadFails \/ RecvChar \/ Peek \/ Parse

Next == Deliver \/ Hangup \/ Handler

Spec == Init /\ [][Next]_vars

\* The worker's thread is scheduled; nothing is assumed of the client.
FairSpec == Spec /\ WF_vars(Handler)

-----------------------------------------------------------------------------
(* Properties.                                                             *)

Line == [text : Seq(Range(stream)), end : 1..Len(stream)]

TypeOK ==
    /\ arrived \in 0..Len(stream) /\ pos \in 0..arrived
    /\ {fin, peek, m_stop, garbage} \subseteq BOOLEAN
    /\ pc \in {"queued", "line", "headers", "parse", "answer", "dropped"}
    /\ peek => Reading /\ stream[pos] = CR
    /\ line \in Seq(Range(stream))
    /\ m_request_header \in Seq(Seq(Range(stream)))
    /\ m_header_kv \in SUBSET Seq(Range(stream))
    /\ m_request_body \in Seq(Range(stream))
    /\ request.status \in {200, 400}
    /\ lines \in Seq(Line)
    /\ cuts \in SUBSET (1..Len(stream))
    /\ ready \in 0..Len(stream)

Ordinary(b) == b \notin {CR, LF}

\* In the stream as the client meant it, position i ends a line.
LineEnd(i) ==
    \/ stream[i] = LF
    \/ stream[i] = CR /\ (i < Len(stream) => stream[i + 1] # LF)

\* Where the blank line behind the headers ends; 0 if there is none.
HeaderEnd ==
    LET ends  == {i \in 1..Len(stream) : LineEnd(i)}
        blank == {i \in ends : \E j \in ends :
                     j < i /\ \A k \in (j + 1)..i : ~Ordinary(stream[k])}
    IN  IF blank = {} THEN 0 ELSE First(blank)

\* ReaLine gives back the client's lines, all of them, whole and in order,
\* for CR LF, LF and CR as endings mixed at will and for every way the bytes
\* arrive; a line ends too early only where the peek came before the bytes.
LinesAsSent ==
    \A k \in 1..Len(lines) :
        LET from == IF k = 1 THEN 1 ELSE lines[k - 1].end + 1
            to   == lines[k].end
            last == IF from < to /\ stream[to - 1] = CR /\ stream[to] = LF THEN to - 2 ELSE to - 1
        IN  /\ LineEnd(to) \/ to \in cuts
            /\ lines[k].text = SubSeq(stream, from, last)
            /\ \A i \in from..last : Ordinary(stream[i])

\* While it looks for the headers' end the handler takes nothing from the
\* socket that lies behind them: what follows is left to the reading of a body.
NeverReadsPastHeaders ==
    HeaderEnd # 0 /\ pc \in {"line", "headers", "parse"} => pos <= HeaderEnd

\* A request is parsed when its headers have been read to the end, not
\* before, unless an early peek has made a blank line out of a CR LF.
ParsedAtHeaderEnd == pc = "parse" /\ cuts = {} => pos = HeaderEnd /\ pos # 0

\* A request that was there when the handler started, with the body it was
\* found to announce, is answered, whatever its line endings, if m_stop
\* happened to start out false.
CompleteRequestAnswered ==
    pc = "dropped" =>
        \/ garbage \/ HeaderEnd = 0 \/ ready < HeaderEnd
        \/ <<ContentLengthHeader>> \in m_header_kv /\ ready < HeaderEnd + ContentLength

\* No client, however silent, holds a worker up while it reads.
HandlerReturns == pc = "line" ~> pc \in {"answer", "dropped"}

-----------------------------------------------------------------------------
(* What the sources say of the reader and the code does not do.            *)

\* protocal.h:170, "read the request headers and the blank line": no line of
\* the headers, one with an ordinary byte in it, is left in the socket.
HeadersReadToBlankLine ==
    pc = "answer" => \A i \in (pos + 1)..HeaderEnd : ~Ordinary(stream[i])

\* protocal.h:176, "read the body": a POST that announces its body, all of
\* it there from the start, is answered with its body read.
PostBodyRead ==
    /\ pc = "answer" /\ request.method = "POST"
    /\ ready = Len(stream)
    /\ \E k \in 2..Len(lines) : lines[k].text = <<ContentLengthHeader>>
    => m_request_body = SubSeq(stream, HeaderEnd + 1, HeaderEnd + ContentLength)
=============================================================================
