------------------------------- MODULE Logger -------------------------------
(***************************************************************************)
(* The loggers and appenders of src/log.cc, used by one thread: the root   *)
(* logger, loggers made by LoggerManager::getLogger, the console appender  *)
(* of the root and a file appender.  A formatter is known by its pattern.  *)
(***************************************************************************)
EXTENDS LogFormatter, FiniteSets

CONSTANTS
    Named,       \* the loggers getLogger may make
    Pattern,     \* what setFormatter is first called with
    Again,       \* what it is called with later: a bound on the patterns
    Default,     \* the pattern of a new logger
    NoFormatter, \* an m_formatter nobody has set
    MaxCalls     \* bound on the calls

Root    == "root"
Console == "console"
File    == "file"
Loggers == Named \cup {Root}
Appenders == {Console, File}
Level == {1, 2}

ASSUME LoggerAssumption ==
    /\ Root \notin Named
    /\ Named \cap Appenders = {}
    /\ Pattern \subseteq Seq(Char)
    /\ <<>> \in Pattern /\ Again \subseteq Pattern
    /\ Default \in Pattern /\ ~IsError(Default)
    /\ NoFormatter \notin Pattern
    /\ MaxCalls \in Nat

VARIABLES
    loggers,     \* the loggers there are
    m_appenders, \* what each prints to
    m_formatter, \* what it gives to an appender without a formatter
    own,         \* the formatter of each appender
    level,       \* m_level of each logger and appender
    asked,       \* the pattern the last call parsed, empty if none
    stream,      \* m_filestream: is a file open, are no error bits set
    file,        \* how many lines the stream has taken for the file
    handed,      \* lines given to the file appender since it was reopened
    said,        \* what reopen last returned
    calls

logVars  == <<loggers, m_appenders, m_formatter, own, level>>
fileVars == <<stream, file, handed, said>>
vars == <<logVars, fileVars, asked, calls>>

\* LoggerManager's constructor.  A file appender comes without a file.
Init ==
    /\ loggers = {Root}
    /\ m_appenders = [l \in Loggers |-> IF l = Root THEN <<Console>> ELSE <<>>]
    /\ m_formatter = [l \in Loggers |-> Default]
    /\ own = [a \in Appenders |-> IF a = Console THEN Default ELSE NoFormatter]
    /\ level = [x \in Loggers \cup Appenders |-> 1]
    /\ asked = <<>>
    /\ stream = [open |-> FALSE, ok |-> TRUE]
    /\ file = 0 /\ handed = 0 /\ said = FALSE
    /\ calls = 0

Called == calls < MaxCalls /\ calls' = calls + 1
Call   == Called /\ asked' = <<>>
Parse(val) == Called /\ (calls > 0 => val \in Again) /\ asked' = val

-----------------------------------------------------------------------------
\* The lookup compares the result of find with itself, never with end(): it
\* finds nothing, and a new logger takes the place of the one before.
GetLogger(l) ==
    /\ Call
    /\ l \notin loggers
    /\ loggers' = loggers \cup {l}
    /\ UNCHANGED <<m_appenders, m_formatter, own, level, fileVars>>

\* Faulty variant: the old formatter is given up before the new one is checked.
SetFormatterResets(l, val) ==
    /\ Parse(val)
    /\ l \in loggers
    /\ m_formatter' = [m_formatter EXCEPT ![l] = IF IsError(val) THEN NoFormatter ELSE val]
    /\ UNCHANGED <<loggers, m_appenders, own, level, fileVars>>

\* A pattern with an error is refused.
SetFormatter(l, val) ==
    /\ Parse(val)
    /\ l \in loggers
    /\ m_formatter' = IF IsError(val) THEN m_formatter ELSE [m_formatter EXCEPT ![l] = val]
    /\ UNCHANGED <<loggers, m_appenders, own, level, fileVars>>

\* The appender gets the formatter the logger has now, unless it has one.
AddAppender(l, a) ==
    /\ Call
    /\ l \in loggers
    /\ own' = IF own[a] = NoFormatter THEN [own EXCEPT ![a] = m_formatter[l]] ELSE own
    /\ m_appenders' = [m_appenders EXCEPT ![l] = Append(@, a)]
    /\ UNCHANGED <<loggers, m_formatter, level, fileVars>>

\* The first of equal appenders goes.
DelAppender(l, a) ==
    /\ Call
    /\ l \in loggers
    /\ m_appenders' = [m_appenders EXCEPT ![l] = RemoveFirst(@, a)]
    /\ UNCHANGED <<loggers, m_formatter, own, level, fileVars>>

ClearAppenders(l) ==
    /\ Call
    /\ l \in loggers
    /\ m_appenders' = [m_appenders EXCEPT ![l] = <<>>]
    /\ UNCHANGED <<loggers, m_formatter, own, level, fileVars>>

SetLevel(x, lv) ==
    /\ Call
    /\ x \in loggers \cup Appenders
    /\ level' = [level EXCEPT ![x] = lv]
    /\ UNCHANGED <<loggers, m_appenders, m_formatter, own, fileVars>>

\* A logger without appenders hands its events to the root.
Printer(l) == IF m_appenders[l] = <<>> THEN Root ELSE l

\* The places of Printer(l) at which an event of level lv is for the file:
\* both loggers and the appender filter by their own level.
Printing(l, lv) ==
    {k \in DOMAIN m_appenders[Printer(l)] :
        /\ m_appenders[Printer(l)][k] = File
        /\ \A x \in {l, Printer(l), File} : lv >= level[x]}

\* n lines for the stream: an error, on the way or because no file is open,
\* sets a bit, and from then on lines are dropped.
WriteLines(n) ==
    /\ handed' = handed + n
    /\ \/ /\ stream.open /\ stream.ok
          /\ file' = file + n
          /\ stream' = stream
       \/ /\ n > 0
          /\ file' \in IF stream.open /\ stream.ok THEN 0..(file + n - 1) ELSE {file}
          /\ stream' = [stream EXCEPT !.ok = FALSE]

Log(l, lv) ==
    /\ Call
    /\ l \in loggers
    /\ LET places == Printing(l, lv)
       IN  IF places = {} THEN UNCHANGED <<stream, file, handed>>
                          ELSE WriteLines(Cardinality(places))
    /\ UNCHANGED <<logVars, said>>

\* Faulty variant: true is returned whatever open has done.
ReopenUnchecked ==
    /\ Call
    /\ said' = TRUE
    /\ \/ stream' = [open |-> TRUE, ok |-> TRUE] /\ file' = 0
       \/ stream' = [open |-> FALSE, ok |-> FALSE] /\ file' = file
    /\ handed' = 0
    /\ UNCHANGED logVars

\* The file is closed only if no error bit is set; open fails on a stream
\* that still has a file, and truncates the file if it succeeds.
Reopen ==
    /\ Call
    /\ \/ /\ ~stream.open \/ stream.ok
          /\ stream' = [open |-> TRUE, ok |-> TRUE]
          /\ file' = 0 /\ handed' = 0 /\ said' = TRUE
       \/ /\ stream' = [open |-> stream.open /\ ~stream.ok, ok |-> FALSE]
          /\ said' = FALSE
          /\ UNCHANGED <<file, handed>>
    /\ UNCHANGED logVars

Next ==
    \/ Reopen
    \/ \E l \in Named : GetLogger(l)
    \/ \E l \in Loggers :
          \/ \E val \in Pattern : SetFormatter(l, val)
          \/ \E a \in Appenders : AddAppender(l, a) \/ DelAppender(l, a)
          \/ ClearAppenders(l)
          \/ \E lv \in Level : Log(l, lv)
    \/ \E x \in Loggers \cup Appenders, lv \in Level : SetLevel(x, lv)

Spec == Init /\ [][Next]_vars

-----------------------------------------------------------------------------
(* Properties.                                                             *)

TypeOK ==
    /\ loggers \in SUBSET Loggers
    /\ m_appenders \in [Loggers -> Seq(Appenders)]
    /\ m_formatter \in [Loggers -> Pattern]
    /\ own \in [Appenders -> Pattern \cup {NoFormatter}]
    /\ level \in [Loggers \cup Appenders -> Level]
    /\ asked \in Pattern
    /\ stream \in [open : BOOLEAN, ok : BOOLEAN]
    /\ file \in Nat /\ handed \in Nat /\ said \in BOOLEAN
    /\ calls \in 0..MaxCalls

\* LogFormatter::init takes a pattern apart the way the comment on it says
\* patterns are written, and finds the faulty ones, unless the pattern has two
\* percent signs in a row: of those init takes the first for text and the
\* second for the start of a directive, where the comment has one percent sign.
PatternReadRight == ~Escaped(asked) => IsReadRight(asked)

\* An appender that may be asked to print has a formatter, and one without an
\* error: log() uses it unchecked, addAppender and setFormatter must see to it.
AppendersCanPrint ==
    \A l \in Loggers : \A a \in ToSet(m_appenders[l]) :
        own[a] # NoFormatter /\ ~IsError(own[a])

\* When reopen has returned true the file is open, no line of before is in it,
\* and up to the first failed write every line since is.
LinesReachFile ==
    said => stream.open /\ file <= handed /\ (stream.ok => file = handed)
=============================================================================
