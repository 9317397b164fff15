SPECIFICATION FairSpec
CONSTANTS
    Messages <- MCMessages
    ContentLength = 2
INVARIANTS
    TypeOK
    LinesAsSent
    NeverReadsPastHeaders
    ParsedAtHeaderEnd
    CompleteRequestAnswered
PROPERTY HandlerReturns
\* A connection is read once: the handler ends.
CHECK_DEADLOCK FALSE
