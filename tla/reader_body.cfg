SPECIFICATION Spec
CONSTANTS
    Messages <- MCRequests
    ContentLength = 2
INVARIANT PostBodyRead
\* A connection is read once: the handler ends.
CHECK_DEADLOCK FALSE
