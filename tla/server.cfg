SPECIFICATION FairSpec
CONSTANTS
    c1 = c1
    c2 = c2
    c3 = c3
    Arrivals <- MCArrivals
    Worker = {w1, w2}
    NoClient = NoClient
    Limit = 4
    BACKLOG = 1
    Opens = 2
    Leaves = 1
INVARIANTS
    TypeOK
    DescriptorsKept
    IdleFdIsOurs
    DescriptorsAccounted
    OneDescriptorLeft
PROPERTY ClientGetsAnEnd
\* Once all clients have been served the loop waits for more.
CHECK_DEADLOCK FALSE
