SPECIFICATION Spec
CONSTANTS
    c1 = c1
    c2 = c2
    c3 = c3
    Arrivals <- MCArrivals
    Worker = {w1}
    NoClient = NoClient
    Limit = 3
    BACKLOG = 5
    Opens = 0
    Leaves = 0
INVARIANT EmfileClosesClient
\* Once all clients have been served the loop waits for more.
CHECK_DEADLOCK FALSE
