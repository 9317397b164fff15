\* Three workers as in the code (NUM), a deque block of two slots so that
\* pops cross from one block to the next within three connections.
SPECIFICATION FairSpec
CONSTANTS
    Worker = {w1, w2, w3}
    Task = {t1, t2, t3}
    NodeCap = 2
    Main = Main
    NoThread = NoThread
    NoTask = NoTask
INVARIANTS
    TypeOK
    FirstInFirstOut
    HandledOnce
    NoStrandedQueue
    WakeupPerTask
PROPERTIES
    ImplementsTaskDispatch
    QueuedTaskIsHandled
\* Once every connection of the bound is pushed and no thread exists, the
\* system stops.
CHECK_DEADLOCK FALSE
