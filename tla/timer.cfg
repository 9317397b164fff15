SPECIFICATION Spec
CONSTANTS
    Timer = {t1, t2, t3, t4, t5}
    Delay = {0, 1, 2}
    Capacity = {0, 1, 5}
    MaxTime = 1
    NULL = NULL
SYMMETRY Symmetry
INVARIANTS
    TypeOK
    HeapOrder
    EntriesLive
    RoomUnlessNone
PROPERTIES
    NothingDueIsLeft
    ImplementsTimerQueue
\* A heap whose array has been overrun stops.
CHECK_DEADLOCK FALSE
