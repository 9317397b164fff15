SPECIFICATION FairSpec
CONSTANTS
    w1 = w1
    w2 = w2
    w3 = w3
    Worker = {w1, w2, w3}
    Program <- MCPrograms
    Method <- MCMethods
    Freed = {"kept"}
    MaxOutput = 1
INVARIANTS
    TypeOK
    WholeOutput
    OutputUnmixed
    EndsClosed
    WaitsForChildOnly
PROPERTY EveryRunEnds
\* Each worker is in CgiProcess once.
CHECK_DEADLOCK FALSE
