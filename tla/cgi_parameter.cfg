SPECIFICATION Spec
CONSTANTS
    w1 = w1
    w2 = w2
    w3 = w3
    Worker = {w1}
    Program <- MCProgram
    Method <- MCMethod
    Freed = {"kept", "lost"}
    MaxOutput = 1
INVARIANT ParameterReachesProgram
\* The worker is in CgiProcess once.
CHECK_DEADLOCK FALSE
