SPECIFICATION Spec
CONSTANTS
    Char <- Chars
    Letter = {"m"}
    Known <- MCKnown
    Pattern <- MCPattern
    Again <- MCAgain
    Default <- MCDefault
    Named = {n1}
    NoFormatter = NoFormatter
    MaxCalls = 4
INVARIANTS
    TypeOK
    PatternReadRight
    AppendersCanPrint
    LinesReachFile
\* The bound on the calls.
CHECK_DEADLOCK FALSE
