SPECIFICATION FairSpec
CONSTANTS
    Pages <- AllPages
    Size = 2
    Uninit = Uninit
    DirSize = 1
    MaxEdits = 2
INVARIANTS
    TypeOK
    DescriptorInHand
    PageMatchesStatus
    LeakBound
PROPERTY RequestEnds
\* One request: the handler ends.
CHECK_DEADLOCK FALSE
