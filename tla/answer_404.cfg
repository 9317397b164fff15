SPECIFICATION Spec
CONSTANTS
    Pages <- ShippedPages
    Size = 2
    Uninit = Uninit
    DirSize = 1
    MaxEdits = 0
INVARIANT AnnouncedPageIsSent
\* One request: the handler ends.
CHECK_DEADLOCK FALSE
