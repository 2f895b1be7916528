SPECIFICATION FairSpec
CONSTANTS
    MaxPacket = 2
    BufLen = 5
    None = None
    Window = FALSE
    BackToBack = FALSE
    Requests <- MCRequests
INVARIANTS
    StallsOnlyRefused
PROPERTIES
    SetupHeard
    TransfersEnd
