SPECIFICATION FairSpec
CONSTANTS
    MaxPacket = 2
    BufLen = 5
    None = None
    Window = TRUE
    BackToBack = FALSE
    Requests <- MCRequests
INVARIANTS
    StallsOnlyRefused
