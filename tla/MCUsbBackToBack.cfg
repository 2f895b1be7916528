SPECIFICATION FairSpec
CONSTANTS
    MaxPacket = 2
    BufLen = 5
    None = None
    Window = FALSE
    BackToBack = TRUE
    Requests <- MCRequests
INVARIANTS
    ReadDelivers
