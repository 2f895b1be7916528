SPECIFICATION FairSpec
CONSTANTS
    MaxPacket = 2
    BufLen = 5
    None = None
    Window = TRUE
    BackToBack = FALSE
    Requests <- MCFewRequests
INVARIANTS
    TypeOK
    ReadDelivers
    WriteDelivers
    RefusedNeverDone
    AddressAgreed
PROPERTIES
    CompletionIsTrue
