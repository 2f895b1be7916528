SPECIFICATION FairSpec
CONSTANTS
    None = None
    MaxPacket0 = 8
    Halves = {"in", "out"}
    Size <- MCSize
    Sends = {"in"}
    Calls <- msc_set_config
    Configs = {1}
    Values = {0, 1, 2}
    MaxCallbacks = 4
    PmTop = 64
    PmSize = 84
    Layout <- MCLayout
    EpSize = 2
    CbwLen = 2
    CswLen = 1
    BlockLen = 4
    NBlocks = 2
    LbaSpan = 3
    SenseLen = 2
    Commands <- MCCommands
    OutFirst = TRUE
    BackToBack = FALSE
    Cuts = FALSE
INVARIANTS
    TypeOK
    PacketMemory
    Ready
PROPERTIES
    ImplementsBlocks
    CommandsAnswered
