SPECIFICATION FairSpec
CONSTANTS
    WaitMax = 3
    ConnectMax = 3
    ByteMod = 16
    WordMod = 32
    r1 = r1
    r2 = r2
    None = None
    MaxUnread = 8
    Readings <- MCReadings
    AckTails <- MCCleanTails
INVARIANTS
    TypeOK
    NoPhantomCredit
    CreditBound
    InitOnlyWhenSpent
PROPERTIES
    ReadingSentOrLinkDown
    SilenceIsReset
    ServiceRestored
