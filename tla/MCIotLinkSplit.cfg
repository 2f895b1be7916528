SPECIFICATION SplitSpec
CONSTANTS
    WaitMax = 3
    ConnectMax = 3
    ByteMod = 9
    WordMod = 16
    r1 = r1
    r2 = r2
    None = None
    MaxUnread = 2
    Readings <- MCReadings
    AckTails <- MCSplitTails
PROPERTIES
    ServiceRestored
