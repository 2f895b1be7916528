SPECIFICATION FairSpec
CONSTANTS
    None = None
    Address = 64
    Quantities = {"rh", "t"}
    Command <- MCCommand
    Readings <- MCReadings
    Period = 7
    DelayMod = 20
    MaxOverTime = 2
    MaxRounds = 1
    MaxResets = 2
INVARIANTS
    TypeOK
    FiledRight
    BusFree
PROPERTIES
    GivenToReader
    Recovers
