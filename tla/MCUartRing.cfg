SPECIFICATION FairSpec
CONSTANTS
    BufferSize = 4
    a = a
    b = b
    NoByte = NoByte
    Byte <- MCByte
    Texts <- MCTexts
INVARIANTS
    TypeOK
    Armed
PROPERTIES
    ImplementsFifo
    ImplementsFairFifo
    GoesQuiet
