SPECIFICATION FairSpec
CONSTANTS
    a = a
    b = b
    Answer = Answer
    Nul = Nul
    None = None
    Size = 4
    Burst = 3
    RetryMod = 4
    Chatter = TRUE
    Byte <- MCByte
    Retries <- MCRetries
INVARIANTS
    TypeOK
PROPERTIES
    KeepsFirstByte
    AnswerIsNew
    CommandEnds
