SPECIFICATION FairSpec
CONSTANTS
    a = a
    b = b
    Answer = Answer
    Nul = Nul
    None = None
    Size = 4
    Burst = 3
    RetryMod = 4
    Chatter = FALSE
    Byte <- MCByte
    Retries <- MCRetries
PROPERTIES
    AnswerIsFound
