SPECIFICATION PromptSpec
CONSTANTS
    MaxExtra = 3
    Backoff = 1
    Timeout = 2
    MaxReads = 2
INVARIANTS
    TypeOK
    AnswerIsFinal
    RetriesAreUsed
PROPERTIES
    CallEndsInTime
