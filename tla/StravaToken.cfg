SPECIFICATION FairSpec
CONSTANTS
    Callers = {w, a}
    Resyncs = {w}
    NoCaller = none
    Threshold = 2
    MaxTokens = 3
    MaxRejections = 2
INVARIANTS
    StoredTokenLives
    PostedTokenLives
    FailuresAreRejections
PROPERTIES
    EveryCallEnds
CHECK_DEADLOCK FALSE
