SPECIFICATION FairSpec
CONSTANTS
    Archives = {1, 2}
    Workers = {w1}
    Requests = {r1}
    Members = {m1}
    Contents = {"good", "bomb", "oversize"}
    Faults = {"kill", "db", "web", "config"}
    ClaimLimit = 1
    MaxDrainAttempts = 2
    StuckAfter = 1
    AwaitingTTL = 1
    KillAfter = 1
    MaxActs = 3
PROPERTY EveryArchiveSettles
