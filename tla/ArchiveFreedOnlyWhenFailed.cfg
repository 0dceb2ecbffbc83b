SPECIFICATION Spec
CONSTANTS
    Archives = {1}
    Workers = {w1, w2}
    Requests = {r1}
    Members = {m1, m2}
    Contents = {"good", "bomb", "oversize"}
    Faults = {}
    ClaimLimit = 2
    MaxDrainAttempts = 2
    StuckAfter = 1
    AwaitingTTL = 1
    KillAfter = 1
    MaxActs = 5
PROPERTY FreedOnlyWhenFailed
