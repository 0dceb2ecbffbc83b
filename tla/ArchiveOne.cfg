SPECIFICATION Spec
CONSTANTS
    Archives = {1}
    Workers = {w1, w2}
    Requests = {r1}
    Members = {m1, m2}
    Contents = {"good", "bomb", "oversize"}
    Faults = {"kill", "db", "web", "config"}
    ClaimLimit = 2
    MaxDrainAttempts = 2
    StuckAfter = 1
    AwaitingTTL = 1
    KillAfter = 1
    MaxActs = 5
SYMMETRY Symmetry
INVARIANT DrainExclusion
INVARIANT StartMailOnce
INVARIANT DoneMeansCovered
PROPERTY KeepsItsPromise
