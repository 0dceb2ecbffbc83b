SPECIFICATION FairSpec
CONSTANTS
    Rides = {1, 2}
    Workers = {v, w}
    PageSize = 1
    MaxPages = 3
    MaxEvents = 2
INVARIANTS
    NothingSlipsThrough
    DeletedOnStravaIsGone
    PrivateStaysOut
PROPERTIES
    RidesArrive
CHECK_DEADLOCK FALSE
