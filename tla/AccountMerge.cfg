\* Three rides of two accounts, one Strava id, coordinates on a line.
CONSTANTS
    Rides = {r, s, t}
    Keys = {k}
    NoKey = nokey
    Window = 1
    Last = 2
SPECIFICATION Spec
SYMMETRY Symmetry
CHECK_DEADLOCK FALSE
INVARIANTS
    EveryRideKeepsACopy
    OrphansCameLate
PROPERTY
    RefusedOnlyForTwins
