SPECIFICATION Spec
CONSTANTS
    Rows = {1, 2}
    Copies = {c1}
    Dated = {c1}
    NoHash = NoHash
    Uploads = {u1, u2}
    Syncs = {s1}
    Upgrades = {g1}
    OldRide = FALSE
    SameClock = TRUE
    MaxVersion = 0
SYMMETRY Symmetry
INVARIANT CommunityGeometryIsUploaded
