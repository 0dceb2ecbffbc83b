SPECIFICATION Spec
CONSTANTS
    Rows = {1, 2}
    Copies = {c1, c2, c3}
    Dated = {c1, c2}
    NoHash = NoHash
    Uploads = {u1, u2}
    Syncs = {s1}
    Upgrades = {g1}
    OldRide = TRUE
    SameClock = TRUE
    MaxVersion = 1
SYMMETRY Symmetry
INVARIANTS
    PublishedUnderConsent
    DuplicatesWereConcurrent
PROPERTIES
    UpgradeSparesCommunity
    KeepsTheLedger
