SPECIFICATION Spec
CONSTANTS
    Builds = {b1, b2}
    Traces = {t1, t2}
    Nobody = Nobody
    MaxHour = 2
    MaxChanges = 2
    UnreadableReads = FALSE
SYMMETRY Symmetry
CHECK_DEADLOCK FALSE
INVARIANTS
    PointedSnapshotExists
    MapReflectsItsStart
    FinishedIsCovered
    MutableWasPointed
    ErasedSurvivesOnlyByOverlap
PROPERTIES
    PointerNeverGoesBack
    ShowsWholeReads
