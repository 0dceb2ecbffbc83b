SPECIFICATION FairSpec
CONSTANTS
    Jobs = {j1, j2}
    LostStarts = {j1}
    ZombieAge = 0
    StaleAge = 1
    SweepAge = 2
    QueueWait = 2
    MaxPages = 1
INVARIANTS
    SerialUnlessMisjudged
    RunningHasExecution
    RowSpeaksForExecution
PROPERTIES
    ReportStands
    EveryImportSettles
CHECK_DEADLOCK FALSE
