\* One web process, two archives.
CONSTANTS
    Instances = {i}
    Archives = {a, b}
    Debounce = 1
    Reping = 2
    RetryAfter = 1
    MaxChanges = 2
    MaxRequests = 2
SPECIFICATION FairSpec
CHECK_DEADLOCK FALSE
INVARIANTS
    StaleMapHasReason
    RequestsCarry
    TellsOnlyWhatIsAsked
PROPERTY
    EveryChangeIsShown
