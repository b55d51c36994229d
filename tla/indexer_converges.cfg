SPECIFICATION FairSpec
CONSTANTS
    MaxHeight = 3
    MaxForks = 2
    ReorgFloor = 1
    MaxReorgDepth = 3
    HeadersBatchSize = 3
    BatchSize = 2
    Prefetch = 1
    MaxFaults = 1
    LookupsFail = FALSE
    EventsLag = FALSE
    ReorgAnytime = FALSE
INVARIANTS Linked
PROPERTIES OnlyStaleDeleted Converges
