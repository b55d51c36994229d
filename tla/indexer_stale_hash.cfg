SPECIFICATION Spec
CONSTANTS
    MaxHeight = 4
    MaxForks = 2
    ReorgFloor = 1
    MaxReorgDepth = 4
    HeadersBatchSize = 3
    BatchSize = 2
    Prefetch = 1
    MaxFaults = 0
    LookupsFail = FALSE
    EventsLag = TRUE
    ReorgAnytime = FALSE
INVARIANTS Linked
