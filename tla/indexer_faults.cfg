SPECIFICATION Spec
CONSTANTS
    MaxHeight = 3
    MaxForks = 1
    ReorgFloor = 0
    MaxReorgDepth = 2
    HeadersBatchSize = 3
    BatchSize = 2
    Prefetch = 2
    MaxFaults = 1
    LookupsFail = TRUE
    EventsLag = TRUE
    ReorgAnytime = TRUE
INVARIANTS TypeOK NoGap
PROPERTIES TableSpec
