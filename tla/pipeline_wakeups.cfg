SPECIFICATION FairSpec
CONSTANTS
    ChainHeight = 5
    HeadersBatchSize = 6
    BatchSize = 2
    MaxQueueDepth = 2
    MaxRetries = 1
PROPERTIES WakeUpsArrive
CHECK_DEADLOCK FALSE
