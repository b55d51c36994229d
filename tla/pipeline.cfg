SPECIFICATION FairSpec
CONSTANTS
    ChainHeight = 5
    HeadersBatchSize = 6
    BatchSize = 2
    MaxQueueDepth = 2
    MaxRetries = 2
INVARIANTS QueueBounded NoGap NoLostDataWakeup ProgressCommitted
    NoReCopy SuccessMeansCommitted
PROPERTIES TableAppendOnly QueueServed BackpressureReleased
CHECK_DEADLOCK FALSE
