SPECIFICATION FairSpec
CONSTANTS
    QueueMax = 1
    FallbackTimeout = 0
    MaxAttempts = 2
    WaitSlices = 2
    MaxTip = 2
    MaxTxs = 1
    MaxFaults = 2
PROPERTIES NoStaleWake TipNoticed SleeperReturns StopEnds
CHECK_DEADLOCK FALSE
