SPECIFICATION FairSpec
CONSTANTS
    Retry = 1
    Heartbeat = 3
    Stale = 6
    MaxTip = 2
    MaxTxs = 2
    MaxOutages = 2
    MaxFaults = 2
INVARIANTS AgeMeansFailure FailureIsRetried
PROPERTIES SnapshotCatchesUp OutageShown NetworkInfoCatchesUp
CHECK_DEADLOCK FALSE
