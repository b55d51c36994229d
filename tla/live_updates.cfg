SPECIFICATION FairSpec
CONSTANTS
    Pages = {p}
    MaxAttempts = 2
    Near = 0
    Others = {"ping", "untyped", "blank"}
    MaxTip = 2
    MaxOthers = 1
    MaxBreaks = 1
    MaxFetches = 2
INVARIANTS StaysInformed SubscribedOnce
PROPERTIES ComesBack PollingShowsTip
CHECK_DEADLOCK FALSE
