SPECIFICATION FairSpec
CONSTANTS
    PoolSize = 2
    Txns = {t}
    Guards = {g1, g2}
    MaxCuts = 2
INVARIANTS NoSharing NoLeak StaysShut NoneSleepsBeside
PROPERTIES AcquireEnds
CHECK_DEADLOCK FALSE
