SPECIFICATION CSpec
CONSTANTS
    PoolSize = 2
    Txns = {consumer}
    Guards = {}
    MaxCuts = 2
    MaxHeight = 3
INVARIANT NoGap
CHECK_DEADLOCK FALSE
