SPECIFICATION FairSpec
CONSTANTS
    blk = blk
    mem = mem
    sub = sub
    huge = huge
    Keys = {blk, mem, sub, huge}
    BlockKeys = {blk}
    MempoolKeys = {mem}
    RawKeys = {blk}
    SizeOf <- MCSizeOf
    MaxEntries = 2
    MaxBytes = 3
    MaxAge = 0
    Clients = {c1, c2}
    MaxTip = 1
    MaxTxs = 1
INVARIANTS WithinBudget FreshUnlessLate
PROPERTIES EvictsNoMore ServesCurrentAtLast
