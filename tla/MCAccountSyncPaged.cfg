SPECIFICATION FairSpec
CONSTANTS
    t1 = t1
    t2 = t2
    t3 = t3
    w1 = w1
    w2 = w2
    Tokens = {t1, t2}
    UsedPools <- OnePool
    UsedStatuses <- Served
    MaxRevision = 1
    NoRow = NoRow
    Workers = {w1}
    BatchLimit = 1
    MaxRestarts = 0
    NoSlot = NoSlot
PROPERTIES Convergence
CHECK_DEADLOCK FALSE
