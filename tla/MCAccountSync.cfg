SPECIFICATION FairSpec
CONSTANTS
    t1 = t1
    t2 = t2
    t3 = t3
    w1 = w1
    w2 = w2
    Tokens = {t1, t2}
    UsedPools <- TwoPools
    UsedStatuses <- Served
    MaxRevision = 3
    NoRow = NoRow
    Workers = {w1}
    BatchLimit = 3
    MaxRestarts = 1
    NoSlot = NoSlot
INVARIANTS IndexExact SyncedUpToRevision SeenIsShown
PROPERTIES MirrorsRepository Convergence
CHECK_DEADLOCK FALSE
