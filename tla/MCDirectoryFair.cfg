SPECIFICATION FairSpec
CONSTANTS
    t1 = t1
    t2 = t2
    r1 = r1
    r2 = r2
    Tokens = {t1}
    NoRow = NoRow
    NoSlot = NoSlot
    Requests = {r1, r2}
    Kinds <- BothKinds
    Strategies <- AnyStrategy
    RequestPools <- PoolOrder
    RequestModes <- ModeOrder
    MaxInflight = 1
    MaxQuota = 1
    RandomRetries = 1
    MaxRetries = 1
    SyncRows <- Rows
    MaxLost = 1
    NoLease = NoLease
PROPERTIES RequestsEnd
CHECK_DEADLOCK FALSE
