SPECIFICATION Spec
CONSTANTS
    t1 = t1
    t2 = t2
    r1 = r1
    r2 = r2
    Tokens = {t1, t2}
    NoRow = NoRow
    NoSlot = NoSlot
    Requests = {r1, r2}
    Kinds <- BothKinds
    Strategies <- Capped
    RequestPools <- PoolOrder
    RequestModes <- ModeOrder
    MaxInflight = 1
    MaxQuota = 0
    RandomRetries = 2
    MaxRetries = 1
    SyncRows <- Rows
    MaxLost = 1
    NoLease = NoLease
INVARIANTS IndexExact InflightConserved InflightCapped NeverTheSameAccount
PROPERTIES GrantsAreServable
SYMMETRY Symmetry
CHECK_DEADLOCK FALSE
