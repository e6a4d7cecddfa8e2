SPECIFICATION FairSpec
CONSTANTS
    t1 = t1
    t2 = t2
    r1 = r1
    r2 = r2
    s1 = s1
    Tokens = {t1, t2}
    NoRow = NoRow
    UsedPools = {"basic"}
    UsedStatuses = {"active", "disabled", "expired"}
    MaxRevision = 5
    Items = {t1, t2}
    Concurrency = 1
    Streams = {s1}
    QueueSize = 1
    Requests = {r1, r2}
    Endpoints <- MCEndpoints
    FirstRows <- MCFirstRows
    NoRequest = NoRequest
INVARIANTS FinalIsFinal
PROPERTIES NothingStartsCancelled EditKeepsAccount StreamsEnd
CHECK_DEADLOCK FALSE
