SPECIFICATION FairSpec
CONSTANTS
    t1 = t1
    t2 = t2
    c1 = c1
    c2 = c2
    c3 = c3
    Tokens = {t1, t2}
    NoRow = NoRow
    Callers = {c1, c2}
    Nobody = Nobody
    QuotaModes = {"fast"}
    UsedPools = {"basic"}
    UsedLists = {"scheduled", "manual", "revive"}
    MaxQuota = 0
    SampleSize = 2
    MinInterval = 1
    MaxTime = 2
    MaxOps = 2
    MaxFaults = 1
    MaxEdits = 1
INVARIANTS OneOnDemand
PROPERTIES TokenProbesSpaced BulkProbesSpaced OperationsEnd
CHECK_DEADLOCK FALSE
