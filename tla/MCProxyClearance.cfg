SPECIFICATION FairSpec
CONSTANTS
    r1 = r1
    r2 = r2
    r3 = r3
    u1 = u1
    u2 = u2
    Requests = {r1, r2}
    Scheduler = Scheduler
    Urls = {u1, u2}
    Direct = Direct
    Hosts = {"grok.com"}
    DefaultHost = "grok.com"
    Configs <- Reloads
    CursorMod = 2
    MaxAcquires = 3
    MaxChanges = 2
    Nobody = Nobody
    NoKey = NoKey
INVARIANTS WaitersHaveFetcher OneFetchPerKey
PROPERTIES AcquiresEnd
CHECK_DEADLOCK FALSE
