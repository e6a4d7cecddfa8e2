SPECIFICATION FairSpec
CONSTANTS
    w1 = w1
    w2 = w2
    r1 = r1
    r2 = r2
    f1 = f1
    f2 = f2
    f3 = f3
    admin = admin
    Names = {f1, f2, f3}
    Bytes <- MCBytes
    Ops <- MCOps
    NoOp = NoOp
    Workers = {w1, w2}
    Requests = {r1, r2}
    Admin = admin
    Home <- MCHome
    Jobs = {r1}
    File <- MCFile
    Segments <- MCSegments
    Readings = {60}
    MaxInflight = 1
    Leftovers <- MCLeftovers
    Limits = {0, 2}
    MaxAdmin = 1
    Mortal = {w1}
    MaxCrashes = 1
    MaxQueued = 1
INVARIANTS IndexMatchesDisk DiskBounded AccountsReturned StreamComplete
PROPERTIES SaveKept RequestsEnd
CHECK_DEADLOCK FALSE
