SPECIFICATION CoalescerFairSpec
CONSTANTS
    f1 = f1
    f2 = f2
    f3 = f3
    t1 = t1
    t2 = t2
    Failures = {f1, f2, f3}
    Tokens = {t1, t2}
    MaxWriteFaults = 1
    NoToken = NoToken
    NoRow = NoRow
INVARIANTS FailuresConserved
PROPERTIES EventuallyWritten
CHECK_DEADLOCK FALSE
