SPECIFICATION FairSpec
CONSTANTS
    i1 = i1
    i2 = i2
    i3 = i3
    a1 = a1
    a2 = a2
    t1 = t1
    t2 = t2
    Images = {i1, i2, i3}
    Wanted = 2
    Readings = {0, 50}
    MaxRounds = 2
    Accounts = {a1, a2}
    MaxInflight = 1
    Tasks = {t1, t2}
    MaxRetries = 1
    MaxMessages = 3
    NoAccount = NoAccount
INVARIANTS ImagesDelivered HonestPercent ReservationsReturned
PROPERTIES BatchesEnd
CHECK_DEADLOCK FALSE
