SPECIFICATION FairSpec
CONSTANTS
    Phones = {p1, p2}
    Keys = {k1}
    MaxChannel = 2
    MaxAdmitted = 1
    MaxPending = 1
    MaxPerKey = 1
    NoPhone = NoPhone
    NoKey = NoKey
PROPERTIES PendingSettles EndedSessionDrains
CHECK_DEADLOCK FALSE
