SPECIFICATION Spec
CONSTANTS
    Phones = {p1, p2, p3}
    Keys = {k1, k2}
    MaxChannel = 3
    MaxAdmitted = 1
    MaxPending = 2
    MaxPerKey = 2
    NoPhone = NoPhone
    NoKey = NoKey
SYMMETRY Symmetry
INVARIANTS TypeOK WithinLimits ChannelsOwned
PROPERTIES DisplacementFair
CHECK_DEADLOCK FALSE
