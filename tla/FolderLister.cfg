SPECIFICATION FairSpec
CONSTANTS
    Conns = {c1, c2}
    PerConn = 1
    Keys = {k1}
    Reads = {r1, r2, r3}
    ConnSlots = 1
    ProcessSlots = 3
    None = None
INVARIANTS TypeOK SlotsBalanced PathHoldsTwo MapsHoldLiveReads
PROPERTIES RequestAnswered PhoneSlotReturned
