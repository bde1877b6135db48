SPECIFICATION FairSpec
CONSTANTS
    Requests = {q1, q2}
    Ids = {i1, i2}
    Shells = {s1, s2}
    ConnSlots = 1
    ProcessSlots = 2
    MaxTerminals = 2
    None = None
INVARIANTS TypeOK CapacityCoversReply NoOrphanShell
PROPERTIES RequestEnds LeavesNothing
CHECK_DEADLOCK FALSE
