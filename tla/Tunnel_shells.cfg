SPECIFICATION FairSpec
CONSTANTS
    Requests = {q1}
    Ids = {i1}
    Shells = {s1}
    ConnSlots = 1
    ProcessSlots = 2
    MaxTerminals = 2
    None = None
PROPERTIES ShellsDie
CHECK_DEADLOCK FALSE
