SPECIFICATION FairSpec
CONSTANTS
    Phones = {p1, p2}
    MaxChannel = 1
    Backlog = 1
    Buffer = 1
    None = None
INVARIANTS TypeOK EndsAgree
PROPERTIES ChannelGivenUp

CHECK_DEADLOCK FALSE
