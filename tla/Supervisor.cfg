SPECIFICATION FairSpec
CONSTANTS
    MaxRestarts = 1
    ProbeFailures = 2
    Buffer = 2
    Tunnels = {t1}
    None = None
INVARIANTS TypeOK OneChild
PROPERTIES WatchKillIsReported WedgedChildEnds ShutdownEnds TunnelFollowsChild
CHECK_DEADLOCK FALSE
