SPECIFICATION FairSpec
CONSTANTS
    s1 = s1
    s2 = s2
    r1 = r1
    r2 = r2
    Ports = {s1, s2}
    Requests = {r1, r2}
    Layouts <- MCLayouts
    QueueCap = 1
    PoolSize = 1
    Wrap = 4
INVARIANTS PhaseOrder PublishedReachable
PROPERTIES ShutdownEnds
CHECK_DEADLOCK FALSE
