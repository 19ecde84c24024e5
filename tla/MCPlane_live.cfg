SPECIFICATION FairSpec
CONSTANTS
    HostCallers = {"a"}  Warmers = {"b"}  PoolSize = 2  Buffer = 1  Retries = 1  Limit = 1
    MaxChanges = 1
    Contexts = {"a", "b", "c"}  Links <- OneChain  Stoppers = {"t", "u"}  Piped = {"a"}
    MaxAttempts = 1
    Critical = {"t", "u"}
    Borrowers = {"t", "u", "v", "w"}  Items = {"x", "y"}  Clones = 1
    Portnames = {"a", "b"}  Used = {"a"}  Served = {"a"}  MaxProbes = 1  MaxEvents = 2
    Requests = {"r", "s"}  Registrations = 2  Managers = {"m", "n"}
    Streams = {"r", "s"}  Capacity = 1  Frames = 2  MaxBroken = 1
    Asks <- ThreeAsks  Grace = 1  MaxSignals = 1
    Callers = {"a", "b"}  Groups = {"g"}  Group <- OneGroup  MaxFaults = 1
    TTL = 2  MaxDrops = 2
INVARIANTS
    NothingLeaks
    SignalsReach
    ReadyIsProven
PROPERTY
    WaitsEnd
CHECK_DEADLOCK FALSE
