CONSTANTS
    Items = 3
    Capacity = 2
    Faults = TRUE
SPECIFICATION FairSpec
INVARIANTS
    CompleteOrFlagged
PROPERTIES
    CancelReachesWorker
    ConnectionReleased
CHECK_DEADLOCK FALSE
