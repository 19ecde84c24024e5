CONSTANTS
    Instance = {i1}
    Request = {r1, r2}
    MaxEvents = 3
    None = None
SPECIFICATION FairSpec
INVARIANTS
    TablesAgree
    NoStrandedWaiter
PROPERTY WaitersReleased
CHECK_DEADLOCK FALSE
