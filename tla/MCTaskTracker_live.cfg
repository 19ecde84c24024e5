CONSTANTS
    root = root  mid = mid  leaf = leaf  sem = sem  unl = unl
    Tracker = {root}
    Root = root
    Ancestors <- OneAncestors
    Task = {t1, t2}
    Scheduler = {sem}
    Unlimited = {}
    Permits <- TwoPermits
    Rejecting = {sem}
    Policy = {"Threshold", "Custom"}
    Kind = {"regular", "cancellable"}
    Joined = {root}
    MaxFailures = 1
    MaxAttempts = 1
    NoTracker = NoTracker
SPECIFICATION ObedientSpec
INVARIANTS
    MetricsMatch
    PermitsConserved
PROPERTIES
    CancelledTasksEnd
    JoinReturns
CHECK_DEADLOCK FALSE
