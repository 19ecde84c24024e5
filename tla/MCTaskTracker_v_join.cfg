CONSTANTS
    root = root  mid = mid  leaf = leaf  sem = sem  unl = unl
    Tracker = {root, mid, leaf}
    Root = root
    Ancestors <- ChainAncestors
    Task = {t1}
    Scheduler = {unl}
    Unlimited = {unl}
    Permits <- UnlOnly
    Rejecting = {}
    Policy = {"LogOnly"}
    Kind = {"regular", "cancellable"}
    Joined = {root, mid, leaf}
    MaxFailures = 1
    MaxAttempts = 0
    NoTracker = NoTracker
SPECIFICATION Spec
PROPERTY JoinCoversHierarchy
CHECK_DEADLOCK FALSE
