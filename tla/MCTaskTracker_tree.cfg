CONSTANTS
    root = root  mid = mid  leaf = leaf  sem = sem  unl = unl
    Tracker = {root, mid}
    Root = root
    Ancestors <- TwoAncestors
    Task = {t1, t2}
    Scheduler = {unl}
    Unlimited = {unl}
    Permits <- UnlOnly
    Rejecting = {}
    Policy = {"CancelOnError"}
    Kind = {"cancellable"}
    Joined = {root}
    MaxFailures = 1
    MaxAttempts = 0
    NoTracker = NoTracker
SPECIFICATION Spec
SYMMETRY Symmetric
INVARIANTS
    JoinWaited
CHECK_DEADLOCK FALSE
