CONSTANTS
    i1 = i1
    i2 = i2
    r1 = r1
    r2 = r2
    Instance = {i1, i2}
    Request = {r1, r2}
    Modes = {"Random", "Direct", "PowerOfTwoChoices", "LeastLoaded", "DeviceAwareWeighted"}
    FaultDetection = TRUE
    Timeout = TRUE
    Cpu = {i1}
    Ratio = 2
    None = None
SPECIFICATION SmallSpec
INVARIANT OccupancyBounded
PROPERTIES
    Restored
    GoneForGood
CHECK_DEADLOCK FALSE
