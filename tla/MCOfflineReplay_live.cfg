CONSTANTS
    Configs <- MCConfigs
    Sessions <- MCSessions
    Tokens <- MCTokens
    Durations = {0, 1}
    Handoffs = {0, 1}
    Targets = {1, 2}
    MaxScalings = 2
SPECIFICATION FairSpec
INVARIANTS
    InOnePlace
    RouterAgrees
    NoError
PROPERTY RunEnds
CHECK_DEADLOCK FALSE
