CONSTANTS
    Requests = {q1, q2}
    Buffers = {1, 2}
SPECIFICATION FairSpec
INVARIANTS
    OwnAnswer
    NoneStranded
PROPERTIES
    CallsSettle
CHECK_DEADLOCK FALSE
