SPECIFICATION FairSpec

INVARIANTS
    RefsExact
    CachesAgree
    
    LimitsHeld

PROPERTY WorkCompletes

CHECK_DEADLOCK FALSE
