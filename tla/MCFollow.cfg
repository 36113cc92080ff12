CONSTANTS
    Step = 500
    BurstLength = 2
    None = None
    Overlap = 1
    Use <- EveryUse
SPECIFICATION Spec
INVARIANTS
    TeardownIsReal
    ObserverInOrder
    GapIsBridged
    DeadFollowEnds
    SpokenFollowEnds
CHECK_DEADLOCK FALSE
