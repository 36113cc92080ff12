SPECIFICATION FairSpec
CONSTANTS
    f1 = f1
    f2 = f2
    Freq = {f1, f2}
    MaxGen = 5
    MaxTunes = 2
INVARIANTS
    TypeOK
    RingIsCurrent
    NativeHandlesDontOverlap
    AppliedMeansTuned
PROPERTIES
    LaunchNeverOverwrites
    LifecycleIsFreed
CHECK_DEADLOCK FALSE
