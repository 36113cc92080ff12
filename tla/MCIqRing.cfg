SPECIFICATION Spec
CONSTANTS
    am = am
    nfm = nfm
    sstv = sstv
    Reader = {am, nfm, sstv}
    None = None
    Capacity = 4
    MaxSamples = 2
    MaxLag = 3
    FadeLen = 1
    Block = {1, 3}
    Centre = {1, 2, 4}
    HopLimit = 1
    Use <- EveryUse
INVARIANTS
    GapsAreSeen
    WindowsArePure
    SatelliteStream
CHECK_DEADLOCK FALSE
