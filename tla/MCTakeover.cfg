SPECIFICATION Spec
CONSTANTS
    rtl = rtl
    sdrplay = sdrplay
    Radio = {rtl, sdrplay}
    Satcom = satcom
    Inmarsat = inmarsat
    Listen = listen
    Air = air
    None = None
    Use <- Uses
INVARIANTS
    EachHearsItsOwn
    ListenComesBack
    NothingIsLeftBehind
PROPERTIES
    FailedSessionsLetGo
CHECK_DEADLOCK FALSE
