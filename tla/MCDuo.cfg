SPECIFICATION Spec
CONSTANTS
    tunerA = tunerA
    tunerB = tunerB
    rtl = rtl
    duo = duo
    usb = usb
    Key = {tunerA, tunerB}
    Domain = {duo}
    Owner = {listen}
    Listen = listen
    Scoped = {s1}
    None = None
    NoKey = NoKey
    NoDomain = NoDomain
    MaxDevices = 2
    Worker = {w1}
    Gui = gui
    DeviceLists <- DuoLists
    Plans <- FreePlans
    NoDevice = NoDevice
    Yielding = {}
    MaxLeases = 2
    MaxCommands = 1
    MaxTunes = 0
    MaxRescans = 1
INVARIANTS
    LeaseExclusive
    PermitExclusive
    NoReplacementDuringCommand
PROPERTIES
    StaleTokensStayDead
SYMMETRY TunerSymmetry
CHECK_DEADLOCK FALSE
