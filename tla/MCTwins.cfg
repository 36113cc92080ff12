SPECIFICATION Spec
CONSTANTS
    tunerA = tunerA
    tunerB = tunerB
    rtl = rtl
    duo = duo
    usb = usb
    Key = {rtl, tunerA}
    Domain = {usb, duo}
    Owner = {listen, satcom}
    Listen = listen
    Scoped = {}
    None = None
    NoKey = NoKey
    NoDomain = NoDomain
    MaxDevices = 2
    Worker = {w1}
    Gui = gui
    DeviceLists <- TwinLists
    Plans <- TwinPlans
    NoDevice = NoDevice
    Yielding = {satcom}
    MaxLeases = 1
    MaxCommands = 1
    MaxTunes = 0
    MaxRescans = 2
INVARIANTS
    PinnedRadiosKeepIdentity
    TeardownIsAlone
PROPERTIES
    OwnershipSpec
CHECK_DEADLOCK FALSE
