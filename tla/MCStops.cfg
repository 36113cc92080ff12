SPECIFICATION FairSpec
CONSTANTS
    tunerA = tunerA
    tunerB = tunerB
    rtl = rtl
    duo = duo
    usb = usb
    Key = {rtl}
    Domain = {usb}
    Owner = {listen}
    Listen = listen
    Scoped = {s1}
    None = None
    NoKey = NoKey
    NoDomain = NoDomain
    MaxDevices = 1
    Worker = {w1}
    Gui = gui
    DeviceLists <- SingleLists
    Plans <- FreePlans
    NoDevice = NoDevice
    Yielding = {}
    MaxLeases = 1
    MaxCommands = 2
    MaxTunes = 1
    MaxRescans = 1
PROPERTIES
    StopsFinish
CHECK_DEADLOCK FALSE
