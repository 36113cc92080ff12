SPECIFICATION Spec
CONSTANTS
    s1 = s1
    s2 = s2
    Session = {s1, s2}
    Archiving = {s1}
    Diag = diag
    None = None
    SlotCount = 2
    Use <- EveryUse
INVARIANTS
    WorkerNeverRefuses
PROPERTIES
    NoSplice
    ClosedQueuesOnlyDrain
    ControlAdmitted
    FinishEnds
CHECK_DEADLOCK FALSE
