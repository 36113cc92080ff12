SPECIFICATION Spec
CONSTANTS
    Ring = 3
    Join = 1
    Pull = 2
    Overlap = 1
    None = None
    Use <- EveryUse
INVARIANTS SingleFlight NothingSkipped LabelsAreTrue HeldIsRetried
CHECK_DEADLOCK FALSE
