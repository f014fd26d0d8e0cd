SPECIFICATION Spec
CONSTANTS
    Low = Low
    High = High
    None = None
    MaxSends = 5
    MaxSkip = 2
    MaxSkippedTotal = 2
CHECK_DEADLOCK FALSE
INVARIANTS
    ReplayRefused
    AnyOrderOpens
