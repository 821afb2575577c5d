SPECIFICATION Spec
CONSTANTS
    Plans <- SmallPlans
    Offsets <- SmallOffsets
    FirstVersion = "v1"
    None = None
    MaxTime = 3
    MaxFaults = 1
INVARIANTS
    FirstSeenSurvives
    FirstSeenIsOwn
    ReportedWaitIsReal
    ReportedOnce
