SPECIFICATION Spec
CONSTANTS
    Plans <- SmallPlans
    Offsets <- SmallOffsets
    FirstVersion = "v1"
    None = None
    MaxTime = 4
    MaxFaults = 0
INVARIANTS
    ReportIsOfRunningSoftware
