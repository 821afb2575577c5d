SPECIFICATION Spec
CONSTANTS
    None = None
    Ids = {"A", "B"}
    Data <- SmallData
    Params <- SmallParams
    Events <- SmallEvents
    MaxCalls = 3
    MaxBuilds = 2
    Configurations <- SmallConfigurations
    CohortAssertions <- SmallCohorts
    MaxChanges = 1
CHECK_DEADLOCK FALSE
INVARIANTS
    EntriesAreWhatWasAdded
    OfferedIsConfigured
