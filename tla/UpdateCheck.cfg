SPECIFICATION Spec
CONSTANTS
    a = a
    b = b
    u = u
    Apps = {a, b}
    Responses <- SmallResponses
    RetryAfter <- SmallRetryAfter
    MaxFailures = 2
    MaxFaults = 1
INVARIANTS
    TypeOK
    EventsMatchOutcome
    NothingUnsavedAtRest
    DictatedIntervalOnDisk
    NoRetryOnceToldToWait
    OutcomeOnDisk
    InstallOutcomeCounted
PROPERTIES
    Observed
