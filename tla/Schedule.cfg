SPECIFICATION Spec
CONSTANTS
    None = None
    MaxMicros = 2
    Builds <- SmallBuilds
    Delay = 1000
    MinWait = 500
    CHECK_REBOOT_ALLOWED_INTERVAL = 1500
    Step = 500
    Offsets <- SmallOffsets
    MaxTime = 2500
INVARIANTS
    TypeOK
PROPERTIES
    ChecksApart
    AskedInTime
    IntervalIsReal
    EveryWaitEnds
