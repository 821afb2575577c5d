SPECIFICATION Spec
CONSTANTS
    None = None
    MaxMicros = 10
    Builds <- DurableBuild
    Delay = 1000
    MinWait = 500
    CHECK_REBOOT_ALLOWED_INTERVAL = 1500
    Step = 500
    Offsets <- RightClock
    MaxTime = 2500
PROPERTIES
    CheckTimeStored
