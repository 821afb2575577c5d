SPECIFICATION InstallSpec
CONSTANTS
    MaxItems = 10
    MaxReports = 7
    MaxBurst = 3
INVARIANTS
    ItemsThenComplete
    ProgressComplete
PROPERTIES
    EverythingArrives
    InstallationEnds
    IsGeneratorTask
