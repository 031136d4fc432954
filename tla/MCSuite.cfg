SPECIFICATION SuiteSpec
CONSTANTS
    Cases <- MCCases
    NScenarios = 3
    Kinds = {"plain", "streams", "reload", "throughput", "latency"}
    MaxLaunches = 2
    TornWrites = TRUE
INVARIANTS
    PathCoherent
    CeilingComparable
    HostRestored
    FullProtectionLabelled
    GeneratedRowsMeasured
    AbortsExplained
    AccountedFor
    RowIsOneMeasurement
    PacedAlike
PROPERTIES
    SuiteEnds
    RecordedIsKept
CHECK_DEADLOCK FALSE
