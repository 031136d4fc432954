SPECIFICATION ResumeSpec
CONSTANTS
    NScenarios = 2
    Kinds = {"plain", "streams"}
    MaxLaunches = 2
    TornWrites = FALSE
INVARIANT EveryScenarioListed
