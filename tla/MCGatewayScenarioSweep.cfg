SPECIFICATION FairSpec
CONSTANTS
    NScenarios = 1
    NGateways = 2
    Pids = {1, 2}
    Kinds = {"watched"}
PROPERTY ScenarioNeverHangsSuite
