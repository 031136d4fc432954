SPECIFICATION FairSpec
CONSTANTS
    NScenarios = 2
    NGateways = 2
    Pids = {1, 2}
    Kinds = {"watched", "invalid_config", "rotate_cert", "update_profile", "manage"}
INVARIANTS
    TypeOK
    NoOrphanGateway
    KillsOnlyOwn
    ConfigRemoved
    ReloadReportFinal
PROPERTY
    WatchedScenarioEnds
