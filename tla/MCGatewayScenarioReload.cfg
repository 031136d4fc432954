SPECIFICATION FairSpec
CONSTANTS
    NScenarios = 2
    NGateways = 2
    Pids = {1, 2}
    Kinds = {"watched", "rotate_cert"}
INVARIANT ReloadSignalsOwnGateway
