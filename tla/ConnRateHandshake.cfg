SPECIFICATION ChurnSpec
CONSTANTS
    MaxProbes = 1
    Connectors = {k1}
    Harnesses = {"gateway"}
    NChurnRuns = 1
    MaxChurn = 1
INVARIANT HandshakeCompletesPath
CHECK_DEADLOCK FALSE
