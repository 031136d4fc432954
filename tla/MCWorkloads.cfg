SPECIFICATION WorkSpec
CONSTANTS
    Kinds = {"stream", "datagram", "ring"}
    Gateways = {TRUE, FALSE}
    Capacity = 2
    MaxSends = 4
    MaxFaults = 1
    Streams = {1, 2}
    TrafficClass <- MCTrafficClass
    MaxMsgs = 3
    StreamCapacity = 1
    Links = {1, 2}
    MaxSent = 2
    Window = 1
INVARIANTS
    EchoDebt
    IntegrityExactWithoutTimeouts
    OneLateSample
    SafetyVerdictExact
    ReportComplete
PROPERTIES
    RunReturns
    WorkloadsReturn
CHECK_DEADLOCK FALSE
