SPECIFICATION FairSpec
CONSTANTS
    Conns = {c1}
    Kinds = {"stream", "ring", "datagram"}
    Pacings = {"paced", "blast"}
    Gateways = {TRUE, FALSE}
    Shuffles = {FALSE}
    Watchdog = TRUE
    Capacity = 1
    TxBatch = 2
    RxBatch = 2
    MaxMsgs = 3
    MaxSlots = 3
    MaxFaults = 1
INVARIANTS
    TypeOK
    LossReportExact
    CooldownNeverRecorded
    WindowEdgesBlurredByOneBatch
    ScheduleNeverReused
    
PROPERTY
    RunReturns
