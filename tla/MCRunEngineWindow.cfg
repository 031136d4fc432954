SPECIFICATION Spec
CONSTANTS
    Conns = {c1}
    Kinds = {"stream"}
    Pacings = {"blast"}
    Gateways = {FALSE}
    Shuffles = {FALSE}
    Watchdog = FALSE
    Capacity = 1
    TxBatch = 1
    RxBatch = 1
    MaxMsgs = 2
    MaxSlots = 1
    MaxFaults = 0
INVARIANT
    WarmupAndCooldownExcluded
