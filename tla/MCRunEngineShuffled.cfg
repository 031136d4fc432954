SPECIFICATION Spec
CONSTANTS
    Conns = {c1, c2}
    Kinds = {"datagram"}
    Pacings = {"blast"}
    Gateways = {TRUE}
    Shuffles = {TRUE}
    Watchdog = FALSE
    Capacity = 1
    TxBatch = 1
    RxBatch = 1
    MaxMsgs = 1
    MaxSlots = 1
    MaxFaults = 0
SYMMETRY AnyConn

    
PROPERTY
    AggregateIsFinal
