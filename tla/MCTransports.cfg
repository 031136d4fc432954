SPECIFICATION TransportSpec
CONSTANTS
    HEADER_LEN = 2
    MessageBytes = 3
    Cap = 10
    SockBuf = 4
    IovCap = 2
    TxBatch = 3
    RxBatch = 2
    MaxMsgs = 4
    DamagedTotals = {0, 2, 7, 10, 11}
    MaxDamaged = 1
    MaxProbes = 1
    Carriers = {"tcp", "classes", "tproxy", "local"}
    NConns = 3
    NRuns = 2
    NClasses = 2
    Connectors = {k1, k2}
    Harnesses = {"direct", "gateway"}
    NChurnRuns = 2
    MaxChurn = 1
INVARIANTS
    BytesInOrder
    BufferNeverFull
    DamageIsContained
    PairsMatch
PROPERTIES
    ImplementsChannel
    NoMessageStuck
    EndpointsReturn
CHECK_DEADLOCK FALSE
