SPECIFICATION Spec
CONSTANTS
    k1 = k1
    k2 = k2
    a1 = a1
    a2 = a2
    b1 = b1
    x = x
    c1 = c1
    c2 = c2
    c3 = c3
    n1 = n1
    n2 = n2
    NoConn = NoConn
    Tx = {a1, a2, b1, x}
    Key = {k1, k2}
    From <- MCFrom
    Nonce <- MCNonce
    Expiry <- MCExpiry
    WellSigned <- MCWellSigned
    Capacity = 2
    NodeId = {}
    Conn = {}
    NodeOf <- Nothing
    SlotSeconds = 1
    EpochSlots = 2
    BlockBuffer = 3
    MaxTxsPerBlock = 1
    StartTimes = {0}
    PromptProducer = FALSE
    MaxTime = 5
    MaxRequests = 5
    SubmitDeadline = 5
INVARIANTS
    PoolWithinCapacity
    MaxNonceExact
    AcceptedIsAccountedFor
    ExpiredIsLastInclusion
    EndpointsAgree
PROPERTIES
    ReadmitsOnlyLatestNonce
    ReportedFinalStays
    ImplementsLedger
