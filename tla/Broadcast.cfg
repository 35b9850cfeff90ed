SPECIFICATION Spec
CONSTANTS
    k1 = k1
    k2 = k2
    a1 = a1
    a2 = a2
    b1 = b1
    x = x
    c1 = c1
    c2 = c2
    c3 = c3
    n1 = n1
    n2 = n2
    NoConn = NoConn
    Tx = {}
    Key = {}
    From <- Nothing
    Nonce <- Nothing
    Expiry <- Nothing
    WellSigned = {}
    Capacity = 1
    NodeId = {n1, n2}
    Conn = {c1, c2, c3}
    NodeOf <- SharedNode
    SlotSeconds = 1
    EpochSlots = 1
    BlockBuffer = 2
    MaxTxsPerBlock = 1
    StartTimes = {0}
    PromptProducer = TRUE
    MaxTime = 3
    MaxRequests = 0
    SubmitDeadline = 2
INVARIANTS
    EntriesAreLive
    StreamIsContiguous
