SPECIFICATION FairNetSpec
CONSTANTS
    k1 = k1
    k2 = k2
    a1 = a1
    a2 = a2
    b1 = b1
    x = x
    c1 = c1
    c2 = c2
    c3 = c3
    n1 = n1
    n2 = n2
    NoConn = NoConn
    Tx = {a1, a2}
    Key = {k1}
    From <- OneKeyFrom
    Nonce <- OneKeyNonce
    Expiry <- OneKeyExpiry
    WellSigned <- OneKeyWellSigned
    Capacity = 1
    NodeId = {n1}
    Conn = {c1}
    NodeOf <- OneNode
    SlotSeconds = 1
    EpochSlots = 2
    BlockBuffer = 2
    MaxTxsPerBlock = 1
    StartTimes = {0}
    PromptProducer = TRUE
    MaxTime = 3
    MaxRequests = 2
    SubmitDeadline = 1
INVARIANTS
    ClientPoolIsPending
PROPERTIES
    BroadcastArrives
    ClientPoolDrains
