SPECIFICATION NetSpec
CONSTANTS
    k1 = k1
    k2 = k2
    a1 = a1
    a2 = a2
    b1 = b1
    x = x
    c1 = c1
    c2 = c2
    c3 = c3
    n1 = n1
    n2 = n2
    NoConn = NoConn
    Tx = {}
    Key = {}
    From <- Nothing
    Nonce <- Nothing
    Expiry <- Nothing
    WellSigned = {}
    Capacity = 1
    NodeId = {n1}
    Conn = {c1}
    NodeOf <- OneNode
    SlotSeconds = 2
    EpochSlots = 2
    BlockBuffer = 3
    MaxTxsPerBlock = 1
    StartTimes = {0, 1, 5}
    PromptProducer = FALSE
    MaxTime = 15
    MaxRequests = 0
    SubmitDeadline = 0
INVARIANTS
    ChainIsLinked
    BlocksAreRecent
    FinalityTrailsSlots
    HintIsWakeTime
    ClientAgreesOnFinality
PROPERTIES
    FinalityNeverRetreats
