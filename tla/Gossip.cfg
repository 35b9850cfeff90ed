SPECIFICATION Spec
CONSTANTS
    k1 = k1
    k2 = k2
    a1 = a1
    a2 = a2
    b1 = b1
    x = x
    c1 = c1
    c2 = c2
    c3 = c3
    n1 = n1
    n2 = n2
    NoConn = NoConn
    Tx = {a1, a2}
    Key = {k1}
    From <- OneKeyFrom
    Nonce <- OneKeyNonce
    Expiry <- OneKeyExpiry
    WellSigned <- OneKeyWellSigned
    Capacity = 1
    NodeId = {n1, n2}
    Conn = {c1, c2}
    NodeOf <- TwoNodes
    SlotSeconds = 1
    EpochSlots = 1
    BlockBuffer = 2
    MaxTxsPerBlock = 1
    StartTimes = {0}
    PromptProducer = TRUE
    MaxTime = 1
    MaxRequests = 3
    SubmitDeadline = 2
SYMMETRY SwapPeers
INVARIANTS
    TypeOK
    OpenIsRegistered
    AnnouncedInNonceOrder
    AckIsTruthful
    PendingAtPeerIsPending
