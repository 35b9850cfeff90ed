SPECIFICATION FairSpec
CONSTANTS
    c1 = c1
    c2 = c2
    k1 = k1
    k2 = k2
    ks = ks
    NoConn = NoConn
    Conn = {c1, c2}
    Key = {k1, k2, ks}
    KeyChoices <- MCKeyChoices
    ServerKey = ks
    Askers = {c1}
    MaxAsked = 1
    MaxBlocks = 1
INVARIANTS
    DoneIsReleased
    CleanClose
PROPERTIES
    HandshakeCompletes
    HandlerFinishes
    RequestsAreAnswered
    BroadcastEnds
