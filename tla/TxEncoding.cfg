SPECIFICATION Spec
CONSTANTS
    Base = 2
    U32 = 1
    U64 = 3
    U128 = 2
    KeyLen = 1
    Keys <- MCKeys
    Nonces = {0, 1, 2}
    Payloads <- MCPayloads
    Addresses <- MCAddresses
    Amounts = {0, 2}
    Ttl = 2
    MaxTime = 4
    MaxMade = 2
INVARIANTS
    VerifiesWhileItLives
    IdIsIdentity
