SPECIFICATION FairSpec
CONSTANTS
    Messages = 4
    PartsPerMsg = 3
INVARIANTS
    HandledInOrder
    BadLineIsTruncation
PROPERTIES
    SentIsHandled
