SPECIFICATION Spec
CONSTANTS
    Messages = 2
    PartsPerMsg = 3
INVARIANTS
    TypingOnlySends
