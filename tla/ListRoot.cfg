SPECIFICATION Spec
CONSTANTS
    Strings = {1, 2, 3, 4, 5}
    MaxLen = 5
INVARIANTS
    RootIsReference
    RootIdentifiesList
