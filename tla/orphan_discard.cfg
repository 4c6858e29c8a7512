CONSTANTS
    N = 3
    MaxPlays = 1
    MaxQueue = 0
    StructuredYield = FALSE
SPECIFICATION Spec
INVARIANT DiscarderIsPresent
CHECK_DEADLOCK FALSE
