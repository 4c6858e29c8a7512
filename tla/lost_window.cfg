CONSTANTS
    N = 3
    MaxPlays = 1
    MaxQueue = 0
    StructuredYield = FALSE
SPECIFICATION Spec
PROPERTY EveryoneIsAsked
CHECK_DEADLOCK FALSE
