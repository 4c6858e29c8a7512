CONSTANTS
    N = 3
    MaxPlays = 1
    MaxQueue = 2
    StructuredYield = FALSE
SPECIFICATION Spec
PROPERTY TurnOrderHolds
CONSTRAINT NobodyAttacks
CHECK_DEADLOCK FALSE
