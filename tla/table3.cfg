CONSTANTS
    N = 3
    MaxPlays = 1
    MaxQueue = 0
    StructuredYield = FALSE
SPECIFICATION Spec
INVARIANTS
    TypeOK
    AwaitedPlayerIsPresent
    OutcomeAgreesWithSurvivors
    PassesAreDistinct
    CleanupIsAccounted
    BlocksInTurnOrder
    NoOtherStall
PROPERTIES
    RoundIsComplete
    DepartedLeaveNothing
    LossesWaitForTransactions
CHECK_DEADLOCK FALSE
