CONSTANTS
    N = 2
    MaxPlays = 1
    MaxQueue = 1
    StructuredYield = TRUE
SPECIFICATION FairSpec
INVARIANT CombatIsScoped
PROPERTY TurnsGoOn
CHECK_DEADLOCK FALSE
