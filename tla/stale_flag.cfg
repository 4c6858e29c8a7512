CONSTANTS
    N = 2
    MaxPlays = 1
    MaxQueue = 0
    StructuredYield = FALSE
SPECIFICATION Spec
INVARIANT AssignmentFlagIsExact
CHECK_DEADLOCK FALSE
