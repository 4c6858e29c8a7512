CONSTANTS
    N = 3
    HandSize = 2
    MaxCaverns = 2
SPECIFICATION FairSpec
INVARIANT TypeOK
INVARIANT OneDecider
INVARIANT MulligansGoRound
INVARIANT HandsAsPromised
INVARIANT FirstLiveStarts
INVARIANT NoOrphanEntry
PROPERTY OpeningEnds
CHECK_DEADLOCK FALSE
