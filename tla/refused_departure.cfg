CONSTANTS
    ann = ann
    bob = bob
    cid = cid
    Player <- MCPlayer
    Automated <- MCNobody
    None = None
    Orphan = Orphan
    Plan = 0
    MaxConns = 1
    MaxIndex <- MCOneGame
SPECIFICATION Spec
INVARIANT DepartureSparesTheOthers
SYMMETRY Others
CHECK_DEADLOCK FALSE
