CONSTANTS
    ann = ann
    bob = bob
    cid = cid
    Player <- MCPlayer
    Automated <- MCAutomated
    None = None
    Orphan = Orphan
    Plan = 1
    MaxConns = 2
    MaxIndex <- MCTwoGames
SPECIFICATION Spec
INVARIANT TypeOK
INVARIANT AnswersMatchRequests
INVARIANT NoSilentFreeze
INVARIANT TableAndEngineAgree
INVARIANT AwayIsPaused
INVARIANT YieldKeepsGoing
PROPERTY AbsentNeverActs
PROPERTY OnlyOwnerResumes
SYMMETRY Others
CHECK_DEADLOCK FALSE
