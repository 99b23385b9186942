SPECIFICATION LFairSpec
CONSTANTS
    MaxRuns = 3
    MaxPlayers = 1
INVARIANTS
    LTypeOK
    LoopOwnsEndpoint
    StoppedIsStopped
    NoSocketOnFirstPage
    LatestLoginWins
PROPERTIES
    StopReturns
    LossEndsTheLoop
    RequestsHandled
CHECK_DEADLOCK FALSE
