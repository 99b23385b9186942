SPECIFICATION FairSpec
CONSTANTS
    Worker = {w1, w2}
    Nobody = nobody
    MaxTasks = 3
INVARIANTS
    TakenInOrder
    NobodySleepsOnWork
PROPERTIES
    EveryTaskTaken
    StopEnds
CHECK_DEADLOCK FALSE
