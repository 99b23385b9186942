SPECIFICATION FairSpec
CONSTANTS
    Worker = {w1, w2}
    Nobody = nobody
    MaxTasks = 3
PROPERTIES
    DestructorEnds
CHECK_DEADLOCK FALSE
