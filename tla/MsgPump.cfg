SPECIFICATION FairSpec
CONSTANTS
    Producer = {p1, p2}
    Pump = pump
    Owner = {o1}
    Destroyer <- OnPump
    Delay <- MCDelay
    Times <- MCTimes
    MaxPosts = 2
    MaxTick = 3
INVARIANTS
    ImmediateFIFO
    NeverEarly
    PosterOrder
    TimerConservation
PROPERTIES
    RefinesTaskService
    EveryPostServed
CHECK_DEADLOCK FALSE
