SPECIFICATION FairSpec
CONSTANTS
    HeartEvery = 3
    Timeout = 3
    TriggerAfter = 1
    MaxConns = 3
INVARIANTS
    TypeOK
    RequestTimesOut
    HeartbeatPerConnection
    StreamPerConnection
PROPERTIES
    EarlyOnlyAfterErasure
    RequestSettles
