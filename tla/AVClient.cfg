SPECIFICATION FairSpec
CONSTANTS
    Size <- MCSize
    MaxSends = 3
    MaxConns = 3
INVARIANTS
    TypeOK
    OneLifeline
    NoTimerOutlives
    SendOrder
    WholeMessages
    DroppedWithItsConnection
PROPERTIES
    KeepsTrying
CHECK_DEADLOCK FALSE
