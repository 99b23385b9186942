SPECIFICATION Spec
CONSTANTS
    Size = 5
    Width = 64
    Frame <- MCFrame
    Want = 2
    Prebuffer = 2
    MaxFrames = 5
    MaxLogo = 2
    MaxSize = 18
INVARIANTS
    NothingLost
    OneFrameLost
CHECK_DEADLOCK FALSE
