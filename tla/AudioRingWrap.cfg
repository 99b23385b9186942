SPECIFICATION Spec
CONSTANTS
    Size = 5
    Width = 16
    Frame <- MCFrame
    Want = 2
    Prebuffer = 2
    MaxFrames = 9
    MaxLogo = 0
    MaxSize = 12
INVARIANTS
    NothingLost
CHECK_DEADLOCK FALSE
