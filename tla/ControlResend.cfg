SPECIFICATION Spec
CONSTANTS
    HeartEvery = 3
    Timeout = 3
    TriggerAfter = 1
    MaxConns = 3
PROPERTIES
    NoResend
