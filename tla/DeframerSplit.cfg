SPECIFICATION Spec
CONSTANTS
    Payload <- MCPayload
    MaxChunk = 9
    Garbage <- MCGarbage
    MaxConns = 1
INVARIANTS
    HeaderSafe
CHECK_DEADLOCK FALSE
