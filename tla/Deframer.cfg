SPECIFICATION Spec
CONSTANTS
    Payload <- MCPayload
    MaxChunk = 9
    Garbage <- MCGarbage
    MaxConns = 3
INVARIANTS
    TypeOK
    RoutedExactly
CHECK_DEADLOCK FALSE
