SPECIFICATION FairSpec
CONSTANTS
    FilmShapes <- Film
    StreamShapes <- Stream
    MaxFilm = 2
    MaxStream = 2
    MaxTurns = 2
    MaxLosses = 1
INVARIANTS TypeOK DrawsWhatFits OneChain
PROPERTIES NeverBack NewestIsShown
CHECK_DEADLOCK FALSE
