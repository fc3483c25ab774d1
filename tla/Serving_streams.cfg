SPECIFICATION MCSpec
CONSTANTS
    Request = {r1, r2}
    Id = {i1, i2}
    None = None
    NTokens = 1
CHECK_DEADLOCK FALSE
INVARIANTS
    DoneIsWhole
    CancelOnce
    Watched
PROPERTIES
    StreamsEnd
