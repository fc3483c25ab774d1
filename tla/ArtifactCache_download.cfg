SPECIFICATION Spec
CONSTANTS
    Downloads = {d1, d2}
    Keys = {k1}
    NoKey = NoKey
    Parts = 2
    Concurrency = 2
    MaxAttempts = 2
    MaxFaults = 2
INVARIANTS
    CorruptIsTemporary
    SuccessIsLive
    LeftInOrder
    NoSpuriousFailure
CHECK_DEADLOCK FALSE
