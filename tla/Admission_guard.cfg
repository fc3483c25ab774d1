SPECIFICATION Spec
CONSTANTS
    Request = {r1, r2}
    Limit = 2
    Window = 4
    Second = 3
    Delay = 1
    ReduceAt = 2
    SuspendAt = 3
    ViolationWindow = 2
    ReducedRateTTL = 1
    MaxTime = 5
    MaxRequests = 4
    MaxFaults = 1
SYMMETRY Symmetry
CHECK_DEADLOCK FALSE
INVARIANTS
    BoundedAdmission
    RetryAfterIsClose
    SuspendedForCause
