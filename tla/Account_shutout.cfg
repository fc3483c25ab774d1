SPECIFICATION Spec
CONSTANTS
    Request = {r1, r2}
    Token = {t1, t2, t3}
    Key = {k1, k2}
    None = None
    MaxStarts = 4
SYMMETRY Symmetry
CHECK_DEADLOCK FALSE
INVARIANTS
    SuspendedIsShutOut
