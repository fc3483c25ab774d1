CONSTANTS
    Deployments = {d1, d2}
    Allocs = {a1, a2}
    None = None
    Actors = {"enforcer"}
    Replace = TRUE
    QuickStop = TRUE
    MaxFailures = 0
    MaxFaults = 2
    MaxRestarts = 1
SPECIFICATION Spec
SYMMETRY Symmetry
INVARIANTS
    LiveIsStopped
CHECK_DEADLOCK FALSE
