CONSTANTS
    Deployments = {d1}
    Allocs = {a1, a2}
    None = None
    Actors = {"reaper", "enforcer", "reconciler"}
    Replace = TRUE
    QuickStop = TRUE
    MaxFailures = 1
    MaxFaults = 1
    MaxRestarts = 1
SPECIFICATION Spec
SYMMETRY Symmetry
INVARIANTS
    RecordFollows
PROPERTIES
    NoReprovision
CHECK_DEADLOCK FALSE
