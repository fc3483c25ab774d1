CONSTANTS
    Deployments = {d1}
    Allocs = {a1, a2}
    None = None
    Actors = {"enforcer"}
    Replace = TRUE
    QuickStop = TRUE
    MaxFailures = 1
    MaxFaults = 0
    MaxRestarts = 0
SPECIFICATION Spec
PROPERTIES
    ListsEveryWorkload
CHECK_DEADLOCK FALSE
