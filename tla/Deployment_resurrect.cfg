CONSTANTS
    Deployments = {d1}
    Allocs = {a1}
    None = None
    Actors = {"enforcer"}
    Replace = TRUE
    QuickStop = TRUE
    MaxFailures = 0
    MaxFaults = 0
    MaxRestarts = 0
SPECIFICATION Spec
PROPERTIES
    TerminalIsFinal
CHECK_DEADLOCK FALSE
