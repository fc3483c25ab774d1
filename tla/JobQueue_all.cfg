CONSTANTS
    Jobs = {j1, j2}
    Workers = {w1, w2}
    Reapers = {r1}
    NoJob = NoJob
    MaxAttempts = 2
    MaxFaults = 1
    MaxRestarts = 1
    MaxReaps = 1
SPECIFICATION FairSpec
INVARIANTS
    SoleHolder
    NoJobLost
PROPERTIES
    ImplementsReliableDelivery
    EventuallySettled
CHECK_DEADLOCK FALSE
