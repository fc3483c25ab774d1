SPECIFICATION FairSpec
CONSTANTS
    Jobs = {j1, j2}
    one = one
    other = other
    bad = bad
    r1 = r1
    r2 = r2
    Inputs = {one, other, bad}
    Refs = {r1, r2}
    Malformed = Malformed
    Parse <- MCParse
    c1 = c1
    c2 = c2
    c3 = c3
    c4 = c4
    Commits = {c1, c2, c3, c4}
    Heads <- MCHeads
    Oversized = {c3}
    Weightless = {c4}
    NoCommit = NoCommit
    Workers = 2
    MaxAttempts = 2
    MaxTrouble = 1
INVARIANTS
    RowCoherent
    AckedMeansDone
    LinkedToItsCommit
CHECK_DEADLOCK FALSE
PROPERTIES
    EventuallyResolved
