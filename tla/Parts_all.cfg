SPECIFICATION Spec
CONSTANTS
    t1 = t1
    t2 = t2
    b1 = b1
    b2 = b2
    b3 = b3
    Devices = {v1}
    Tenants = {t1, t2}
    Allocs = {b1, b2, b3}
    TenantOf <- MCTenantOf
    Zeroers = {z1, z2}
    None = None
    MaxFaults = 2
    k1 = k1
    k2 = k2
    k3 = k3
    Key = {k1, k2, k3}
    Size <- MCSize
    NoKey = NoKey
    MaxBytes = 4
    Deployment = {d1, d2}
    Adapter = {a1, a2, a3}
    NoAdapter = NoAdapter
    MaxSlots = 2
    Conn = {c1, c2}
    BufferSize = 2
    Sample = {s1, s2}
    Job = {j1, j2}
    NoJob = NoJob
    Threshold = 1
    MaxTime = 4
    g1 = g1
    g2 = g2
    g3 = g3
    Replica = {g1, g2, g3}
    Nobody = Nobody
    Ghost = Ghost
    Files <- MCFiles
    MaxTroubles = 2
    MaxNodes = 3
    MaxFree = 3
    MaxInt = 15
    MaxAttempts = 7
    Call = {q1, q2}
    Exempt = {q1}
    DefaultPolicy <- MCPolicy
CHECK_DEADLOCK FALSE
INVARIANTS
    ExclusiveTenancy
    NoForeignData
    CacheSound
    PoolInStep
    OpenWhileSubscribed
    NoSampleLost
    MigratedInOrder
    StartsUndisturbed
    DecisionsRight
PROPERTIES
    EventuallyReclaimed
    GoneIsUnsubscribed
    StopsGracefully
