SPECIFICATION Spec
CONSTANTS
    i1 = i1
    i2 = i2
    p1 = p1
    p2 = p2
    p3 = p3
    k1 = k1
    k2 = k2
    None = None
    Instances = {i1, i2}
    Callers = {p1, p2, p3}
    InstanceOf <- MCInstanceOf
    Keys = {k1}
    HashKey <- MCHashKey
    PoolSize = 2
    MaxLosses = 1
    MaxErrors = 1
    MaxCloses = 1
INVARIANTS
    TypeOK
    DedicatedConn
    MutualExclusion
    ReleasedWhenQuiet
