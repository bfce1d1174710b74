SPECIFICATION TimelySpec
CONSTANTS
    w1 = w1
    w2 = w2
    t1 = t1
    t2 = t2
    t3 = t3
    t4 = t4
    Tokens = {t1, t2, t3, t4}
    NoOwner = NoOwner
    MaxRetries = 2
    BaseDelay = 1
    MaxDelay = 1
    NumMsgs = 2
    Workers = {w1, w2}
    Flushers = {}
    BatchSize = 2
    Lease = 2
    FlushDelay = 1
    Skew <- NoSkew
    MaxSkew = 0
    MaxClock = 2
    MaxFaults = 1
    MaxSeen = 2
    MaxCall = 0
SYMMETRY TokenSymmetry
INVARIANTS
    NoOverlappingEmission
    DuplicateHasCause
PROPERTIES
    ImplementsPromise
