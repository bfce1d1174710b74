SPECIFICATION DirectSpec
CONSTANTS
    w1 = w1
    w2 = w2
    t1 = t1
    t2 = t2
    t3 = t3
    Tokens = {t1, t2, t3}
    NoOwner = NoOwner
    MaxRetries = 2
    BaseDelay = 1
    MaxDelay = 1
    NumMsgs = 1
    Workers = {w1}
    Flushers = {}
    BatchSize = 1
    Lease = 1
    FlushDelay = 1
    Skew <- NoSkew
    MaxSkew = 0
    MaxClock = 2
    MaxFaults = 1
    MaxSeen = 2
    Modes = {"deferred", "plain", "tx_immediate"}
    Manual = TRUE
SYMMETRY TokenSymmetry
INVARIANTS
PROPERTIES
    RevivedOnlyByItsPublisher
    ClaimBrokenOnlyDirectly
