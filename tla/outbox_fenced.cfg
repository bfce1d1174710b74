SPECIFICATION Spec
CONSTANTS
    w1 = w1
    w2 = w2
    t1 = t1
    t2 = t2
    t3 = t3
    t4 = t4
    Tokens = {t1, t2, t3}
    NoOwner = NoOwner
    MaxRetries = 2
    BaseDelay = 1
    MaxDelay = 2
    NumMsgs = 1
    Workers = {w1, w2}
    Flushers = {w2}
    BatchSize = 2
    Lease = 1
    FlushDelay = 1
    Skew <- AheadW2
    MaxSkew = 1
    MaxClock = 3
    MaxFaults = 1
    MaxSeen = 2
SYMMETRY TokenSymmetry
INVARIANTS
    
    PublishedWasAccepted
    AcceptedWasCommitted
    DeadLetterEarned
PROPERTIES
    LiveClaimRespected
    PublishedIsFinal
