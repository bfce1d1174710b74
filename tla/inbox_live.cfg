SPECIFICATION LiveSpec
CONSTANTS
    MaxInboxRetries = 3
    BaseDelay = 1
    MaxDelay = 1
    NumMsgs = 2
    Orphans = {1}
    Consumers = {c1, c2}
    Retriers = {r1}
    Operators = {}
    BatchSize = 2
    Window = 1
    Ahead = {c2, r1}
    Drift = 1
    MaxClock = 2
    MaxFaults = 2
    MaxDeliveries = 3
    MaxSeen = 3
    MaxCall = 1
INVARIANTS
    AckedIsStored
    DeadLetterEarned
    FirstAttemptProtected
PROPERTIES
    EventuallySettled
