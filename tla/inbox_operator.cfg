SPECIFICATION Spec
CONSTANTS
    c1 = c1
    r1 = r1
    o1 = o1
    MaxInboxRetries = 2
    BaseDelay = 1
    MaxDelay = 1
    NumMsgs = 1
    Orphans = {}
    Consumers = {c1}
    Retriers = {r1}
    Operators = {o1}
    BatchSize = 2
    Window = 1
    Ahead = {r1}
    Drift = 1
    MaxClock = 1
    MaxFaults = 1
    MaxDeliveries = 1
    MaxSeen = 3
INVARIANTS
    ProcessedWasHandled
PROPERTIES
    ReopenedOnlyByOverlap
