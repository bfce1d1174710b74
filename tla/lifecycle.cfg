SPECIFICATION FairExpressSpec
CONSTANTS
    s1 = s1
    s2 = s2
    a1 = a1
    a2 = a2
    a3 = a3
    u1 = u1
    u2 = u2
    u3 = u3
    Subs = {s1, s2}
    Callers = {a1, a2, a3}
    Opener = a1
    Closer = a2
    Users = {u1, u2, u3}
    Rounds = {"outbox", "inbox"}
    Apps = {"engine", "express"}
    Styles = {"tasks", "continuations", "dynamic"}
    MaxFaults = 2
    MaxCalls = 7
INVARIANTS
    NoLimbo
    OneConsumePerSubscription
    StartsApartFromStops
    StopHasLastWord
    ReadyIsTrue
    StoppedIsQuiet
PROPERTIES
    FailedShutdownBlocks
    CallsReturn
