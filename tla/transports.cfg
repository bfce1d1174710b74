SPECIFICATION TransportsSpec
CONSTANTS
    c1 = c1
    c2 = c2
    t1 = t1
    t2 = t2
    p1 = p1
    p2 = p2
    g1 = g1
    g2 = g2
    m1 = m1
    m2 = m2
    s1 = s1
    s2 = s2
    grp = grp
    None = None
    Subs = {s1, s2}
    Groups = {grp}
    Msgs = {m1, m2}
    GroupOf <- OneGroup
    TopicOf <- TopicsOf
    Overlap = FALSE
    Requeue = FALSE
    Attempts = 3
    Concurrent = TRUE
    MaxLinks = 3
    MaxTags = 1
    Loads <- TwoLoads
    MaxFaults <- FaultsOf
    Calls = {c1, c2}
    Topics = {t1, t2}
    Processes = {p1, p2}
    Homes <- TwoHomes
    Wishes <- TwoWishes
    Malformed <- FirstIsBad
    LogEnd = 2
    MaxMisses = 1
    Subscribers = {c1, c2}
    Arns = {t1, t2}
    ArnOf <- EachItsArn
    Pollers = {1}
    Messages = {m1, m2}
    Unreadable = {m2}
    Foreign = Foreign
    BatchSize = 2
    MaxReceipts = 2
    MaxErrors = 1
    Requests = {c1, c2}
    BusTopics = {t1}
    BusGroups = {g1, g2}
    TopicFor <- SameTopic
    GroupFor <- TwoGroups
    Letters = {m1}
    MaxTroubles = 2
    Emits = {m1}
    Tries = 3
    MaxConns = 3
    MaxBreaks = 2
    Sends = {m1, m2}
    AutoCreate = TRUE
    MaxClients = 2
    MaxRefusals = 1
CHECK_DEADLOCK FALSE
INVARIANTS
    SettledWasHandled EmitWasTaken SubscriptionsServed NothingLeaked
PROPERTIES
    MessagesEnd CallsSettle LinksRecover
