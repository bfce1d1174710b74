SPECIFICATION Spec
CONSTANTS
    s1 = s1
    s2 = s2
    grp = grp
    m1 = m1
    m2 = m2
    Subs = {s1, s2}
    Groups = {grp}
    Msgs = {m1, m2}
    GroupOf <- OneGroup
    TopicOf <- TopicsOf
    Overlap = TRUE
    Requeue = FALSE
    Attempts = 2
    Concurrent = FALSE
    MaxLinks = 3
    MaxTags = 1
    Loads <- BothLoaded
    MaxFaults <- TwoFaults
INVARIANT AckedAfterItsHandler
