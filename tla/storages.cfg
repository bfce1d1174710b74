CONSTANTS
    Sites <- MCSites
    Msgs <- MCMsgs
    CreatedAt <- MCCreatedAt
    Workers = {w1, w2}
    Deliveries <- MCDeliveries
    Keys = {"k1", "k2"}
    KeyOf <- MCKeyOf
    Loads <- MCLoads
    NoOwner = NoOwner
    NoOne = NoOne
    MaxRetries = 2
    MaxInboxRetries = 2
    Limit = 1
    Lease = 1
    MaxClaims = 1
    MaxFailures = 2
    MaxTime = 2
SPECIFICATION Spec
INVARIANTS HeldClaimsAreOwned InsertedOnce ReadsAreComplete
PROPERTY CallsHonourContract
CHECK_DEADLOCK FALSE
