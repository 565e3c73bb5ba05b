CONSTANTS
    c1 = c1
    c2 = c2
    k1 = k1
    k2 = k2
    r1 = r1
    r2 = r2
    None = None
    Calls = {c1, c2}
    ReadOnlyCalls = {c2}
    Clients = {k1, k2}
    ClientOf <- TwoClients
    RequestIds = {r1, r2}
    IdOf <- OwnIds
    QueueCapacity = 1
    MaxGeneration = 1
    MaxCrashes = 1
    MaximumEntries = 1
    MaximumLeaseEntries = 2
    Lifetime = 1
    LeaseSequenceLifetime = 2
    MaxTime = 1
    NoResponse = NoResponse
    Never = Never
SPECIFICATION FairSpec
CHECK_DEADLOCK FALSE
INVARIANT AttemptsDoNotCollide
PROPERTIES
    KeepsPromise
    CallsAnswered
