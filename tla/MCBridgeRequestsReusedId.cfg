CONSTANTS
    c1 = c1
    c2 = c2
    k1 = k1
    k2 = k2
    r1 = r1
    r2 = r2
    None = None
    Calls = {c1, c2}
    ReadOnlyCalls = {}
    Clients = {k1}
    ClientOf <- OneClient
    RequestIds = {r1, r2}
    IdOf <- SharedId
    QueueCapacity = 1
    MaxGeneration = 1
    MaxCrashes = 0
    MaximumEntries = 2
    MaximumLeaseEntries = 1
    Lifetime = 1
    LeaseSequenceLifetime = 1
    MaxTime = 0
    NoResponse = NoResponse
    Never = Never
SPECIFICATION Spec
CHECK_DEADLOCK FALSE
INVARIANTS
    RetryIdentifierHonoured
