CONSTANTS
    None = None
    Chats = {m1, m2}
    QueueCapacity = 2
    SessionEventCapacity = 1
    ChatQueueCapacity = 1
    PendingEventCapacities = {1, 2}
    DeliveredCapacity = 2
    MaxGeneration = 2
    Connections <- SomeConnections
    MaxCrashes = 0
SYMMETRY Symmetry
SPECIFICATION Spec
CHECK_DEADLOCK FALSE
INVARIANTS
    TypeOK
    CountMatchesWork
    NothingLost
    ShownOnce
    AcceptedFirst
    ShownInOrder
