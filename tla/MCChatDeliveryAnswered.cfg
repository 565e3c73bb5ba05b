CONSTANTS
    None = None
    Chats = {m1}
    QueueCapacity = 1
    SessionEventCapacity = 1
    ChatQueueCapacity = 1
    PendingEventCapacities = {1}
    DeliveredCapacity = 1
    MaxGeneration = 2
    Connections <- TwoConnections
    MaxCrashes = 1
SPECIFICATION FairSpec
CHECK_DEADLOCK FALSE
PROPERTIES
    AcceptedAnswered
