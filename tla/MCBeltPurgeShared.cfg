CONSTANTS
    trunk = trunk
    feeder = feeder
    spur = spur
    splitter = splitter
    machine = machine
    None = None
    Chains = {trunk, feeder, spur}
    Attachments = {splitter}
    Machines = {machine}
    Wirings <- TreeAndLoop
    Purges = {p1, p2}
    MaximumItemsPerTick = 6
    ChainCapacity = 2
    BufferCapacity = 1
    MaxItems = 1
    MaxEvents = 2
SPECIFICATION FairSpec
CHECK_DEADLOCK FALSE
INVARIANTS
    BudgetKept
PROPERTIES
    GathersNetwork
    RemovesWhatItCounts
    CompleteIsEmpty
    PurgeEnds
