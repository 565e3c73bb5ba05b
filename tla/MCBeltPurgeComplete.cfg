CONSTANTS
    trunk = trunk
    feeder = feeder
    spur = spur
    splitter = splitter
    machine = machine
    None = None
    Chains = {trunk, feeder, spur}
    Attachments = {splitter}
    Machines = {machine}
    Wirings <- TreeAndLoop
    Purges = {p1}
    MaximumItemsPerTick = 2
    ChainCapacity = 2
    BufferCapacity = 1
    MaxItems = 2
    MaxEvents = 1
SPECIFICATION Spec
CHECK_DEADLOCK FALSE
PROPERTIES
    CompleteMeansPurged
