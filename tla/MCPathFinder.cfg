CONSTANTS
    a = a
    b = b
    c = c
    ab = ab
    bc = bc
    ac = ac
    ca = ca
    v1 = v1
    v2 = v2
    Nodes = {a, b, c}
    Apart <- Distance
    Segments = {ab, bc, ac, ca}
    Start <- From
    End <- To
    Length <- Lengths
    Impassable = {}
    Vehicles = {v1, v2}
    Routes <- SomeRoutes
    LoadedNetworks <- SomeNetworks
    LoadedFleets <- SomeFleets
    MaxShape = 2
    MaxChanges = 2
    Unresolved = {}
    NoWorld = NoWorld
    WindowSampleCount = 2
    MaxMoving = 1
    Dead = Dead
    None = None
SPECIFICATION Spec
CHECK_DEADLOCK FALSE
INVARIANTS
    SearchesAreExact
    UsageMatchesRoutes
    SnapshotIsCurrent
    LayerIsCurrent
    OverlayMatchesTraffic
PROPERTIES
    NothingForgotten
    MapShowsNetwork
