CONSTANTS
    s1 = s1
    g1 = g1
    g2 = g2
    l1 = l1
    l2 = l2
    Signs = {s1}
    StationSigns = {g1, g2}
    Mirrors = {m1, m2}
    Lifts = {l1, l2}
    Stations = {t1, t2}
    Near <- NearBoth
    Texts = {a, b}
    None = None
    MaxBuildables = 3
    Installations <- OneOrBoth
SYMMETRY Symmetry
SPECIFICATION Spec
CHECK_DEADLOCK FALSE
INVARIANTS
    OneSignPerStation
    SignShowsName
    MirrorMatchesSource
    CascadesEnd
    NoStationForgotten
PROPERTIES
    DismantledTogether
