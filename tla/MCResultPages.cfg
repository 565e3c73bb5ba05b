CONSTANTS
    None = None
    TextReaders = {t1, t2}
    ListReaders = {d1}
    Pages = 3
    MaximumResults = 1
    MaximumDiscoverySnapshots = 1
    Lifetime = 1
    MaxTime = 1
    MaxLosses = 1
    MaxChanges = 1
SYMMETRY Symmetry
SPECIFICATION Spec
CHECK_DEADLOCK FALSE
INVARIANTS
    OneCursorPerResult
    PagesContiguous
