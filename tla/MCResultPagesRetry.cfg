CONSTANTS
    None = None
    TextReaders = {t1}
    ListReaders = {}
    Pages = 3
    MaximumResults = 1
    MaximumDiscoverySnapshots = 1
    Lifetime = 2
    MaxTime = 1
    MaxLosses = 1
    MaxChanges = 0
SYMMETRY Symmetry
SPECIFICATION Spec
CHECK_DEADLOCK FALSE
INVARIANTS
    ReadOnceAnswered
