CONSTANTS
    Clients = {c1, c2}
    RequestIds = {r1, r2}
    Sequences = {1, 2}
    Responses = {ok, failed}
    NoResponse = NoResponse
    Never = Never
    MaximumEntries = 2
    MaximumLeaseEntries = 1
    Lifetime = 1
    LeaseSequenceLifetime = 2
    MaxTime = 3
SYMMETRY Symmetry
SPECIFICATION Spec
INVARIANTS
    TypeOK
    HandlerMatchesEntry
    WithinCapacity
PROPERTIES
    MutatingAcceptedOnce
    SequencesAdvance
    OutcomesAreFinal
