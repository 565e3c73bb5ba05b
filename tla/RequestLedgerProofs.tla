------------------------ MODULE RequestLedgerProofs ------------------------
(* Proofs about RequestLedger for every value of its constants: the types,  *)
(* one accepted caller per request, the capacities, and that a mutating     *)
(* request is not begun twice while its client's high mark is kept.         *)
EXTENDS RequestLedger, FiniteSetTheorems, TLAPS

\* What survives RemoveExpiredEntries is what was there, in progress or not yet
\* expired.
LEMMA LiveSubset ==
    /\ LiveIdentities \subseteq DOMAIN requests
    /\ LiveClients \subseteq DOMAIN highestSequences
    /\ DOMAIN LiveRequests = LiveIdentities
    /\ DOMAIN LiveSequences = LiveClients
    /\ \A i \in LiveIdentities : LiveRequests[i] = requests[i]
    /\ \A c \in LiveClients : LiveSequences[c] = highestSequences[c]
BY DEF LiveIdentities, LiveClients, LiveRequests, LiveSequences

-----------------------------------------------------------------------------
LEMMA InitTypeOK == Init => TypeOK
BY DEF Init, TypeOK, Empty, NothingRunning

LEMMA NewEntryOK ==
    ASSUME NEW effect \in Effect PROVE EntryOK(NewEntry(effect))
BY LedgerAssumption DEF NewEntry, EntryOK, Entry, RequestState

LEMMA RetriedEntryOK ==
    ASSUME TypeOK, NEW i \in DOMAIN requests, requests[i].state = "Retryable"
    PROVE  EntryOK(RetriedEntry(i))
BY LedgerAssumption DEF TypeOK, RetriedEntry, EntryOK, Entry, RequestState

LEMMA BeginNewTypeOK ==
    ASSUME TypeOK, NEW i \in Identity, NEW effect \in Effect,
           BeginNew(i, effect), UNCHANGED now
    PROVE  TypeOK'
<1> USE LedgerAssumption, LiveSubset DEF TypeOK, With
<1>1. EntryOK(NewEntry(effect))
  BY NewEntryOK
<1>2. i.client \in Clients /\ HighMark(i) \in [highest: Sequences, expiresAt: Nat]
  BY DEF Identity, HighMark
<1>3. (DOMAIN requests \subseteq Identity)'
        /\ \A j \in DOMAIN requests' : EntryOK(requests'[j])
  BY <1>1 DEF BeginNew
<1>4. (DOMAIN highestSequences \subseteq Clients)'
        /\ \A c \in DOMAIN highestSequences' :
              highestSequences'[c] \in [highest: Sequences, expiresAt: Nat]
  BY <1>2 DEF BeginNew
<1>5. running' \in [Identity -> Nat]
  BY DEF BeginNew, Start
<1>6. (DOMAIN started \subseteq Identity)'
        /\ \A j \in DOMAIN started' : started'[j] \in [at: Nat, effect: Effect]
  BY DEF BeginNew
<1>7. QED
  BY <1>3, <1>4, <1>5, <1>6 DEF EntryOK

\* An existing entry is accepted again only when it is retryable.
LEMMA AcceptedExisting ==
    ASSUME TypeOK, NEW i \in LiveIdentities, Disposition(i) = "Accepted"
    PROVE  requests[i].state = "Retryable"
BY LiveSubset DEF Disposition, ExistingDisposition, TypeOK, EntryOK, Entry, RequestState

LEMMA BeginExistingTypeOK ==
    ASSUME TypeOK, NEW i \in Identity, BeginExisting(i), UNCHANGED now
    PROVE  TypeOK'
<1> USE LiveSubset DEF TypeOK, With
<1>1. i \in LiveIdentities /\ EntryOK(RetriedEntry(i))
  BY AcceptedExisting, RetriedEntryOK DEF BeginExisting
<1>2. (DOMAIN requests \subseteq Identity)'
        /\ \A j \in DOMAIN requests' : EntryOK(requests'[j])
  BY <1>1 DEF BeginExisting
<1>3. running' \in [Identity -> Nat]
  BY DEF BeginExisting, Start
<1>4. QED
  BY <1>2, <1>3 DEF BeginExisting, EntryOK

LEMMA ConcludeTypeOK ==
    ASSUME TypeOK, NEW i \in Identity,
           NEW state \in {"Retryable", "Completed", "DeliveryUnknown"},
           NEW response \in Responses \cup {NoResponse},
           state = "Completed" <=> response # NoResponse,
           requests' = Conclude(i, state, response)
    PROVE  /\ DOMAIN requests' \subseteq Identity
           /\ \A j \in DOMAIN requests' : EntryOK(requests'[j])
<1>1. CASE InProgress(i)
  <2>1. requests[i] \in Entry /\ now + Lifetime \in Nat
    BY <1>1, LedgerAssumption DEF InProgress, TypeOK, EntryOK
  <2>2. EntryOK([requests[i] EXCEPT !.state = state, !.response = response,
                                    !.expiresAt = now + Lifetime])
    BY <2>1, LedgerAssumption DEF EntryOK, Entry, RequestState
  <2>3. QED
    BY <1>1, <2>2 DEF Conclude, InProgress, TypeOK
<1>2. CASE ~InProgress(i)
  BY <1>2 DEF Conclude, TypeOK
<1>3. QED
  BY <1>1, <1>2

LEMMA NextTypeOK == TypeOK /\ [Next]_vars => TypeOK'
<1> SUFFICES ASSUME TypeOK, [Next]_vars PROVE TypeOK'
  OBVIOUS
<1>1. ASSUME NEW i \in Identity, NEW effect \in Effect, TryBegin(i, effect)
      PROVE  TypeOK'
  <2>1. CASE BeginNew(i, effect)
    BY <1>1, <2>1, BeginNewTypeOK DEF TryBegin
  <2>2. CASE BeginExisting(i)
    BY <1>1, <2>2, BeginExistingTypeOK DEF TryBegin
  <2>3. CASE Refuse(i)
    BY <1>1, <2>3, LiveSubset DEF Refuse, TryBegin, TypeOK, EntryOK
  <2>4. QED
    BY <1>1, <2>1, <2>2, <2>3 DEF TryBegin
<1>2. ASSUME NEW i \in Identity, NEW response \in Responses,
             MarkCompleted(i, response)
      PROVE  TypeOK'
  <2>1. requests' = Conclude(i, "Completed", response) /\ response # NoResponse
    BY <1>2, LedgerAssumption DEF MarkCompleted
  <2>2. running' \in [Identity -> Nat]
    BY <1>2 DEF MarkCompleted, Report, TypeOK
  <2>3. QED
    BY <1>2, <2>1, <2>2, ConcludeTypeOK DEF MarkCompleted, Report, TypeOK, EntryOK
<1>3. ASSUME NEW i \in Identity, MarkConnectionLost(i)
      PROVE  TypeOK'
  <2>1. requests' = Conclude(i, LostState(i), NoResponse)
    BY <1>3 DEF MarkConnectionLost, Conclude
  <2>2. LostState(i) \in {"Retryable", "DeliveryUnknown"}
    BY DEF LostState
  <2>3. running' \in [Identity -> Nat]
    BY <1>3 DEF MarkConnectionLost, Report, TypeOK
  <2>4. QED
    BY <1>3, <2>1, <2>2, <2>3, ConcludeTypeOK
    DEF MarkConnectionLost, Report, TypeOK, EntryOK
<1>4. CASE Tick
  BY <1>4 DEF Tick, TypeOK, EntryOK
<1>5. CASE Restart
  BY <1>5 DEF Restart, TypeOK, Empty, NothingRunning
<1>6. CASE UNCHANGED vars
  BY <1>6 DEF vars, TypeOK, EntryOK
<1>7. QED
  BY <1>1, <1>2, <1>3, <1>4, <1>5, <1>6 DEF Next

\* The types of the ledger: in particular an entry has an expiry exactly when
\* it is not in progress (the null ExpiresAt of RequestEntry).
THEOREM TypeCorrect == Spec => []TypeOK
<1>1. QED
  BY InitTypeOK, NextTypeOK, PTL DEF Spec

-----------------------------------------------------------------------------
\* An entry that RemoveExpiredEntries drops was not in progress.
LEMMA DroppedNotInProgress ==
    ASSUME TypeOK, NEW i \in DOMAIN requests, i \notin LiveIdentities
    PROVE  ~InProgress(i)
BY DEF TypeOK, LiveIdentities, InProgress, EntryOK

LEMMA BeginNewHandler ==
    ASSUME TypeOK, HandlerMatchesEntry, NEW i \in Identity, NEW effect \in Effect,
           BeginNew(i, effect)
    PROVE  HandlerMatchesEntry'
<1>1. ~InProgress(i) /\ running[i] = 0
  BY DroppedNotInProgress DEF BeginNew, HandlerMatchesEntry, InProgress
<1>2. running'[i] = 1 /\ InProgress(i)'
  BY <1>1 DEF BeginNew, Start, TypeOK, InProgress, With, NewEntry
<1>3. ASSUME NEW j \in Identity, j # i
      PROVE  running'[j] = running[j] /\ (InProgress(j)' <=> InProgress(j))
  BY <1>3, DroppedNotInProgress, LiveSubset
  DEF BeginNew, Start, TypeOK, InProgress, With
<1>4. QED
  BY <1>1, <1>2, <1>3 DEF HandlerMatchesEntry

LEMMA BeginExistingHandler ==
    ASSUME TypeOK, HandlerMatchesEntry, NEW i \in Identity, BeginExisting(i)
    PROVE  HandlerMatchesEntry'
<1>1. i \in LiveIdentities /\ ~InProgress(i) /\ running[i] = 0
  BY AcceptedExisting DEF BeginExisting, HandlerMatchesEntry, InProgress
<1>2. RetriedEntry(i).state = "InProgress"
  BY <1>1, LiveSubset DEF RetriedEntry, TypeOK, EntryOK, Entry
<1>3. running'[i] = 1 /\ InProgress(i)'
  BY <1>1, <1>2 DEF BeginExisting, Start, TypeOK, InProgress, With
<1>4. ASSUME NEW j \in Identity, j # i
      PROVE  running'[j] = running[j] /\ (InProgress(j)' <=> InProgress(j))
  BY <1>4, DroppedNotInProgress, LiveSubset
  DEF BeginExisting, Start, TypeOK, InProgress, With
<1>5. QED
  BY <1>1, <1>3, <1>4 DEF HandlerMatchesEntry

LEMMA RefuseHandler ==
    ASSUME TypeOK, HandlerMatchesEntry, NEW i \in Identity, Refuse(i)
    PROVE  HandlerMatchesEntry'
<1>1. ASSUME NEW j \in Identity PROVE InProgress(j)' <=> InProgress(j)
  BY <1>1, DroppedNotInProgress, LiveSubset DEF Refuse, InProgress
<1>2. QED
  BY <1>1 DEF Refuse, HandlerMatchesEntry

\* The entry of a running caller is in progress, so its report concludes it.
LEMMA ReportHandler ==
    ASSUME TypeOK, HandlerMatchesEntry, NEW i \in Identity, Report(i),
           NEW state \in {"Retryable", "Completed", "DeliveryUnknown"},
           NEW response,
           requests' = Conclude(i, state, response)
    PROVE  HandlerMatchesEntry'
<1>1. InProgress(i) /\ running[i] = 1
  BY DEF Report, HandlerMatchesEntry
<1>2. requests[i] \in Entry
  BY <1>1 DEF InProgress, TypeOK, EntryOK
<1>3. running'[i] = 0 /\ ~InProgress(i)'
  BY <1>1, <1>2 DEF Report, TypeOK, InProgress, Conclude, Entry
<1>4. ASSUME NEW j \in Identity, j # i
      PROVE  running'[j] = running[j] /\ (InProgress(j)' <=> InProgress(j))
  BY <1>1, <1>4 DEF Report, TypeOK, InProgress, Conclude
<1>5. QED
  BY <1>3, <1>4, <1>1 DEF HandlerMatchesEntry

LEMMA NextHandler == TypeOK /\ HandlerMatchesEntry /\ [Next]_vars => HandlerMatchesEntry'
<1> SUFFICES ASSUME TypeOK, HandlerMatchesEntry, [Next]_vars
             PROVE  HandlerMatchesEntry'
  OBVIOUS
<1>1. ASSUME NEW i \in Identity, NEW effect \in Effect, TryBegin(i, effect)
      PROVE  HandlerMatchesEntry'
  BY <1>1, BeginNewHandler, BeginExistingHandler, RefuseHandler DEF TryBegin
<1>2. ASSUME NEW i \in Identity, NEW response \in Responses,
             MarkCompleted(i, response)
      PROVE  HandlerMatchesEntry'
  BY <1>2, ReportHandler DEF MarkCompleted
<1>3. ASSUME NEW i \in Identity, MarkConnectionLost(i)
      PROVE  HandlerMatchesEntry'
  <2>1. requests' = Conclude(i, LostState(i), NoResponse) /\ Report(i)
    BY <1>3 DEF MarkConnectionLost, Conclude
  <2>2. LostState(i) \in {"Retryable", "DeliveryUnknown"}
    BY DEF LostState
  <2>3. QED
    BY <2>1, <2>2, ReportHandler
<1>4. CASE Tick
  BY <1>4 DEF Tick, HandlerMatchesEntry, InProgress
<1>5. CASE Restart
  BY <1>5 DEF Restart, HandlerMatchesEntry, InProgress, Empty, NothingRunning
<1>6. CASE UNCHANGED vars
  BY <1>6 DEF vars, HandlerMatchesEntry, InProgress
<1>7. QED
  BY <1>1, <1>2, <1>3, <1>4, <1>5, <1>6 DEF Next

\* Exactly the requests in progress have an accepted caller that has yet to
\* report, and exactly one (TryBegin against MarkCompleted and
\* MarkConnectionLost).
THEOREM OneHandlerPerRequest == Spec => []HandlerMatchesEntry
<1>1. Init => HandlerMatchesEntry
  BY DEF Init, HandlerMatchesEntry, InProgress, Empty, NothingRunning
<1>2. QED
  BY <1>1, NextHandler, TypeCorrect, PTL DEF Spec

-----------------------------------------------------------------------------
\* Capacity speaks of cardinalities, so the tables must be known finite.
TablesFinite ==
    /\ IsFiniteSet(DOMAIN requests)
    /\ IsFiniteSet(DOMAIN highestSequences)

CapacityInv == TablesFinite /\ WithinCapacity

LEMMA LiveCapacity ==
    ASSUME CapacityInv
    PROVE  /\ IsFiniteSet(LiveIdentities)
           /\ IsFiniteSet(LiveClients)
           /\ Cardinality(LiveIdentities) <= MaximumEntries
           /\ Cardinality(LiveClients) <= MaximumLeaseEntries
           /\ Cardinality(LiveIdentities) \in Nat
           /\ Cardinality(LiveClients) \in Nat
<1>1. IsFiniteSet(LiveIdentities)
        /\ Cardinality(LiveIdentities) <= Cardinality(DOMAIN requests)
  BY LiveSubset, FS_Subset DEF CapacityInv, TablesFinite
<1>2. IsFiniteSet(LiveClients)
        /\ Cardinality(LiveClients) <= Cardinality(DOMAIN highestSequences)
  BY LiveSubset, FS_Subset DEF CapacityInv, TablesFinite
<1>3. /\ Cardinality(LiveIdentities) \in Nat
      /\ Cardinality(LiveClients) \in Nat
      /\ Cardinality(DOMAIN requests) \in Nat
      /\ Cardinality(DOMAIN highestSequences) \in Nat
  BY <1>1, <1>2, FS_CardinalityType DEF CapacityInv, TablesFinite
<1>4. QED
  BY <1>1, <1>2, <1>3, LedgerAssumption DEF CapacityInv, WithinCapacity

LEMMA BeginNewCapacity ==
    ASSUME TypeOK, CapacityInv, NEW i \in Identity, NEW effect \in Effect,
           BeginNew(i, effect)
    PROVE  CapacityInv'
<1>1. i \notin LiveIdentities /\ ~IsFull(i)
  BY DEF BeginNew, Disposition
<1>2. /\ DOMAIN requests' = LiveIdentities \cup {i}
      /\ DOMAIN highestSequences' = LiveClients \cup {i.client}
  BY LiveSubset DEF BeginNew, With
<1>3. /\ IsFiniteSet(LiveIdentities \cup {i})
      /\ Cardinality(LiveIdentities \cup {i}) = Cardinality(LiveIdentities) + 1
  BY <1>1, LiveCapacity, FS_AddElement
<1>4. Cardinality(LiveIdentities \cup {i}) <= MaximumEntries
  BY <1>1, <1>3, LiveCapacity, LedgerAssumption DEF IsFull
<1>5. /\ IsFiniteSet(LiveClients \cup {i.client})
      /\ Cardinality(LiveClients \cup {i.client}) <= MaximumLeaseEntries
  <2>1. CASE i.client \in LiveClients
    <3>1. LiveClients \cup {i.client} = LiveClients
      BY <2>1
    <3>2. QED
      BY <3>1, LiveCapacity
  <2>2. CASE i.client \notin LiveClients
    <3>1. /\ IsFiniteSet(LiveClients \cup {i.client})
          /\ Cardinality(LiveClients \cup {i.client}) = Cardinality(LiveClients) + 1
      BY <2>2, LiveCapacity, FS_AddElement
    <3>2. QED
      BY <1>1, <2>2, <3>1, LiveCapacity, LedgerAssumption DEF IsFull
  <2>3. QED
    BY <2>1, <2>2
<1>6. QED
  BY <1>2, <1>3, <1>4, <1>5 DEF CapacityInv, TablesFinite, WithinCapacity

\* Every other operation leaves the tables' domains alone or shrinks them to
\* what is live.
LEMMA ShrinkCapacity ==
    ASSUME CapacityInv,
           DOMAIN requests' \in {DOMAIN requests, LiveIdentities},
           DOMAIN highestSequences' \in {DOMAIN highestSequences, LiveClients}
    PROVE  CapacityInv'
BY LiveCapacity DEF CapacityInv, TablesFinite, WithinCapacity

LEMMA ConcludeDomain ==
    ASSUME NEW i, NEW state, NEW response
    PROVE  DOMAIN Conclude(i, state, response) = DOMAIN requests
BY DEF Conclude

LEMMA NextCapacity == TypeOK /\ CapacityInv /\ [Next]_vars => CapacityInv'
<1> SUFFICES ASSUME TypeOK, CapacityInv, [Next]_vars PROVE CapacityInv'
  OBVIOUS
<1>1. ASSUME NEW i \in Identity, NEW effect \in Effect, TryBegin(i, effect)
      PROVE  CapacityInv'
  <2>1. CASE BeginNew(i, effect)
    BY <2>1, BeginNewCapacity
  <2>2. CASE BeginExisting(i)
    <3>1. DOMAIN requests' = LiveIdentities /\ DOMAIN highestSequences' = LiveClients
      BY <2>2, LiveSubset DEF BeginExisting, With
    <3>2. QED
      BY <3>1, ShrinkCapacity
  <2>3. CASE Refuse(i)
    BY <2>3, LiveSubset, ShrinkCapacity DEF Refuse
  <2>4. QED
    BY <1>1, <2>1, <2>2, <2>3 DEF TryBegin
<1>2. ASSUME NEW i \in Identity, NEW response \in Responses,
             MarkCompleted(i, response)
      PROVE  CapacityInv'
  BY <1>2, ConcludeDomain, ShrinkCapacity DEF MarkCompleted, Report
<1>3. ASSUME NEW i \in Identity, MarkConnectionLost(i)
      PROVE  CapacityInv'
  BY <1>3, ConcludeDomain, ShrinkCapacity DEF MarkConnectionLost, Report
<1>4. CASE Tick
  BY <1>4, ShrinkCapacity DEF Tick
<1>5. CASE Restart
  BY <1>5, FS_EmptySet, LedgerAssumption
  DEF Restart, Empty, CapacityInv, TablesFinite, WithinCapacity
<1>6. CASE UNCHANGED vars
  BY <1>6, ShrinkCapacity DEF vars
<1>7. QED
  BY <1>1, <1>2, <1>3, <1>4, <1>5, <1>6 DEF Next

\* However requests arrive, the two tables never exceed their capacities.
THEOREM CapacityKept == Spec => []WithinCapacity
<1>1. Init => CapacityInv
  BY FS_EmptySet, LedgerAssumption
  DEF Init, Empty, CapacityInv, TablesFinite, WithinCapacity
<1>2. CapacityInv => WithinCapacity
  BY DEF CapacityInv
<1>3. QED
  BY <1>1, <1>2, NextCapacity, TypeCorrect, PTL DEF Spec

-----------------------------------------------------------------------------
LEMMA BeginNewLease ==
    ASSUME TypeOK, LeaseInv, NEW i \in Identity, NEW effect \in Effect,
           BeginNew(i, effect), UNCHANGED now
    PROVE  LeaseInv'
<1> USE LedgerAssumption DEF TypeOK, LeaseInv
<1>1. i \notin LiveIdentities /\ ~IsStale(i)
  BY DEF BeginNew, Disposition
<1>2. /\ i \in DOMAIN started' /\ started'[i].at = now
      /\ \A j \in DOMAIN started' \ {i} : j \in DOMAIN started /\ started'[j] = started[j]
  BY DEF BeginNew, With
<1>3. /\ DOMAIN highestSequences' = LiveClients \cup {i.client}
      /\ highestSequences'[i.client].highest = i.sequence
      /\ highestSequences'[i.client].expiresAt = now + LeaseSequenceLifetime
      /\ \A c \in LiveClients \ {i.client} :
            highestSequences'[c] = highestSequences[c]
  BY LiveSubset DEF BeginNew, With, HighMark
<1>4. ASSUME NEW j \in DOMAIN started', now < started'[j].at + LeaseSequenceLifetime
      PROVE  /\ j.client \in DOMAIN highestSequences'
             /\ j.sequence <= highestSequences'[j.client].highest
             /\ started'[j].at + LeaseSequenceLifetime
                   <= highestSequences'[j.client].expiresAt
  <2>1. i.sequence \in Nat /\ j.sequence \in Nat
    <3>1. j \in Identity
      BY <1>2
    <3>2. QED
      BY <3>1 DEF Identity
  <2>2. CASE j = i
    <3>1. /\ j.client = i.client /\ j.sequence = i.sequence
          /\ started'[j].at = now
      BY <2>2, <1>2
    <3>2. now + LeaseSequenceLifetime \in Nat
      OBVIOUS
    <3>3. QED
      BY <3>1, <3>2, <2>1, <1>3
  <2>3. CASE j # i
    <3>1. j \in DOMAIN started /\ started'[j] = started[j] /\ started[j].at \in Nat
      BY <2>3, <1>2
    <3>2. /\ j.client \in DOMAIN highestSequences
          /\ j.sequence <= highestSequences[j.client].highest
          /\ started[j].at + LeaseSequenceLifetime
                <= highestSequences[j.client].expiresAt
          /\ started[j].at <= now
      BY <1>4, <3>1 DEF HighMarkCovers
    <3>3. highestSequences[j.client].highest \in Nat
            /\ highestSequences[j.client].expiresAt \in Nat
      BY <3>2
    <3>4. j.client \in LiveClients
      BY <1>4, <3>1, <3>2, <3>3 DEF LiveClients
    <3>5. CASE j.client = i.client
      BY <3>1, <3>2, <3>3, <3>4, <3>5, <2>1, <1>1, <1>3 DEF IsStale
    <3>6. CASE j.client # i.client
      BY <3>1, <3>2, <3>4, <3>6, <1>3
    <3>7. QED
      BY <3>5, <3>6
  <2>4. QED
    BY <2>2, <2>3
<1>5. ASSUME NEW j \in DOMAIN started' PROVE started'[j].at <= now
  BY <1>2, <1>5 DEF HighMarkCovers
<1>6. HighMarkCovers'
  BY <1>4, <1>5 DEF HighMarkCovers
<1>7. EntriesWereStarted'
  BY LiveSubset DEF EntriesWereStarted, BeginNew, With, NewEntry
<1>8. QED
  BY <1>6, <1>7

\* The live part of the high marks covers the same requests.
LEMMA SameCover ==
    ASSUME TypeOK, LeaseInv, UNCHANGED <<now, started>>,
           highestSequences' \in {highestSequences, LiveSequences}
    PROVE  HighMarkCovers'
<1>1. ASSUME NEW j \in DOMAIN started, now < started[j].at + LeaseSequenceLifetime
      PROVE  /\ j.client \in DOMAIN highestSequences'
             /\ highestSequences'[j.client] = highestSequences[j.client]
  <2>1. /\ j.client \in DOMAIN highestSequences
        /\ started[j].at + LeaseSequenceLifetime
              <= highestSequences[j.client].expiresAt
    BY <1>1 DEF LeaseInv, HighMarkCovers
  <2>2. j.client \in LiveClients
    BY <1>1, <2>1, LedgerAssumption DEF LiveClients, TypeOK
  <2>3. QED
    BY <2>1, <2>2, LiveSubset
<1>2. QED
  BY <1>1 DEF LeaseInv, HighMarkCovers

LEMMA ReportLease ==
    ASSUME TypeOK, LeaseInv, NEW i \in Identity, Report(i),
           NEW state \in {"Retryable", "Completed", "DeliveryUnknown"},
           NEW response,
           InProgress(i) /\ state = "Retryable" => requests[i].effect = "ReadOnly",
           requests' = Conclude(i, state, response)
    PROVE  LeaseInv'
<1>1. HighMarkCovers'
  BY SameCover DEF Report
<1>2. EntriesWereStarted'
  BY DEF Report, Conclude, InProgress, EntriesWereStarted, LeaseInv, TypeOK,
         EntryOK, Entry
<1>3. QED
  BY <1>1, <1>2 DEF LeaseInv

LEMMA NextLease == TypeOK /\ LeaseInv /\ [Next]_vars => LeaseInv'
<1> SUFFICES ASSUME TypeOK, LeaseInv, [Next]_vars PROVE LeaseInv'
  OBVIOUS
<1>1. ASSUME NEW i \in Identity, NEW effect \in Effect, TryBegin(i, effect)
      PROVE  LeaseInv'
  <2>1. CASE BeginNew(i, effect)
    BY <1>1, <2>1, BeginNewLease DEF TryBegin
  <2>2. CASE BeginExisting(i)
    <3>1. HighMarkCovers'
      BY <1>1, <2>2, SameCover DEF TryBegin, BeginExisting
    <3>2. i \in LiveIdentities /\ RetriedEntry(i).effect = requests[i].effect
            /\ RetriedEntry(i).state = "InProgress"
      BY <2>2, LiveSubset DEF BeginExisting, RetriedEntry, TypeOK, EntryOK, Entry
    <3>3. EntriesWereStarted'
      BY <2>2, <3>2, LiveSubset DEF BeginExisting, With, EntriesWereStarted, LeaseInv
    <3>4. QED
      BY <3>1, <3>3 DEF LeaseInv
  <2>3. CASE Refuse(i)
    BY <1>1, <2>3, SameCover, LiveSubset
    DEF TryBegin, Refuse, LeaseInv, EntriesWereStarted
  <2>4. QED
    BY <1>1, <2>1, <2>2, <2>3 DEF TryBegin
<1>2. ASSUME NEW i \in Identity, NEW response \in Responses,
             MarkCompleted(i, response)
      PROVE  LeaseInv'
  BY <1>2, ReportLease DEF MarkCompleted
<1>3. ASSUME NEW i \in Identity, MarkConnectionLost(i)
      PROVE  LeaseInv'
  <2>1. requests' = Conclude(i, LostState(i), NoResponse) /\ Report(i)
    BY <1>3 DEF MarkConnectionLost, Conclude
  <2>2. /\ LostState(i) \in {"Retryable", "DeliveryUnknown"}
        /\ LostState(i) = "Retryable" => requests[i].effect = "ReadOnly"
    BY DEF LostState
  <2>3. QED
    BY <2>1, <2>2, ReportLease
<1>4. CASE Tick
  BY <1>4, LedgerAssumption DEF Tick, LeaseInv, HighMarkCovers, EntriesWereStarted, TypeOK
<1>5. CASE Restart
  BY <1>5 DEF Restart, LeaseInv, HighMarkCovers, EntriesWereStarted, Empty
<1>6. CASE UNCHANGED vars
  BY <1>6 DEF vars, LeaseInv, HighMarkCovers, EntriesWereStarted
<1>7. QED
  BY <1>1, <1>2, <1>3, <1>4, <1>5, <1>6 DEF Next

LEMMA LeaseInvariant == Spec => []LeaseInv
<1>1. Init => LeaseInv
  BY DEF Init, LeaseInv, HighMarkCovers, EntriesWereStarted, Empty
<1>2. QED
  BY <1>1, NextLease, TypeCorrect, PTL DEF Spec

-----------------------------------------------------------------------------
LEMMA StartsOne ==
    ASSUME TypeOK, NEW i \in Identity, NEW j \in Identity, Start(j), Accepts(i)
    PROVE  i = j
<1>1. running[i] \in Nat /\ running' = [running EXCEPT ![j] = @ + 1]
  BY DEF Start, TypeOK
<1>2. ASSUME i # j PROVE running'[i] = running[i]
  BY <1>1, <1>2 DEF TypeOK
<1>3. QED
  BY <1>1, <1>2 DEF Accepts

\* Only TryBegin's two accepting branches start a handler.
LEMMA AcceptsBegins ==
    ASSUME TypeOK, [Next]_vars, NEW i \in Identity, Accepts(i)
    PROVE  \/ \E effect \in Effect : BeginNew(i, effect)
           \/ BeginExisting(i)
<1>1. ASSUME NEW j \in Identity, NEW effect \in Effect, TryBegin(j, effect)
      PROVE  \/ \E e \in Effect : BeginNew(i, e)
             \/ BeginExisting(i)
  <2>1. CASE BeginNew(j, effect)
    BY <2>1, StartsOne DEF BeginNew
  <2>2. CASE BeginExisting(j)
    BY <2>2, StartsOne DEF BeginExisting
  <2>3. CASE Refuse(j)
    BY <2>3 DEF Refuse, Accepts, TypeOK
  <2>4. QED
    BY <1>1, <2>1, <2>2, <2>3 DEF TryBegin
<1>2. ASSUME NEW j \in Identity, Report(j) PROVE FALSE
  BY <1>2 DEF Report, Accepts, TypeOK
<1>3. CASE Tick
  BY <1>3 DEF Tick, Accepts, TypeOK
<1>4. CASE Restart
  BY <1>4 DEF Restart, NothingRunning, Accepts, TypeOK
<1>5. CASE UNCHANGED vars
  BY <1>5 DEF vars, Accepts, TypeOK
<1>6. QED
  BY <1>1, <1>2, <1>3, <1>4, <1>5 DEF Next, MarkCompleted, MarkConnectionLost

\* A new identity is not stale, so its sequence exceeds every covered one.
LEMMA NewExceedsCovered ==
    ASSUME TypeOK, LeaseInv, NEW i \in Identity, NEW effect \in Effect,
           BeginNew(i, effect), NEW j \in DOMAIN started,
           j.client = i.client, now < started[j].at + LeaseSequenceLifetime
    PROVE  j.sequence < i.sequence
<1>1. ~IsStale(i)
  BY DEF BeginNew, Disposition
<1>2. /\ i.client \in DOMAIN highestSequences
      /\ j.sequence <= highestSequences[i.client].highest
      /\ started[j].at + LeaseSequenceLifetime
            <= highestSequences[i.client].expiresAt
  BY DEF LeaseInv, HighMarkCovers
<1>3. started[j].at \in Nat /\ now \in Nat /\ j \in Identity
        /\ highestSequences[i.client] \in [highest: Sequences, expiresAt: Nat]
  BY <1>2 DEF TypeOK
<1>4. i.sequence \in Nat /\ j.sequence \in Nat
        /\ highestSequences[i.client].highest \in Nat
  BY <1>3, LedgerAssumption DEF Identity
<1>5. i.client \in LiveClients
  BY <1>2, <1>3, LedgerAssumption DEF LiveClients
<1>6. QED
  BY <1>1, <1>2, <1>4, <1>5 DEF IsStale

LEMMA NextAcceptedOnce ==
    ASSUME TypeOK, LeaseInv, [Next]_vars, NEW i \in DOMAIN started,
           Accepts(i), started[i].effect = "Mutating"
    PROVE  now >= started[i].at + LeaseSequenceLifetime
<1>1. i \in Identity /\ started[i].at \in Nat /\ now \in Nat
  BY DEF TypeOK
<1>2. ASSUME NEW effect \in Effect, BeginNew(i, effect),
             now < started[i].at + LeaseSequenceLifetime
      PROVE  FALSE
  <2>1. i.sequence < i.sequence
    BY <1>1, <1>2, NewExceedsCovered
  <2>2. i.sequence \in Nat
    BY <1>1, LedgerAssumption DEF Identity
  <2>3. QED
    BY <2>1, <2>2
<1>3. ASSUME BeginExisting(i) PROVE FALSE
  <2>1. requests[i].state = "Retryable"
    BY <1>1, <1>3, AcceptedExisting DEF BeginExisting
  <2>2. started[i].effect = "ReadOnly"
    BY <1>3, <2>1, LiveSubset DEF BeginExisting, LeaseInv, EntriesWereStarted
  <2>3. QED
    BY <2>2
<1>4. QED
  BY <1>1, <1>2, <1>3, AcceptsBegins, LedgerAssumption

\* A mutating request is begun at most once within LeaseSequenceLifetime of
\* being begun, for every table size, lifetime and arrival order (TryBegin).
THEOREM MutatingOnce == Spec => MutatingAcceptedOnce
<1>1. TypeOK /\ LeaseInv /\ [Next]_vars =>
        [\A i \in DOMAIN started :
            Accepts(i) /\ started[i].effect = "Mutating" =>
                now >= started[i].at + LeaseSequenceLifetime]_vars
  BY NextAcceptedOnce
<1>2. QED
  BY <1>1, TypeCorrect, LeaseInvariant, PTL DEF Spec, MutatingAcceptedOnce

LEMMA NextAdvances ==
    ASSUME TypeOK, LeaseInv, [Next]_vars,
           NEW i \in Identity \ LiveIdentities, Accepts(i),
           NEW j \in DOMAIN started, j.client = i.client,
           now < started[j].at + LeaseSequenceLifetime
    PROVE  j.sequence < i.sequence
<1>1. \E effect \in Effect : BeginNew(i, effect)
  BY AcceptsBegins DEF BeginExisting
<1>2. QED
  BY <1>1, NewExceedsCovered

\* What the ledger no longer remembers is begun only under a higher sequence
\* than every recent request of its client (the StaleSequence branch).
THEOREM NewSequencesAdvance == Spec => SequencesAdvance
<1>1. TypeOK /\ LeaseInv /\ [Next]_vars =>
        [\A i \in Identity \ LiveIdentities : Accepts(i) =>
            \A j \in DOMAIN started :
                j.client = i.client /\ now < started[j].at + LeaseSequenceLifetime
                    => j.sequence < i.sequence]_vars
  BY NextAdvances
<1>2. QED
  BY <1>1, TypeCorrect, LeaseInvariant, PTL DEF Spec, SequencesAdvance

-----------------------------------------------------------------------------
\* The identity has an outcome that callers may have been told.
Settled(i) ==
    /\ i \in DOMAIN requests
    /\ requests[i].state \in {"Completed", "DeliveryUnknown"}
    /\ now < requests[i].expiresAt

LEMMA SettledIsLive ==
    ASSUME TypeOK, NEW i \in Identity, Settled(i)
    PROVE  i \in LiveIdentities /\ LiveRequests[i] = requests[i]
BY LiveSubset DEF Settled, LiveIdentities, TypeOK

\* TryBegin replaces only an entry it drops or finds retryable.
LEMMA TryBeginKeepsSettled ==
    ASSUME TypeOK, NEW i \in Identity, Settled(i),
           NEW j \in Identity, NEW effect \in Effect, TryBegin(j, effect)
    PROVE  i \in DOMAIN requests' /\ requests'[i] = requests[i]
<1>1. i \in LiveIdentities /\ LiveRequests[i] = requests[i]
  BY SettledIsLive
<1>2. CASE BeginNew(j, effect)
  BY <1>1, <1>2, LiveSubset DEF BeginNew, With
<1>3. CASE BeginExisting(j)
  <2>1. i # j
    BY <1>3, AcceptedExisting DEF BeginExisting, Settled
  <2>2. QED
    BY <1>1, <1>3, <2>1, LiveSubset DEF BeginExisting, With
<1>4. CASE Refuse(j)
  BY <1>1, <1>4, LiveSubset DEF Refuse
<1>5. QED
  BY <1>2, <1>3, <1>4 DEF TryBegin

\* A report concludes only an entry in progress.
LEMMA ConcludeKeepsSettled ==
    ASSUME NEW i \in Identity, Settled(i), NEW j, NEW state, NEW response,
           requests' = Conclude(j, state, response)
    PROVE  i \in DOMAIN requests' /\ requests'[i] = requests[i]
BY DEF Settled, Conclude, InProgress

LEMMA NextKeepsSettled ==
    ASSUME TypeOK, [Next]_vars, ~Restart, NEW i \in Identity, Settled(i)
    PROVE  i \in DOMAIN requests' /\ requests'[i] = requests[i]
<1>1. ASSUME NEW j \in Identity, NEW effect \in Effect, TryBegin(j, effect)
      PROVE  i \in DOMAIN requests' /\ requests'[i] = requests[i]
  BY <1>1, TryBeginKeepsSettled
<1>2. ASSUME NEW j \in Identity, NEW response \in Responses,
             MarkCompleted(j, response)
      PROVE  i \in DOMAIN requests' /\ requests'[i] = requests[i]
  BY <1>2, ConcludeKeepsSettled DEF MarkCompleted
<1>3. ASSUME NEW j \in Identity, MarkConnectionLost(j)
      PROVE  i \in DOMAIN requests' /\ requests'[i] = requests[i]
  <2>1. requests' = Conclude(j, LostState(j), NoResponse)
    BY <1>3 DEF MarkConnectionLost, Conclude
  <2>2. QED
    BY <2>1, ConcludeKeepsSettled
<1>4. CASE Tick \/ UNCHANGED vars
  BY <1>4 DEF Tick, vars, Settled
<1>5. QED
  BY <1>1, <1>2, <1>3, <1>4 DEF Next

\* Until the broker restarts, an outcome is kept unchanged for its lifetime: no
\* retry reopens it and no late report replaces it (BeginExisting,
\* MarkCompleted, MarkConnectionLost).
THEOREM OutcomesKept == Spec => OutcomesAreFinal
<1>1. TypeOK /\ [Next]_vars =>
        [~Restart =>
            \A i \in DOMAIN requests :
                /\ requests[i].state \in {"Completed", "DeliveryUnknown"}
                /\ now < requests[i].expiresAt
                => i \in DOMAIN requests' /\ requests'[i] = requests[i]]_vars
  BY NextKeepsSettled DEF Settled, TypeOK
<1>2. QED
  BY <1>1, TypeCorrect, PTL DEF Spec, OutcomesAreFinal
=============================================================================
