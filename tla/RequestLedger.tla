--------------------------- MODULE RequestLedger ---------------------------
(***************************************************************************)
(* The broker's memory of the requests it has begun                        *)
(* (CodexBridge/Companion/RequestLedger.cs).  A request is identified by   *)
(* client instance, sequence number and request id; the comparer of the    *)
(* dictionary ignores the game connection generation.  Every operation     *)
(* runs under one lock, so each is one action here.                        *)
(*                                                                         *)
(* Two memories with different lifetimes protect a request from being      *)
(* started twice: its own entry, kept for Lifetime after the outcome is    *)
(* known, and the highest sequence begun by its client, kept for           *)
(* LeaseSequenceLifetime after the last new request.                       *)
(***************************************************************************)
EXTENDS Integers, FiniteSets

CONSTANTS
    Clients,                \* client instance ids
    RequestIds,             \* request ids chosen by the callers
    Sequences,              \* sequence numbers in use
    Responses,              \* what a handler may record as the outcome
    NoResponse,             \* the null Response of an entry
    Never,                  \* the null ExpiresAt of an entry
    MaximumEntries,         \* capacity of requests
    MaximumLeaseEntries,    \* capacity of highestSequences
    Lifetime,               \* of an entry whose outcome is known
    LeaseSequenceLifetime,  \* of a client's highest sequence
    MaxTime                 \* bound on the clock, for model checking

ASSUME LedgerAssumption ==
    /\ Sequences \subseteq Nat \ {0}
    /\ NoResponse \notin Responses
    /\ Never \notin Nat
    /\ MaximumEntries \in Nat \ {0}
    /\ MaximumLeaseEntries \in Nat \ {0}
    /\ Lifetime \in Nat
    /\ LeaseSequenceLifetime \in Nat
    /\ MaxTime \in Nat

VARIABLES
    requests,           \* identity -> entry, for the identities remembered
    highestSequences,   \* client -> highest sequence begun and its expiry
    now,                \* the time provider's clock
    running,            \* history: accepted callers yet to report, by identity
    started             \* history: when each identity was last begun as new

vars == <<requests, highestSequences, now, running, started>>

Identity == [client: Clients, sequence: Sequences, id: RequestIds]
Effect == {"ReadOnly", "Mutating"}
RequestState == {"InProgress", "Retryable", "Completed", "DeliveryUnknown"}
Entry == [effect: Effect, state: RequestState,
          response: Responses \cup {NoResponse}, expiresAt: Nat \cup {Never}]

-----------------------------------------------------------------------------
\* RemoveExpiredEntries: what TryBegin still finds.  An entry in progress has
\* no expiry.
LiveIdentities ==
    {i \in DOMAIN requests :
        requests[i].expiresAt = Never \/ now < requests[i].expiresAt}
LiveClients ==
    {c \in DOMAIN highestSequences : now < highestSequences[c].expiresAt}
LiveRequests == [i \in LiveIdentities |-> requests[i]]
LiveSequences == [c \in LiveClients |-> highestSequences[c]]

InProgress(i) == i \in DOMAIN requests /\ requests[i].state = "InProgress"

\* Mutant of IsStale: the client's highest sequence itself is not stale.
IsStaleStrict(i) ==
    i.client \in LiveClients /\ i.sequence < highestSequences[i.client].highest

IsStale(i) ==
    i.client \in LiveClients /\ i.sequence <= highestSequences[i.client].highest

\* Mutant of IsFull: off by one at both capacities.
IsFullLate(i) ==
    \/ Cardinality(LiveIdentities) > MaximumEntries
    \/ /\ i.client \notin LiveClients
       /\ Cardinality(LiveClients) > MaximumLeaseEntries

IsFull(i) ==
    \/ Cardinality(LiveIdentities) >= MaximumEntries
    \/ /\ i.client \notin LiveClients
       /\ Cardinality(LiveClients) >= MaximumLeaseEntries

\* Mutants of ExistingDisposition: joining a request in progress starts it
\* again; an unknown delivery is tried again.
ExistingDispositionRejoins ==
    [Retryable |-> "Accepted", InProgress |-> "Accepted",
     Completed |-> "ReplayCompleted", DeliveryUnknown |-> "DeliveryUnknown"]
ExistingDispositionReopens ==
    [Retryable |-> "Accepted", InProgress |-> "InProgress",
     Completed |-> "ReplayCompleted", DeliveryUnknown |-> "Accepted"]

\* BeginExisting: the disposition for an identity that is remembered.
ExistingDisposition ==
    [Retryable |-> "Accepted", InProgress |-> "InProgress",
     Completed |-> "ReplayCompleted", DeliveryUnknown |-> "DeliveryUnknown"]

\* What TryBegin answers for identity i in the current state.
Disposition(i) ==
    IF i \in LiveIdentities THEN ExistingDisposition[requests[i].state]
    ELSE IF IsStale(i) THEN "StaleSequence"
    ELSE IF IsFull(i) THEN "Busy"
    ELSE "Accepted"

\* Mutant of RetriedEntry: the entry keeps the expiry of its first outcome.
RetriedEntryExpires(i) == [requests[i] EXCEPT !.state = "InProgress"]

\* Mutant of HighMark: a client's expiry is set once and never renewed.
HighMarkNotRenewed(i) ==
    [highest |-> i.sequence,
     expiresAt |-> IF i.client \in LiveClients
                   THEN highestSequences[i.client].expiresAt
                   ELSE now + LeaseSequenceLifetime]

\* The entry of an accepted request, and the client's new high mark.
NewEntry(effect) ==
    [effect |-> effect, state |-> "InProgress",
     response |-> NoResponse, expiresAt |-> Never]
RetriedEntry(i) == [requests[i] EXCEPT !.state = "InProgress", !.expiresAt = Never]
HighMark(i) ==
    [highest |-> i.sequence, expiresAt |-> now + LeaseSequenceLifetime]

With(f, x, y) == [z \in DOMAIN f \cup {x} |-> IF z = x THEN y ELSE f[z]]

\* The accepted caller owns the request until it reports an outcome.
Start(i) == running' = [running EXCEPT ![i] = @ + 1]

BeginNew(i, effect) ==
    /\ i \notin LiveIdentities
    /\ Disposition(i) = "Accepted"
    /\ requests' = With(LiveRequests, i, NewEntry(effect))
    /\ highestSequences' = With(LiveSequences, i.client, HighMark(i))
    /\ started' = With(started, i, [at |-> now, effect |-> effect])
    /\ Start(i)

\* Beginning a retryable request again does not renew its client's high mark.
BeginExisting(i) ==
    /\ i \in LiveIdentities
    /\ Disposition(i) = "Accepted"
    /\ requests' = With(LiveRequests, i, RetriedEntry(i))
    /\ highestSequences' = LiveSequences
    /\ Start(i)
    /\ UNCHANGED started

Refuse(i) ==
    /\ Disposition(i) # "Accepted"
    /\ requests' = LiveRequests
    /\ highestSequences' = LiveSequences
    /\ UNCHANGED <<running, started>>

TryBegin(i, effect) ==
    /\ BeginNew(i, effect) \/ BeginExisting(i) \/ Refuse(i)
    /\ UNCHANGED now

\* An entry in progress gets its outcome; any other entry is left alone.
Conclude(i, state, response) ==
    IF InProgress(i)
    THEN [requests EXCEPT ![i].state = state,
                          ![i].response = response,
                          ![i].expiresAt = now + Lifetime]
    ELSE requests

\* The accepted caller reports its outcome, once.
Report(i) ==
    /\ running[i] > 0
    /\ running' = [running EXCEPT ![i] = @ - 1]
    /\ UNCHANGED <<highestSequences, now, started>>

MarkCompleted(i, response) ==
    /\ Report(i)
    /\ requests' = Conclude(i, "Completed", response)

LostState(i) ==
    IF requests[i].effect = "ReadOnly" THEN "Retryable" ELSE "DeliveryUnknown"

MarkConnectionLost(i) ==
    /\ Report(i)
    /\ requests' = IF InProgress(i)
                   THEN Conclude(i, LostState(i), NoResponse)
                   ELSE requests

Tick ==
    /\ now < MaxTime
    /\ now' = now + 1
    /\ UNCHANGED <<requests, highestSequences, running, started>>

Empty == [x \in {} |-> x]
NothingRunning == [i \in Identity |-> 0]

\* A new broker process constructs a new, empty ledger.
Restart ==
    /\ requests' = Empty
    /\ highestSequences' = Empty
    /\ running' = NothingRunning
    /\ started' = Empty
    /\ UNCHANGED now

Init ==
    /\ requests = Empty
    /\ highestSequences = Empty
    /\ now = 0
    /\ running = NothingRunning
    /\ started = Empty

Next ==
    \/ \E i \in Identity : \E effect \in Effect : TryBegin(i, effect)
    \/ \E i \in Identity : \E response \in Responses : MarkCompleted(i, response)
    \/ \E i \in Identity : MarkConnectionLost(i)
    \/ Tick
    \/ Restart

Spec == Init /\ [][Next]_vars

-----------------------------------------------------------------------------
\* Types.  An entry has an expiry exactly when it is not in progress, and a
\* response exactly when it is completed.
EntryOK(entry) ==
    /\ entry \in Entry
    /\ entry.state = "InProgress" <=> entry.expiresAt = Never
    /\ entry.state = "Completed" <=> entry.response # NoResponse

TypeOK ==
    /\ DOMAIN requests \subseteq Identity
    /\ \A i \in DOMAIN requests : EntryOK(requests[i])
    /\ DOMAIN highestSequences \subseteq Clients
    /\ \A c \in DOMAIN highestSequences :
          highestSequences[c] \in [highest: Sequences, expiresAt: Nat]
    /\ now \in Nat
    /\ running \in [Identity -> Nat]
    /\ DOMAIN started \subseteq Identity
    /\ \A i \in DOMAIN started : started[i] \in [at: Nat, effect: Effect]

\* Exactly the requests in progress have an accepted caller, and exactly one:
\* a report always lands on the entry it is meant for, no request is run by
\* two handlers at once, and no entry is left in progress by nobody
\* (HandleMcpRequestAsync reports on every path out of InvokeAsync).
HandlerMatchesEntry ==
    \A i \in Identity : running[i] = IF InProgress(i) THEN 1 ELSE 0

\* The tables stay within their capacities however requests arrive
\* (maximumEntries, maximumLeaseEntries).
WithinCapacity ==
    /\ Cardinality(DOMAIN requests) <= MaximumEntries
    /\ Cardinality(DOMAIN highestSequences) <= MaximumLeaseEntries

\* Every request begun within LeaseSequenceLifetime is still covered by the
\* high mark of its client, whatever became of its entry.
HighMarkCovers ==
    \A j \in DOMAIN started :
        /\ started[j].at <= now
        /\ now < started[j].at + LeaseSequenceLifetime =>
              /\ j.client \in DOMAIN highestSequences
              /\ j.sequence <= highestSequences[j.client].highest
              /\ started[j].at + LeaseSequenceLifetime
                    <= highestSequences[j.client].expiresAt

\* Every entry was begun, with the effect it was begun with, and only a
\* read-only one becomes retryable.
EntriesWereStarted ==
    \A i \in DOMAIN requests :
        /\ i \in DOMAIN started /\ started[i].effect = requests[i].effect
        /\ requests[i].state = "Retryable" => requests[i].effect = "ReadOnly"

\* The strengthening that makes MutatingAcceptedOnce and SequencesAdvance
\* provable from one step.
LeaseInv == HighMarkCovers /\ EntriesWereStarted

\* A step that accepts identity i.
Accepts(i) == running'[i] > running[i]

\* A request that may change the game is not accepted a second time before
\* LeaseSequenceLifetime has passed since it was accepted, although its own
\* entry is forgotten much sooner (RemoveExpiredEntries).
MutatingAcceptedOnce ==
    [][\A i \in DOMAIN started :
          Accepts(i) /\ started[i].effect = "Mutating" =>
              now >= started[i].at + LeaseSequenceLifetime]_vars

\* A request the ledger does not remember is accepted only with a higher
\* sequence than every request of its client begun within
\* LeaseSequenceLifetime: a delayed or repeated request comes too late to be
\* taken for a new one (the StaleSequence disposition).
SequencesAdvance ==
    [][\A i \in Identity \ LiveIdentities : Accepts(i) =>
          \A j \in DOMAIN started :
              j.client = i.client /\ now < started[j].at + LeaseSequenceLifetime
                  => j.sequence < i.sequence]_vars

\* An outcome that callers may have been told is kept unchanged for its whole
\* lifetime, unless the broker restarts: a delivery reported as unknown is
\* not reopened, and a completed response not replaced, by a retry or by a
\* handler that reports late.
OutcomesAreFinal ==
    [][~Restart =>
          \A i \in DOMAIN requests :
              /\ requests[i].state \in {"Completed", "DeliveryUnknown"}
              /\ now < requests[i].expiresAt
              => i \in DOMAIN requests' /\ requests'[i] = requests[i]]_vars
=============================================================================
