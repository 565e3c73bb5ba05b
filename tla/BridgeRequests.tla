--------------------------- MODULE BridgeRequests ---------------------------
(***************************************************************************)
(* The path of a tool call: the MCP process' transport                     *)
(* (BrokerBridgeToolTransport, BrokerClient), the broker's request         *)
(* handlers and its session with the game (BrokerService,                  *)
(* GameBrokerSession) over a RequestLedger, and the game's client          *)
(* (CodexBridgeGameClient.cpp, CodexBridgeModule.cpp).                     *)
(*                                                                         *)
(* A handler is the broker's task for one attempt of one call: the         *)
(* transport opens a connection for each attempt and sends one request on  *)
(* it.  Handlers, the session's reader, the game's I/O thread and the game *)
(* thread interleave at every await and every lock.                        *)
(*                                                                         *)
(* The broker creates its pipes without buffers (the zero sizes given to   *)
(* CreateNamedPipe), so a write completes when the peer reads the frame:   *)
(* a frame moves in one step of both ends and none is in flight.           *)
(***************************************************************************)
EXTENDS Integers, Sequences, FiniteSets

CONSTANTS
    Calls,              \* tool calls
    ReadOnlyCalls,      \* the calls whose effect is ReadOnly
    Clients,            \* MCP processes (clientInstanceId)
    ClientOf,           \* the process of each call
    RequestIds,
    IdOf,               \* the request id of each call
    QueueCapacity,      \* of the game's inbound and outbound queues
    MaxGeneration,      \* bound on the game's connection attempts
    MaxCrashes,         \* bound on crashes of the broker and of the game
    MaximumEntries, MaximumLeaseEntries, Lifetime, LeaseSequenceLifetime,
    MaxTime, NoResponse, Never,     \* of RequestLedger
    None                \* null

ASSUME BridgeAssumption ==
    /\ ReadOnlyCalls \subseteq Calls
    /\ ClientOf \in [Calls -> Clients]
    /\ IdOf \in [Calls -> RequestIds]
    /\ QueueCapacity \in Nat \ {0}
    /\ MaxGeneration \in Nat
    /\ MaxCrashes \in Nat

VARIABLES
    tool,               \* call -> the transport's RequestAsync
    sequence,           \* client -> the transport's sequence counter
    handler,            \* handler -> the broker's task for it
    gameSession,        \* the broker's current session, a generation or None
    session,            \* generation -> GameBrokerSession and its pipe
    game,               \* the game's client and its queues
    requests, highestSequences, now, running, started,      \* the ledger
    ran,                \* history: times the game ran each call
    crashes             \* history: crashes so far

ledgerVars == <<requests, highestSequences, now, running, started>>
brokerVars == <<handler, gameSession, session, ledgerVars>>
vars == <<tool, sequence, brokerVars, game, ran, crashes>>

Sequences == 1 .. Cardinality(Calls)
Generations == 1 .. MaxGeneration
Handlers == Calls \X {1, 2}
Attempt(c) == <<c, tool[c].attempt>>
CallOf(h) == h[1]
Id(h) == IdOf[CallOf(h)]

\* A response carries an error, or what a run of a call returned.
Failure(error) == [error |-> error, run |-> None]
Success(c) == [error |-> "none", run |-> c]
Ambiguous == {"broker_disconnected", "delivery_unknown", "game_timeout"}
Refusals == {"game_offline", "busy", "request_in_progress", "duplicate_request",
             "request_sequence_stale", "bridge_unavailable"}
Response == {Failure(e) : e \in Ambiguous \cup Refusals} \cup {Success(c) : c \in Calls}

\* Null is none of the values it stands beside.
ASSUME NoneAssumption ==
    None \notin Response \cup Handlers \cup Generations \cup {"done", "refused", "unknown"}

\* What the ledger asks of its parameters; sequences number finitely many calls.
ASSUME LedgerLimits ==
    /\ IsFiniteSet(Calls)
    /\ NoResponse \notin Response /\ Never \notin Nat
    /\ {MaximumEntries, MaximumLeaseEntries} \subseteq Nat \ {0}
    /\ {Lifetime, LeaseSequenceLifetime, MaxTime} \subseteq Nat

Ledger == INSTANCE RequestLedger WITH Responses <- Response

Identity(h) ==
    [client |-> ClientOf[CallOf(h)], sequence |-> tool[CallOf(h)].sequence, id |-> Id(h)]
Effect(h) == IF CallOf(h) \in ReadOnlyCalls THEN "ReadOnly" ELSE "Mutating"

\* A handler that has no session and no response: yet to come, or over.
Idle(phase) == [phase |-> phase, session |-> None, response |-> None]

Init ==
    /\ tool = [c \in Calls |->
                 [phase |-> "idle", attempt |-> 1, sequence |-> 0, answer |-> None]]
    /\ sequence = [k \in Clients |-> 0]
    /\ handler = [h \in Handlers |-> Idle("none")]
    /\ gameSession = None
    /\ session = [g \in Generations |->
                    [pipe |-> "none", reader |-> "none",
                     pending |-> [id \in RequestIds |-> None]]]
    /\ game = [link |-> "down", generation |-> 0, inbound |-> <<>>, outbound |-> <<>>]
    /\ Ledger!Init
    /\ ran = [c \in Calls |-> 0]
    /\ crashes = 0

-----------------------------------------------------------------------------
(* The transport: BrokerBridgeToolTransport.RequestAsync                    *)

Active(c) == tool[c].phase \in {"connecting", "waiting"}

\* requestGate admits one call of a process at a time.
StartCall(c) ==
    LET k == ClientOf[c] IN
    /\ tool[c].phase = "idle"
    /\ \A d \in Calls : ClientOf[d] = k => ~Active(d)
    /\ sequence' = [sequence EXCEPT ![k] = @ + 1]
    /\ tool' = [tool EXCEPT ![c].phase = "connecting", ![c].sequence = sequence[k] + 1]
    /\ UNCHANGED <<brokerVars, game, ran, crashes>>

\* The broker accepts the connection (one for each attempt) and the request is sent on it.
Connect(c) ==
    /\ tool[c].phase = "connecting"
    /\ tool' = [tool EXCEPT ![c].phase = "waiting"]
    /\ handler' = [handler EXCEPT ![Attempt(c)].phase = "received"]
    /\ UNCHANGED <<sequence, gameSession, session, ledgerVars, game, ran, crashes>>

MayRetry(c) == c \in ReadOnlyCalls /\ tool[c].attempt = 1
Retry(c) == tool' = [tool EXCEPT ![c].phase = "connecting", ![c].attempt = 2]
Answer(c, response) ==
    tool' = [tool EXCEPT ![c].phase = "answered", ![c].answer = response]

\* Mutant of Throw: an exception is taken for a call that was never sent.
ThrowUnsent(c, connected) ==
    IF MayRetry(c) THEN Retry(c) ELSE Answer(c, Failure("bridge_unavailable"))


\* What becomes of a response, and of an exception.
Finish(c, response) ==
    IF response.error \notin Ambiguous THEN Answer(c, response)
    ELSE IF MayRetry(c) THEN Retry(c)
    ELSE IF c \in ReadOnlyCalls THEN Answer(c, response)
    ELSE Answer(c, Failure("delivery_unknown"))
Throw(c, connected) ==
    IF MayRetry(c) THEN Retry(c)
    ELSE IF connected /\ c \notin ReadOnlyCalls THEN Answer(c, Failure("delivery_unknown"))
    ELSE Answer(c, Failure("bridge_unavailable"))

ConnectFails(c) ==
    /\ tool[c].phase = "connecting"
    /\ Throw(c, FALSE)
    /\ UNCHANGED <<sequence, brokerVars, game, ran, crashes>>

ReceiveResponse(c) ==
    /\ tool[c].phase = "waiting"
    /\ handler[Attempt(c)].phase = "responded"
    /\ Finish(c, handler[Attempt(c)].response)
    /\ handler' = [handler EXCEPT ![Attempt(c)] = Idle("gone")]
    /\ UNCHANGED <<sequence, gameSession, session, ledgerVars, game, ran, crashes>>

\* The broker is gone: the read ends cleanly or with an exception.
LoseConnection(c) ==
    /\ tool[c].phase = "waiting"
    /\ handler[Attempt(c)].phase = "gone"
    /\ Finish(c, Failure("broker_disconnected")) \/ Throw(c, TRUE)
    /\ UNCHANGED <<sequence, brokerVars, game, ran, crashes>>

\* The caller cancels; its handler in the broker does not notice.
Cancel(c) ==
    /\ Active(c)
    /\ tool' = [tool EXCEPT ![c].phase = "cancelled"]
    /\ UNCHANGED <<sequence, brokerVars, game, ran, crashes>>

-----------------------------------------------------------------------------
(* The broker's handler of one request: HandleMcpRequestAsync, InvokeAsync  *)

Respond(h, response) ==
    handler' = [handler EXCEPT ![h] =
                  [phase |-> "responded", session |-> None, response |-> response]]
Advance(h, phase) == handler' = [handler EXCEPT ![h].phase = phase]
SessionOf(h) == handler[h].session
\* Mutant of RemovePending: the entry stays.
KeepPending(h) == UNCHANGED session
RemovePending(h) == session' = [session EXCEPT ![SessionOf(h)].pending[Id(h)] = None]

Disconnected(g) == [session EXCEPT ![g].pipe = "disposed"]

\* GetGameSession.  The lease can expire at any time: nothing bounds how long
\* the game stays silent.
AdmitRequest(h) ==
    /\ handler[h].phase = "received"
    /\ gameSession # None
    /\ handler' = [handler EXCEPT ![h].phase = "admitted", ![h].session = gameSession]
    /\ UNCHANGED <<tool, sequence, gameSession, session, ledgerVars, game, ran, crashes>>
RefuseOffline(h) ==
    /\ handler[h].phase = "received"
    /\ gameSession = None
    /\ Respond(h, Failure("game_offline"))
    /\ UNCHANGED <<tool, sequence, gameSession, session, ledgerVars, game, ran, crashes>>
ExpireLease(h) ==
    /\ handler[h].phase = "received"
    /\ gameSession # None
    /\ session' = Disconnected(gameSession)
    /\ gameSession' = None
    /\ Respond(h, Failure("game_offline"))
    /\ UNCHANGED <<tool, sequence, ledgerVars, game, ran, crashes>>

Refusal(i) ==
    CASE Ledger!Disposition(i) = "InProgress" -> Failure("request_in_progress")
      [] Ledger!Disposition(i) = "ReplayCompleted" -> requests[i].response
      [] Ledger!Disposition(i) = "DeliveryUnknown" -> Failure("delivery_unknown")
      [] Ledger!Disposition(i) = "Busy" -> Failure("busy")
      [] Ledger!Disposition(i) = "StaleSequence" -> Failure("request_sequence_stale")

Begin(h) ==
    LET i == Identity(h) IN
    /\ handler[h].phase = "admitted"
    /\ Ledger!TryBegin(i, Effect(h))
    /\ IF Ledger!Disposition(i) = "Accepted" THEN Advance(h, "accepted")
       ELSE Respond(h, Refusal(i))
    /\ UNCHANGED <<tool, sequence, gameSession, session, game, ran, crashes>>

\* Mutant of Conclude: a timeout is not reported to the ledger.
ConcludeUnreported(h, response) ==
    /\ CASE response.error = "game_timeout" -> UNCHANGED ledgerVars
         [] response.error = "delivery_unknown" -> Ledger!MarkConnectionLost(Identity(h))
         [] OTHER -> Ledger!MarkCompleted(Identity(h), response)
    /\ Respond(h, response)

\* The handler's report to the ledger and its response to the caller.
Conclude(h, response) ==
    /\ IF response.error \in {"delivery_unknown", "game_timeout"}
       THEN Ledger!MarkConnectionLost(Identity(h))
       ELSE Ledger!MarkCompleted(Identity(h), response)
    /\ Respond(h, response)


AddPending(h) ==
    /\ handler[h].phase = "accepted"
    /\ IF session[SessionOf(h)].pending[Id(h)] = None
       THEN /\ session' = [session EXCEPT ![SessionOf(h)].pending[Id(h)] = h]
            /\ Advance(h, "added")
            /\ UNCHANGED ledgerVars
       ELSE Conclude(h, Failure("duplicate_request")) /\ UNCHANGED session
    /\ UNCHANGED <<tool, sequence, gameSession, game, ran, crashes>>

GameEndOpen(g) == game.generation = g /\ game.link # "down"

\* The write fails once either end of the pipe is closed; so may the flush
\* after it, although the game has read the frame.
WriteFails(h) ==
    LET g == SessionOf(h) IN
    /\ \/ handler[h].phase = "added" /\ (session[g].pipe = "disposed" \/ ~GameEndOpen(g))
       \/ handler[h].phase = "written" /\ session[g].pipe = "disposed"
    /\ RemovePending(h)
    /\ Conclude(h, Failure("delivery_unknown"))
    /\ UNCHANGED <<tool, sequence, gameSession, game, ran, crashes>>

FlushDone(h) ==
    /\ handler[h].phase = "written"
    /\ session[SessionOf(h)].pipe = "open"
    /\ Advance(h, "waiting")
    /\ UNCHANGED <<tool, sequence, gameSession, session, ledgerVars, game, ran, crashes>>

\* The request's completion was set.
Resume(h) ==
    /\ handler[h].phase = "waiting"
    /\ handler[h].response # None
    /\ Conclude(h, handler[h].response)
    /\ UNCHANGED <<tool, sequence, gameSession, session, game, ran, crashes>>

\* Mutant of Timeout: the request is waited for without a timer.
TimeoutMissing(h) == FALSE

\* The timer may win against a completion that is already set.  Removing the
\* pending entry is a later step, by key.
Timeout(h) ==
    /\ handler[h].phase = "waiting"
    /\ Advance(h, "timedOut")
    /\ UNCHANGED <<tool, sequence, gameSession, session, ledgerVars, game, ran, crashes>>
RemoveTimedOut(h) ==
    /\ handler[h].phase = "timedOut"
    /\ RemovePending(h)
    /\ Conclude(h, Failure("game_timeout"))
    /\ UNCHANGED <<tool, sequence, gameSession, game, ran, crashes>>

-----------------------------------------------------------------------------
(* The broker's session with the game: TryRegisterGameSession, RunAsync     *)

\* A hello is accepted when its generation is newer than every one accepted;
\* the session is current from then on, before the game knows.
Register(g) ==
    /\ game.generation >= g
    /\ session[g].pipe = "none"
    /\ \A k \in Generations : k > g => session[k].pipe = "none"
    /\ gameSession' = g
    /\ session' = [k \in Generations |->
                     IF k = g THEN [session[k] EXCEPT !.pipe = "open"]
                     ELSE IF k = gameSession THEN [session[k] EXCEPT !.pipe = "disposed"]
                     ELSE session[k]]
    /\ UNCHANGED <<tool, sequence, handler, ledgerVars, game, ran, crashes>>

\* The hello response does not reach the game: its end is closed or the
\* handshake times out.  The pipe is disposed, but the session stays current.
GreetFails(g) ==
    /\ session[g].pipe = "open" /\ session[g].reader = "none"
    /\ session' = Disconnected(g)
    /\ UNCHANGED <<tool, sequence, handler, gameSession, ledgerVars, game, ran, crashes>>

\* The game reads the hello response, and the broker starts the reader.
Greet(g) ==
    /\ session[g].pipe = "open" /\ session[g].reader = "none"
    /\ game.generation = g /\ game.link = "hello"
    /\ session' = [session EXCEPT ![g].reader = "running"]
    /\ game' = [game EXCEPT !.link = "up"]
    /\ UNCHANGED <<tool, sequence, handler, gameSession, ledgerVars, ran, crashes>>

\* Completing a request whose response is already set changes nothing.
Complete(hs, response) ==
    [h \in Handlers |->
        IF h \in hs /\ handler[h].response = None
        THEN [handler[h] EXCEPT !.response = response]
        ELSE handler[h]]


\* The reader ends with either end of the pipe: every request still pending
\* is completed as unknown.
SessionEnd(g) ==
    /\ session[g].reader = "running"
    /\ session[g].pipe = "disposed" \/ ~GameEndOpen(g)
    /\ handler' = Complete({session[g].pending[id] : id \in RequestIds},
                           Failure("delivery_unknown"))
    /\ session' = [session EXCEPT ![g] =
                     [pipe |-> "disposed", reader |-> "ended",
                      pending |-> [id \in RequestIds |-> None]]]
    /\ gameSession' = IF gameSession = g THEN None ELSE gameSession
    /\ UNCHANGED <<tool, sequence, ledgerVars, game, ran, crashes>>

-----------------------------------------------------------------------------
(* The game: its I/O thread (Run) and its game thread (DispatchRequests)    *)

Hangup == [game EXCEPT !.link = "down"]

Dial ==
    /\ game.link = "down"
    /\ game.generation < MaxGeneration
    /\ game' = [game EXCEPT !.link = "hello", !.generation = @ + 1]
    /\ UNCHANGED <<tool, sequence, brokerVars, ran, crashes>>

\* The handshake's deadline, an I/O timeout, a closed pipe or a bad frame.
Drop ==
    /\ game.link # "down"
    /\ game' = Hangup
    /\ UNCHANGED <<tool, sequence, brokerVars, ran, crashes>>

Reading(h) ==
    /\ handler[h].phase = "added"
    /\ session[SessionOf(h)].pipe = "open"
    /\ game.generation = SessionOf(h)

\* A request that arrives before the hello response is taken for a refusal.
ReadTooEarly(h) ==
    /\ Reading(h) /\ game.link = "hello"
    /\ Advance(h, "written")
    /\ game' = Hangup
    /\ UNCHANGED <<tool, sequence, gameSession, session, ledgerVars, ran, crashes>>

\* Mutant of Enqueued: the capacity is not checked.
EnqueuedUnbounded(queue, entry) == Append(queue, entry)

\* EnqueueResponse: a full queue drops the response.
Enqueued(queue, entry) == IF Len(queue) < QueueCapacity THEN Append(queue, entry) ELSE queue
Reply(h, response) == [id |-> Id(h), response |-> response]

ReadRequest(h) ==
    /\ Reading(h) /\ game.link = "up"
    /\ Advance(h, "written")
    /\ game' = IF Len(game.inbound) < QueueCapacity
               THEN [game EXCEPT !.inbound = Append(@, h)]
               ELSE [game EXCEPT !.outbound = Enqueued(@, Reply(h, Failure("busy")))]
    /\ UNCHANGED <<tool, sequence, gameSession, session, ledgerVars, ran, crashes>>

\* Mutant of WriteResponse: the response completes a pending request whatever
\* its id.
WriteResponseToAny ==
    LET g == game.generation IN
    /\ game.link = "up" /\ game.outbound # <<>>
    /\ session[g].pipe = "open" /\ session[g].reader = "running"
    /\ \E id \in RequestIds :
          /\ handler' = Complete({session[g].pending[id]}, Head(game.outbound).response)
          /\ session' = [session EXCEPT ![g].pending[id] = None]
    /\ game' = [game EXCEPT !.outbound = Tail(@)]
    /\ UNCHANGED <<tool, sequence, gameSession, ledgerVars, ran, crashes>>

\* DrainOutbound writes the oldest response and the session's reader takes it:
\* a response that nothing waits for is ignored.
WriteResponse ==
    LET g == game.generation
        id == Head(game.outbound).id
    IN
    /\ game.link = "up" /\ game.outbound # <<>>
    /\ session[g].pipe = "open" /\ session[g].reader = "running"
    /\ handler' = Complete({session[g].pending[id]}, Head(game.outbound).response)
    /\ session' = [session EXCEPT ![g].pending[id] = None]
    /\ game' = [game EXCEPT !.outbound = Tail(@)]
    /\ UNCHANGED <<tool, sequence, gameSession, ledgerVars, ran, crashes>>

\* A response already dequeued is lost with the connection.
WriteResponseFails ==
    /\ game.link = "up" /\ game.outbound # <<>>
    /\ game' = [Hangup EXCEPT !.outbound = Tail(@)]
    /\ UNCHANGED <<tool, sequence, brokerVars, ran, crashes>>

Execute ==
    LET h == Head(game.inbound) IN
    /\ game.inbound # <<>>
    /\ ran' = [ran EXCEPT ![CallOf(h)] = @ + 1]
    /\ game' = [game EXCEPT !.inbound = Tail(@),
                            !.outbound = Enqueued(@, Reply(h, Success(CallOf(h))))]
    /\ UNCHANGED <<tool, sequence, brokerVars, crashes>>

-----------------------------------------------------------------------------
\* A crashed game loses its queues; the next connection is a new process'.
GameCrash ==
    /\ crashes < MaxCrashes
    /\ crashes' = crashes + 1
    /\ game' = [Hangup EXCEPT !.inbound = <<>>, !.outbound = <<>>]
    /\ UNCHANGED <<tool, sequence, brokerVars, ran>>

\* A crashed broker loses all it knew; the next one starts with nothing.
BrokerCrash ==
    /\ crashes < MaxCrashes
    /\ crashes' = crashes + 1
    /\ handler' = [h \in Handlers |->
                     IF handler[h].phase = "none" THEN handler[h]
                     ELSE Idle("gone")]
    /\ gameSession' = None
    /\ session' = [g \in Generations |->
                     IF g > game.generation THEN session[g]
                     ELSE [pipe |-> "disposed", reader |-> "ended",
                           pending |-> [id \in RequestIds |-> None]]]
    /\ Ledger!Restart
    /\ UNCHANGED <<tool, sequence, game, ran>>

LedgerClock ==
    /\ Ledger!Tick
    /\ UNCHANGED <<tool, sequence, handler, gameSession, session, game, ran, crashes>>

ToolNext(c) ==
    \/ StartCall(c) \/ Connect(c) \/ ConnectFails(c) \/ ReceiveResponse(c)
    \/ LoseConnection(c) \/ Cancel(c)
HandlerNext(h) ==
    \/ AdmitRequest(h) \/ RefuseOffline(h) \/ ExpireLease(h) \/ Begin(h)
    \/ AddPending(h) \/ WriteFails(h) \/ FlushDone(h) \/ Resume(h)
    \/ Timeout(h) \/ RemoveTimedOut(h)
SessionNext(g) == Register(g) \/ Greet(g) \/ GreetFails(g) \/ SessionEnd(g)
GameNext ==
    \/ Dial \/ Drop \/ WriteResponse \/ WriteResponseFails \/ Execute
    \/ \E h \in Handlers : ReadTooEarly(h) \/ ReadRequest(h)

Next ==
    \/ \E c \in Calls : ToolNext(c)
    \/ \E h \in Handlers : HandlerNext(h)
    \/ \E g \in Generations : SessionNext(g)
    \/ GameNext
    \/ GameCrash \/ BrokerCrash \/ LedgerClock

Spec == Init /\ [][Next]_vars

\* Fairness: the transport, the broker's tasks and its timers run, and the
\* game's I/O thread reads (it never waits for the game thread).  The game
\* thread may hang for ever, and nobody has to connect.
Fairness ==
    /\ \A c \in Calls :
          WF_vars(Connect(c) \/ ConnectFails(c) \/ ReceiveResponse(c) \/ LoseConnection(c))
    /\ \A h \in Handlers :
          WF_vars(HandlerNext(h)) /\ WF_vars(ReadTooEarly(h) \/ ReadRequest(h))
    /\ \A g \in Generations : WF_vars(Greet(g) \/ GreetFails(g))

FairSpec == Spec /\ Fairness

-----------------------------------------------------------------------------
Working == {"accepted", "added", "written", "waiting", "timedOut"}

ToolOK(t) ==
    /\ t.phase \in {"idle", "connecting", "waiting", "answered", "cancelled"}
    /\ t.attempt \in {1, 2}
    /\ t.sequence \in {0} \cup Sequences
    /\ t.answer \in Response \cup {None}
    /\ t.phase = "answered" <=> t.answer # None
HandlerOK(t) ==
    /\ t.phase \in {"none", "received", "admitted", "responded", "gone"} \cup Working
    /\ t.session \in Generations \cup {None}
    /\ t.response \in Response \cup {None}
    /\ t.phase \in Working => t.session # None
    /\ t.phase = "responded" => t.response # None
SessionOK(t) ==
    /\ t.pipe \in {"none", "open", "disposed"}
    /\ t.reader \in {"none", "running", "ended"}
    /\ t.pending \in [RequestIds -> Handlers \cup {None}]
Queued == [id: RequestIds, response: Response]

\* Types of the whole path, the ledger's included.
TypeOK ==
    /\ \A c \in Calls : ToolOK(tool[c])
    /\ sequence \in [Clients -> {0} \cup Sequences]
    /\ \A h \in Handlers : HandlerOK(handler[h])
    /\ gameSession \in Generations \cup {None}
    /\ \A g \in Generations : SessionOK(session[g])
    /\ game.link \in {"down", "hello", "up"}
    /\ game.generation \in 0 .. MaxGeneration
    /\ game.inbound \in Seq(Handlers) /\ Len(game.inbound) <= QueueCapacity
    /\ game.outbound \in Seq(Queued) /\ Len(game.outbound) <= QueueCapacity
    /\ Ledger!TypeOK
    /\ ran \in [Calls -> Nat]
    /\ crashes \in 0 .. MaxCrashes

UniqueIds == \A c, d \in Calls : IdOf[c] = IdOf[d] => c = d

\* A handler that waits is found under its request id in the session it writes
\* to until it is completed, and what a session holds belongs to a handler
\* still at work there: no response is lost between InvokeAsync, the reader, the
\* end of the session and the timer, and no entry is left behind to make a
\* retry a duplicate.
PendingMatchesHandlers ==
    UniqueIds =>
        \A h \in Handlers :
            /\ /\ handler[h].phase \in {"added", "written", "waiting"}
               /\ handler[h].response = None
               => session[SessionOf(h)].pending[Id(h)] = h
            /\ \A g \in Generations : session[g].pending[Id(h)] = h =>
                  handler[h].session = g /\ handler[h].phase \in Working \ {"accepted"}

\* Every entry in progress in the ledger is held by exactly one handler that
\* will report its outcome, through timeouts, lost sessions, refused duplicates
\* and crashes: no entry stays in progress, and none is reported twice.
HandlersHoldEntries ==
    \A i \in Ledger!Identity :
        running[i] = Cardinality({h \in Handlers :
            handler[h].phase \in Working /\ Identity(h) = i})

\* With ids of their own, calls never meet traces of themselves or of earlier
\* calls: the second attempt of a read-only call finds the first concluded and
\* gone from the session, and sequences arrive in order (RequestAsync's gate).
\* Only a second attempt so late that the ledger has forgotten the outcome of
\* the first, but not yet its sequence, is refused as stale.
AttemptsDoNotCollide ==
    \A c \in Calls : tool[c].phase = "answered" =>
        /\ tool[c].answer.error \notin {"request_in_progress", "duplicate_request"}
        /\ tool[c].answer.error = "request_sequence_stale" =>
              /\ tool[c].attempt = 2 /\ now >= Lifetime
              /\ Identity(Attempt(c)) \notin DOMAIN requests

\* The promise to callers: AtMostOnceCalls, with the result codes abstracted.
Told(c) ==
    CASE tool[c].answer = None -> None
      [] tool[c].answer # None /\ tool[c].answer.error \in Refusals -> "refused"
      [] tool[c].answer # None /\ tool[c].answer.error \in Ambiguous -> "unknown"
      [] OTHER -> "done"

Promise == INSTANCE AtMostOnceCalls WITH answer <- [c \in Calls |-> Told(c)]
KeepsPromise == Promise!Spec

\* A caller gets the result of its own command, never that of another.
OwnResult ==
    \A c \in Calls : tool[c].answer # None /\ tool[c].answer.error = "none"
        => tool[c].answer.run = c

\* What execute_console_command's description says of requestId: it is the
\* stable identifier of a retry.  A command retried under its identifier by the
\* same client would then not run a second time while the broker remembers the
\* first.
RetryIdentifierHonoured ==
    \A c, d \in Calls \ ReadOnlyCalls :
        c # d /\ ClientOf[c] = ClientOf[d] /\ IdOf[c] = IdOf[d] => ran[c] + ran[d] <= 1

\* Every call is answered or cancelled, although the game thread may hang, the
\* connection drop and the broker crash at any moment.
CallsAnswered ==
    \A c \in Calls :
        tool[c].phase = "connecting" ~> tool[c].phase \in {"answered", "cancelled"}
=============================================================================
