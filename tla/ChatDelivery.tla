---------------------------- MODULE ChatDelivery ----------------------------
(***************************************************************************)
(* The chat between the game and Codex.  A message typed in the game       *)
(* (CodexBridgeConsoleCommands.cpp) travels as an event to the broker's    *)
(* session (GameBrokerSession), which queues it for the one chat worker    *)
(* (BrokerService.ProcessChatQueueAsync).  What comes of it is queued as a *)
(* pending game event and delivered by whoever flushes that queue: the     *)
(* worker, or the handler of a new connection                              *)
(* (FlushPendingGameEventsAsync).  The game shows each delivery once       *)
(* (CodexBridgeConsoleService.cpp).                                        *)
(*                                                                         *)
(* As in BridgeRequests a frame moves in one step of both ends, for the    *)
(* pipes have no buffers.  Requests of tools are left out: they share only *)
(* the session and the game's queues.                                      *)
(***************************************************************************)
EXTENDS Integers, Sequences, SequencesExt

CONSTANTS
    Chats,                  \* messages; each has one outcome and one delivery
    QueueCapacity,          \* of the game's inbound and outbound queues
    SessionEventCapacity,   \* of a session's eventQueue
    ChatQueueCapacity,      \* of the broker's chatQueue
    PendingEventCapacities, \* those of the broker's pendingGameEvents to consider
    DeliveredCapacity,      \* of the game's DeliveredChatEventIds
    MaxGeneration,          \* bound on the game's connection attempts, and
    Connections,            \* for each of those capacities
    MaxCrashes,             \* bound on crashes of the broker and of the game
    None                    \* null

ASSUME ChatAssumption ==
    /\ {QueueCapacity, SessionEventCapacity, ChatQueueCapacity,
        DeliveredCapacity} \cup PendingEventCapacities \subseteq Nat \ {0}
    /\ {MaxGeneration, MaxCrashes} \subseteq Nat
    /\ Connections \in [PendingEventCapacities -> 0 .. MaxGeneration]

VARIABLES
    game,               \* the game's client, its queues and what it delivered
    session,            \* generation -> GameBrokerSession, its pipe and events
    gameSession,        \* the broker's current session, a generation or None
    chatQueue,          \* chats the worker has yet to take
    acknowledged,       \* chats whose Acknowledged is set
    pendingChatCount,
    worker,             \* ProcessChatQueueAsync
    pendingGameEvents,  \* outcomes yet to be delivered, by chat
    pendingEventCapacity,   \* a constant of the broker; each behaviour has its own
    flush,              \* the callers of FlushPendingGameEventsAsync
    gate,               \* who holds pendingGameEventFlushGate, or None
    asked,              \* history: the chats typed so far
    accepted,           \* history: the chats this broker has queued, in order
    dropped,            \* history: outcomes this broker had no room for
    shown,              \* history: what this game process has shown, in order
    delivered,          \* history: the outcomes any game process has shown
    crashes             \* history: crashes so far

brokerVars == <<session, gameSession, chatQueue, acknowledged, pendingChatCount,
                worker, pendingGameEvents, pendingEventCapacity, flush, gate, accepted,
                dropped>>
vars == <<game, brokerVars, asked, shown, delivered, crashes>>
gameVars == <<asked, shown, delivered, crashes, pendingEventCapacity>>

Generations == 1 .. MaxGeneration
\* The chat worker, and the handler of each connection with the game.
Flushers == {0} \cup Generations
Worker == 0

NoSession == [pipe |-> "none", reader |-> "none", events |-> <<>>,
              processor |-> "idle", chat |-> None, notice |-> None, pending |-> {}]
EndedSession == [NoSession EXCEPT !.pipe = "disposed", !.reader = "ended"]
NoFlush == [phase |-> "idle", session |-> None, event |-> None, response |-> None]
IdleWorker == [phase |-> "idle", chat |-> None]
Frame(kind, c) == [kind |-> kind, chat |-> c]
\* What a session tells the game of a chat, and how a delivery ends.
Notices == {"accepted", "refused"}
Responses == {"ok", "busy", "delivery_unknown"}

ASSUME NoneAssumption ==
    None \notin Chats /\ None \notin Flushers /\ None \notin Notices \cup Responses

Init ==
    /\ game = [link |-> "down", generation |-> 0, inbound |-> <<>>, outbound |-> <<>>,
               deliveredIds |-> <<>>]
    /\ session = [g \in Generations |-> NoSession]
    /\ gameSession = None
    /\ chatQueue = <<>>
    /\ acknowledged = {}
    /\ pendingChatCount = 0
    /\ worker = IdleWorker
    /\ pendingGameEvents = <<>>
    /\ pendingEventCapacity \in PendingEventCapacities
    /\ flush = [f \in Flushers |-> NoFlush]
    /\ gate = None
    /\ asked = {}
    /\ accepted = <<>>
    /\ dropped = {}
    /\ shown = <<>>
    /\ delivered = {}
    /\ crashes = 0

Put(queue, entry) == IF Len(queue) < QueueCapacity THEN Append(queue, entry) ELSE queue

-----------------------------------------------------------------------------
(* The game thread                                                          *)

\* The console command: only while connected, and only if the queue has room.
Ask(c) ==
    /\ c \notin asked
    /\ game.link = "up"
    /\ Len(game.outbound) < QueueCapacity
    /\ asked' = asked \cup {c}
    /\ game' = [game EXCEPT !.outbound = Append(@, Frame("ask", c))]
    /\ UNCHANGED <<brokerVars, shown, delivered, crashes>>

\* HandleEvent: a notice of the session, that a chat is queued or was refused.
ShowNotice ==
    /\ game.inbound # <<>>
    /\ Head(game.inbound).kind # "deliver"
    /\ shown' = Append(shown, Head(game.inbound))
    /\ game' = [game EXCEPT !.inbound = Tail(@)]
    /\ UNCHANGED <<brokerVars, asked, delivered, crashes>>

\* The ids remembered after one more: the oldest is forgotten.
Remember(ids, c) ==
    LET more == Append(ids, c) IN
    IF Len(more) > DeliveredCapacity THEN Tail(more) ELSE more

\* Mutant of DeliverChatEvent: no de-duplication.
DeliverChatEventAlways ==
    LET c == Head(game.inbound).chat IN
    /\ game.inbound # <<>>
    /\ Head(game.inbound).kind = "deliver"
    /\ shown' = Append(shown, Head(game.inbound))
    /\ delivered' = delivered \cup {c}
    /\ game' = [game EXCEPT
                  !.inbound = Tail(@),
                  !.outbound = Put(@, Frame("ok", c)),
                  !.deliveredIds = Remember(@, c)]
    /\ UNCHANGED <<brokerVars, asked, crashes>>

\* A delivery is shown unless it was shown before, and answered either way.
DeliverChatEvent ==
    LET c == Head(game.inbound).chat
        repeated == Contains(game.deliveredIds, c)
    IN
    /\ game.inbound # <<>>
    /\ Head(game.inbound).kind = "deliver"
    /\ shown' = IF repeated THEN shown ELSE Append(shown, Head(game.inbound))
    /\ delivered' = delivered \cup {c}
    /\ game' = [game EXCEPT
                  !.inbound = Tail(@),
                  !.outbound = Put(@, Frame("ok", c)),
                  !.deliveredIds = IF repeated THEN @ ELSE Remember(@, c)]
    /\ UNCHANGED <<brokerVars, asked, crashes>>

-----------------------------------------------------------------------------
(* The game's I/O thread, and the reader of the broker's session            *)

Hangup == [game EXCEPT !.link = "down"]
GameEndOpen(g) == game.generation = g /\ game.link # "down"
Readable(g) == session[g].pipe = "open" /\ session[g].reader = "running"

Dial ==
    /\ game.link = "down"
    /\ game.generation < Connections[pendingEventCapacity]
    /\ game' = [game EXCEPT !.link = "hello", !.generation = @ + 1]
    /\ UNCHANGED <<brokerVars, asked, shown, delivered, crashes>>

\* The peer closed the pipe.
NoticeClosed ==
    /\ game.link # "down"
    /\ session[game.generation].pipe = "disposed"
    /\ game' = Hangup
    /\ UNCHANGED <<brokerVars, asked, shown, delivered, crashes>>

\* A timeout of the handshake or of a read or write, or a bad frame.
Drop ==
    /\ game.link # "down"
    /\ game' = Hangup
    /\ UNCHANGED <<brokerVars, asked, shown, delivered, crashes>>

\* A dequeued frame is lost with the connection.
WriteFails ==
    /\ game.link = "up" /\ game.outbound # <<>>
    /\ game' = [Hangup EXCEPT !.outbound = Tail(@)]
    /\ UNCHANGED <<brokerVars, asked, shown, delivered, crashes>>

\* An event waits in the session's queue; a full one holds up the reader.
WriteEvent ==
    LET g == game.generation IN
    /\ game.link = "up" /\ game.outbound # <<>>
    /\ Head(game.outbound).kind = "ask"
    /\ Readable(g)
    /\ Len(session[g].events) < SessionEventCapacity
    /\ session' = [session EXCEPT ![g].events = Append(@, Head(game.outbound).chat)]
    /\ game' = [game EXCEPT !.outbound = Tail(@)]
    /\ UNCHANGED <<gameSession, chatQueue, acknowledged, pendingChatCount, worker,
                   pendingGameEvents, flush, gate, accepted, dropped,
                   gameVars>>

\* Completes the deliveries of cs that wait on session g.
Complete(g, cs, response) ==
    [f \in Flushers |->
        IF flush[f].session = g /\ flush[f].event \in cs /\ flush[f].response = None
        THEN [flush[f] EXCEPT !.response = response]
        ELSE flush[f]]

WriteResponse ==
    LET g == game.generation
        frame == Head(game.outbound)
    IN
    /\ game.link = "up" /\ game.outbound # <<>>
    /\ frame.kind \in {"ok", "busy"}
    /\ Readable(g)
    /\ flush' = Complete(g, session[g].pending \cap {frame.chat}, frame.kind)
    /\ session' = [session EXCEPT ![g].pending = @ \ {frame.chat}]
    /\ game' = [game EXCEPT !.outbound = Tail(@)]
    /\ UNCHANGED <<gameSession, chatQueue, acknowledged, pendingChatCount, worker,
                   pendingGameEvents, gate, accepted, dropped,
                   gameVars>>

\* What the client does with a frame: before the hello response it ends the
\* handshake; later it is queued, a request that finds no room is answered
\* and a notice is dropped.
Receive(frame) ==
    IF game.link = "hello" THEN Hangup
    ELSE IF Len(game.inbound) < QueueCapacity
    THEN [game EXCEPT !.inbound = Append(@, frame)]
    ELSE IF frame.kind = "deliver"
    THEN [game EXCEPT !.outbound = Put(@, Frame("busy", frame.chat))]
    ELSE game

CanReceive(g) == GameEndOpen(g) /\ session[g].pipe = "open"

ReadNotice(g) ==
    /\ session[g].processor = "writing" /\ CanReceive(g)
    /\ game' = Receive(Frame(session[g].notice, session[g].chat))
    /\ session' = [session EXCEPT ![g].processor = "written"]
    /\ UNCHANGED <<gameSession, chatQueue, acknowledged, pendingChatCount, worker,
                   pendingGameEvents, flush, gate, accepted, dropped,
                   gameVars>>

ReadDelivery(f) ==
    /\ flush[f].phase = "added" /\ CanReceive(flush[f].session)
    /\ game' = Receive(Frame("deliver", flush[f].event))
    /\ flush' = [flush EXCEPT ![f].phase = "written"]
    /\ UNCHANGED <<session, gameSession, chatQueue, acknowledged, pendingChatCount,
                   worker, pendingGameEvents, gate, accepted, dropped,
                   gameVars>>

-----------------------------------------------------------------------------
(* Sessions: TryRegisterGameSession, HandleClientAsync, RunAsync            *)

chatVars == <<chatQueue, acknowledged, pendingChatCount, worker, accepted, dropped>>

Disconnected(g) == [session EXCEPT ![g].pipe = "disposed"]

\* A newer connection takes the lease before it is told so.
Register(g) ==
    /\ game.generation >= g
    /\ session[g].pipe = "none"
    /\ \A k \in Generations : k > g => session[k].pipe = "none"
    /\ gameSession' = g
    /\ session' = [k \in Generations |->
                     IF k = g THEN [session[k] EXCEPT !.pipe = "open"]
                     ELSE IF k = gameSession THEN [session[k] EXCEPT !.pipe = "disposed"]
                     ELSE session[k]]
    /\ UNCHANGED <<game, chatVars, pendingGameEvents, flush, gate, gameVars>>

GreetFails(g) ==
    /\ session[g].pipe = "open" /\ session[g].reader = "none"
    /\ session' = Disconnected(g)
    /\ UNCHANGED <<game, gameSession, chatVars, pendingGameEvents, flush, gate, gameVars>>

\* Mutant of Greet: a new connection does not deliver what is pending.
GreetOnly(g) ==
    /\ session[g].pipe = "open" /\ session[g].reader = "none"
    /\ game.generation = g /\ game.link = "hello"
    /\ session' = [session EXCEPT ![g].reader = "running"]
    /\ game' = [game EXCEPT !.link = "up"]
    /\ UNCHANGED <<gameSession, chatVars, pendingGameEvents, flush, gate, gameVars>>

\* The game reads the hello response; the session runs, and the handler goes
\* on to deliver what is pending.
Greet(g) ==
    /\ session[g].pipe = "open" /\ session[g].reader = "none"
    /\ game.generation = g /\ game.link = "hello"
    /\ session' = [session EXCEPT ![g].reader = "running"]
    /\ game' = [game EXCEPT !.link = "up"]
    /\ flush' = [flush EXCEPT ![g].phase = "gate", ![g].session = g]
    /\ UNCHANGED <<gameSession, chatVars, pendingGameEvents, gate, gameVars>>

\* The pipe is closed at either end; the events already read are still
\* processed.
ReaderStops(g) ==
    /\ session[g].reader = "running"
    /\ session[g].pipe = "disposed" \/ ~GameEndOpen(g)
    /\ session' = [session EXCEPT ![g].reader = "draining"]
    /\ UNCHANGED <<game, gameSession, chatVars, pendingGameEvents, flush, gate, gameVars>>

ProcessorDone(g) ==
    \/ session[g].processor = "stopped"
    \/ session[g].processor = "idle" /\ session[g].events = <<>>

SessionEnd(g) ==
    /\ session[g].reader = "draining"
    /\ ProcessorDone(g)
    /\ flush' = Complete(g, session[g].pending, "delivery_unknown")
    /\ session' = [session EXCEPT ![g] = EndedSession]
    /\ gameSession' = IF gameSession = g THEN None ELSE gameSession
    /\ UNCHANGED <<game, chatVars, pendingGameEvents, gate, gameVars>>

-----------------------------------------------------------------------------
(* The session's event processor: HandleGameEventAsync                      *)

Processing(g) == session[g].reader \in {"running", "draining"}

\* Only the current session's events count; the rest are dropped unheard.
TakeEvent(g) ==
    LET c == Head(session[g].events) IN
    /\ Processing(g) /\ session[g].processor = "idle"
    /\ session[g].events # <<>>
    /\ session' = [session EXCEPT
                     ![g].events = Tail(@),
                     ![g].processor = IF gameSession = g THEN "checked" ELSE "idle",
                     ![g].chat = IF gameSession = g THEN c ELSE None]
    /\ UNCHANGED <<game, gameSession, chatVars, pendingGameEvents, flush, gate, gameVars>>

Notify(g, notice) ==
    session' = [session EXCEPT ![g].processor = "writing", ![g].notice = notice]

\* By now the session may have been replaced.
QueueChat(g) ==
    LET c == session[g].chat IN
    /\ session[g].processor = "checked"
    /\ Len(chatQueue) < ChatQueueCapacity
    /\ chatQueue' = Append(chatQueue, c)
    /\ accepted' = Append(accepted, c)
    /\ pendingChatCount' = pendingChatCount + 1
    /\ Notify(g, "accepted")
    /\ UNCHANGED <<game, gameSession, acknowledged, worker, dropped,
                   pendingGameEvents, flush, gate, gameVars>>

RefuseChat(g) ==
    /\ session[g].processor = "checked"
    /\ Len(chatQueue) >= ChatQueueCapacity
    /\ Notify(g, "refused")
    /\ UNCHANGED <<game, gameSession, chatVars, pendingGameEvents, flush, gate, gameVars>>

\* The finally of HandleGameEventAsync: the worker may go on, sent or not.
Acknowledge(g) ==
    acknowledged' = IF session[g].notice = "accepted"
                    THEN acknowledged \cup {session[g].chat} ELSE acknowledged

NoticeEnds(g, processor) ==
    /\ Acknowledge(g)
    /\ session' = [session EXCEPT ![g].processor = processor,
                                  ![g].chat = None, ![g].notice = None]
    /\ UNCHANGED <<game, gameSession, chatQueue, pendingChatCount, worker, accepted,
                   dropped, pendingGameEvents, flush, gate, gameVars>>

NoticeSent(g) ==
    /\ session[g].processor = "written" /\ session[g].pipe = "open"
    /\ NoticeEnds(g, "idle")

\* The exception ends the processor; events it has not taken are lost.
NoticeFails(g) ==
    /\ \/ session[g].processor = "writing" /\ ~CanReceive(g)
       \/ session[g].processor = "written" /\ session[g].pipe = "disposed"
    /\ NoticeEnds(g, "stopped")

-----------------------------------------------------------------------------
(* The chat worker: ProcessChatQueueAsync, DeliverGameEventAsync            *)

TakeChat ==
    /\ worker.phase = "idle"
    /\ chatQueue # <<>>
    /\ worker' = [phase |-> "taken", chat |-> Head(chatQueue)]
    /\ chatQueue' = Tail(chatQueue)
    /\ UNCHANGED <<game, session, gameSession, acknowledged, pendingChatCount, accepted,
                   dropped, pendingGameEvents, flush, gate, gameVars>>

\* Mutant of MayAnswer: the worker does not wait for the acknowledgement.
MayAnswerAtOnce == worker.phase = "taken"

MayAnswer == worker.phase = "taken" /\ worker.chat \in acknowledged

\* Mutant of WorkDone: an early way out does not count.
WorkDoneUncounted ==
    /\ worker' = IdleWorker
    /\ pendingChatCount' = IF worker.phase = "taken" THEN pendingChatCount
                           ELSE pendingChatCount - 1

WorkDone ==
    /\ worker' = IdleWorker
    /\ pendingChatCount' = pendingChatCount - 1

\* The turn is over and its outcome queued, a reply and an error alike.
QueueOutcome ==
    /\ MayAnswer
    /\ Len(pendingGameEvents) < pendingEventCapacity
    /\ pendingGameEvents' = Append(pendingGameEvents, worker.chat)
    /\ worker' = [worker EXCEPT !.phase = "queued"]
    /\ UNCHANGED <<game, session, gameSession, chatQueue, acknowledged, pendingChatCount,
                   accepted, dropped, flush, gate, gameVars>>

DropOutcome ==
    /\ MayAnswer
    /\ Len(pendingGameEvents) >= pendingEventCapacity
    /\ dropped' = dropped \cup {worker.chat}
    /\ WorkDone
    /\ UNCHANGED <<game, session, gameSession, chatQueue, acknowledged, accepted,
                   pendingGameEvents, flush, gate, gameVars>>

\* GetGameSession, then the flush; without a session the outcome waits for one.
StartFlush ==
    /\ worker.phase = "queued"
    /\ gameSession # None
    /\ flush' = [flush EXCEPT ![Worker].phase = "gate", ![Worker].session = gameSession]
    /\ worker' = [worker EXCEPT !.phase = "flushing"]
    /\ UNCHANGED <<game, session, gameSession, chatQueue, acknowledged, pendingChatCount,
                   accepted, dropped, pendingGameEvents, gate, gameVars>>

LeaveOutcome ==
    /\ worker.phase = "queued"
    /\ gameSession = None
    /\ WorkDone
    /\ UNCHANGED <<game, session, gameSession, chatQueue, acknowledged, accepted,
                   dropped, pendingGameEvents, flush, gate, gameVars>>

ExpireLease ==
    /\ worker.phase = "queued"
    /\ gameSession # None
    /\ session' = Disconnected(gameSession)
    /\ gameSession' = None
    /\ WorkDone
    /\ UNCHANGED <<game, chatQueue, acknowledged, accepted, dropped,
                   pendingGameEvents, flush, gate, gameVars>>

FinishChat ==
    /\ worker.phase = "flushing"
    /\ flush[Worker].phase = "idle"
    /\ WorkDone
    /\ UNCHANGED <<game, session, gameSession, chatQueue, acknowledged, accepted,
                   dropped, pendingGameEvents, flush, gate, gameVars>>

-----------------------------------------------------------------------------
(* FlushPendingGameEventsAsync, and InvokeAsync on the flushed session      *)

SessionOf(f) == flush[f].session
Step(f, phase) == flush' = [flush EXCEPT ![f].phase = phase]

\* Mutant of EnterGate: the gate lets everybody in.
EnterGateOpen(f) ==
    /\ flush[f].phase = "gate"
    /\ gate' = f
    /\ Step(f, "peek")
    /\ UNCHANGED <<game, session, gameSession, chatVars, pendingGameEvents, gameVars>>

EnterGate(f) ==
    /\ flush[f].phase = "gate" /\ gate = None
    /\ gate' = f
    /\ Step(f, "peek")
    /\ UNCHANGED <<game, session, gameSession, chatVars, pendingGameEvents, gameVars>>

Leave(f) ==
    /\ flush' = [flush EXCEPT ![f] = NoFlush]
    /\ gate' = None

LeaveEmpty(f) ==
    /\ flush[f].phase = "peek"
    /\ pendingGameEvents = <<>>
    /\ Leave(f)
    /\ UNCHANGED <<game, session, gameSession, chatVars, pendingGameEvents, gameVars>>

\* Peek, and the entry InvokeAsync makes in the session.
PeekEvent(f) ==
    LET c == Head(pendingGameEvents) IN
    /\ flush[f].phase = "peek"
    /\ pendingGameEvents # <<>>
    /\ c \notin session[SessionOf(f)].pending
    /\ session' = [session EXCEPT ![SessionOf(f)].pending = @ \cup {c}]
    /\ flush' = [flush EXCEPT ![f].phase = "added", ![f].event = c]
    /\ UNCHANGED <<game, gameSession, chatVars, pendingGameEvents, gate, gameVars>>

RemovePending(f) == [session EXCEPT ![SessionOf(f)].pending = @ \ {flush[f].event}]

\* An I/O error leaves the event for the next session.
DeliveryWriteFails(f) ==
    /\ \/ flush[f].phase = "added" /\ ~CanReceive(SessionOf(f))
       \/ flush[f].phase = "written" /\ session[SessionOf(f)].pipe = "disposed"
    /\ session' = RemovePending(f)
    /\ Leave(f)
    /\ UNCHANGED <<game, gameSession, chatVars, pendingGameEvents, gameVars>>

DeliveryWritten(f) ==
    /\ flush[f].phase = "written" /\ session[SessionOf(f)].pipe = "open"
    /\ Step(f, "waiting")
    /\ UNCHANGED <<game, session, gameSession, chatVars, pendingGameEvents, gate, gameVars>>

\* Mutant of Confirms: every response counts as a delivery.
ConfirmsAny(response) == response # None

\* response.Ok
Confirms(response) == response = "ok"

Delivered(f) ==
    /\ flush[f].phase = "waiting"
    /\ Confirms(flush[f].response)
    /\ pendingGameEvents' = IF Head(pendingGameEvents) = flush[f].event
                            THEN Tail(pendingGameEvents) ELSE pendingGameEvents
    /\ flush' = [flush EXCEPT ![f].phase = "peek", ![f].event = None, ![f].response = None]
    /\ UNCHANGED <<game, session, gameSession, chatVars, gate, gameVars>>

\* Mutant of DeliveryRefused: the refused event goes to the back of the queue.
DeliveryRefusedRotates(f) ==
    /\ flush[f].phase = "waiting"
    /\ flush[f].response # None /\ ~Confirms(flush[f].response)
    /\ session' = Disconnected(SessionOf(f))
    /\ pendingGameEvents' = Append(Tail(pendingGameEvents), Head(pendingGameEvents))
    /\ Leave(f)
    /\ UNCHANGED <<game, gameSession, chatVars, gameVars>>

\* Any other response costs the game its session.
DeliveryRefused(f) ==
    /\ flush[f].phase = "waiting"
    /\ flush[f].response # None /\ ~Confirms(flush[f].response)
    /\ session' = Disconnected(SessionOf(f))
    /\ Leave(f)
    /\ UNCHANGED <<game, gameSession, chatVars, pendingGameEvents, gameVars>>

\* The timer may win against a response that is already there.
DeliveryTimeout(f) ==
    /\ flush[f].phase = "waiting"
    /\ session' = [RemovePending(f) EXCEPT ![SessionOf(f)].pipe = "disposed"]
    /\ Leave(f)
    /\ UNCHANGED <<game, gameSession, chatVars, pendingGameEvents, gameVars>>

-----------------------------------------------------------------------------
\* A broker that stops forgets everything; the game starts another.
Forget ==
    /\ session' = [g \in Generations |->
                     IF g > game.generation THEN session[g] ELSE EndedSession]
    /\ gameSession' = None
    /\ chatQueue' = <<>>
    /\ acknowledged' = {}
    /\ pendingChatCount' = 0
    /\ worker' = IdleWorker
    /\ pendingGameEvents' = <<>>
    /\ flush' = [f \in Flushers |-> NoFlush]
    /\ gate' = None
    /\ accepted' = <<>>
    /\ dropped' = {}

\* No HandleClientAsync is left in sessionTasks.
NoSessionTasks ==
    \A g \in Generations :
        /\ session[g].reader = "ended" \/ (session[g].reader = "none" /\ session[g].pipe # "open")
        /\ flush[g].phase = "idle"

\* IsIdleExpired looks at connections and chats, not at pending game events.
IdleShutdown ==
    /\ NoSessionTasks
    /\ pendingChatCount = 0
    /\ accepted # <<>>
    /\ Forget
    /\ UNCHANGED <<game, gameVars>>

BrokerCrash ==
    /\ crashes < MaxCrashes
    /\ crashes' = crashes + 1
    /\ Forget
    /\ UNCHANGED <<game, asked, shown, delivered, pendingEventCapacity>>

GameCrash ==
    /\ crashes < MaxCrashes
    /\ crashes' = crashes + 1
    /\ game' = [Hangup EXCEPT !.inbound = <<>>, !.outbound = <<>>, !.deliveredIds = <<>>]
    /\ shown' = <<>>
    /\ UNCHANGED <<brokerVars, asked, delivered>>

GameThread == ShowNotice \/ DeliverChatEvent
GameReads == \/ \E g \in Generations : ReadNotice(g)
             \/ \E f \in Flushers : ReadDelivery(f)
GameWrites == WriteEvent \/ WriteResponse
GameNext ==
    \/ (\E c \in Chats : Ask(c)) \/ GameThread \/ GameReads \/ GameWrites
    \/ Dial \/ NoticeClosed \/ Drop \/ WriteFails
ProcessorNext(g) ==
    TakeEvent(g) \/ QueueChat(g) \/ RefuseChat(g) \/ NoticeSent(g) \/ NoticeFails(g)
SessionNext(g) ==
    Register(g) \/ Greet(g) \/ GreetFails(g) \/ ReaderStops(g) \/ SessionEnd(g)
WorkerNext ==
    \/ TakeChat \/ QueueOutcome \/ DropOutcome \/ StartFlush \/ LeaveOutcome
    \/ ExpireLease \/ FinishChat
FlushNext(f) ==
    \/ EnterGate(f) \/ LeaveEmpty(f) \/ PeekEvent(f) \/ DeliveryWriteFails(f)
    \/ DeliveryWritten(f) \/ Delivered(f) \/ DeliveryRefused(f) \/ DeliveryTimeout(f)

Next ==
    \/ GameNext
    \/ \E g \in Generations : SessionNext(g) \/ ProcessorNext(g)
    \/ WorkerNext
    \/ \E f \in Flushers : FlushNext(f)
    \/ IdleShutdown \/ BrokerCrash \/ GameCrash

Spec == Init /\ [][Next]_vars

\* The game's two threads and the broker's tasks and timers run; a turn of
\* Codex ends (CodexCliRunner has a timeout).
Fairness ==
    /\ WF_vars(GameThread) /\ WF_vars(GameReads) /\ WF_vars(GameWrites)
    /\ \A g \in Generations : WF_vars(ProcessorNext(g)) /\ WF_vars(ReaderStops(g) \/ SessionEnd(g))
    /\ WF_vars(NoticeClosed)
    /\ WF_vars(WorkerNext)
    /\ \A f \in Flushers : WF_vars(FlushNext(f)) /\ SF_vars(EnterGate(f))

FairSpec == Spec /\ Fairness

-----------------------------------------------------------------------------
FramesIn == [kind: Notices \cup {"deliver"}, chat: Chats]
FramesOut == [kind: {"ask", "ok", "busy"}, chat: Chats]
Games ==
    [link: {"down", "hello", "up"}, generation: 0 .. MaxGeneration,
     inbound: Seq(FramesIn), outbound: Seq(FramesOut), deliveredIds: Seq(Chats)]
Workers == [phase: {"idle", "taken", "queued", "flushing"}, chat: Chats \cup {None}]
Sessions ==
    [pipe: {"none", "open", "disposed"}, reader: {"none", "running", "draining", "ended"},
     events: Seq(Chats), processor: {"idle", "checked", "writing", "written", "stopped"},
     chat: Chats \cup {None}, notice: Notices \cup {None}, pending: SUBSET Chats]
Flushes ==
    [phase: {"idle", "gate", "peek", "added", "written", "waiting"},
     session: Generations \cup {None}, event: Chats \cup {None},
     response: Responses \cup {None}]

\* The processor has a chat and a notice while it works on them.
SessionOK(s) ==
    /\ Len(s.events) <= SessionEventCapacity
    /\ s.chat # None <=> s.processor \in {"checked", "writing", "written"}
    /\ s.notice # None <=> s.processor \in {"writing", "written"}

\* A flusher has a session while it flushes, and an event while it is inside
\* the gate, alone, and delivers one; it flushes once for each cause it has.
FlushOK(f) ==
    /\ flush[f].session # None <=> flush[f].phase # "idle"
    /\ flush[f].event # None <=> flush[f].phase \in {"added", "written", "waiting"}
    /\ flush[f].response # None => flush[f].event # None
    /\ gate = f <=> flush[f].phase \notin {"idle", "gate"}
    /\ flush[f].phase # "idle" =>
          IF f = Worker THEN worker.phase = "flushing" ELSE session[f].reader # "none"

GameOK ==
    /\ game \in Games
    /\ game.generation = 0 => game.link = "down"
    /\ Len(game.inbound) <= QueueCapacity /\ Len(game.outbound) <= QueueCapacity
    /\ Len(game.deliveredIds) <= DeliveredCapacity
SessionsOK ==
    /\ session \in [Generations -> Sessions]
    /\ \A g \in Generations : SessionOK(session[g])
    /\ gameSession \in Generations \cup {None}
WorkOK ==
    /\ chatQueue \in Seq(Chats) /\ Len(chatQueue) <= ChatQueueCapacity
    /\ acknowledged \subseteq Chats
    /\ worker \in Workers
    /\ worker.chat # None <=> worker.phase # "idle"
    /\ accepted \in Seq(Chats)
EventsOK ==
    /\ pendingEventCapacity \in PendingEventCapacities
    /\ pendingGameEvents \in Seq(Chats) /\ Len(pendingGameEvents) <= pendingEventCapacity
FlushersOK ==
    /\ flush \in [Flushers -> Flushes]
    /\ \A f \in Flushers : FlushOK(f)
    /\ gate \in Flushers \cup {None}

\* Types, every queue within its capacity, and one flusher at a time.
TypeOK == GameOK /\ SessionsOK /\ WorkOK /\ EventsOK /\ FlushersOK

\* pendingChatCount is the number of chats whose outcome is not settled, on
\* every way out of the worker's loop and of the event handler: an idle broker
\* does not stop with a chat in hand, and one chat too many counted would keep
\* it from ever stopping.
CountMatchesWork ==
    pendingChatCount = Len(chatQueue) + (IF worker.phase = "idle" THEN 0 ELSE 1)

\* A chat this broker has accepted is not lost between the queue, the worker,
\* the pending events, a flush that fails half-way and the next session: it is
\* in one of them until the game has shown its outcome, unless the table of
\* pending events was full.
NothingLost ==
    \A i \in 1 .. Len(accepted) :
        LET c == accepted[i] IN
        \/ Contains(chatQueue, c)
        \/ worker.phase = "taken" /\ worker.chat = c
        \/ Contains(pendingGameEvents, c)
        \/ c \in delivered \cup dropped

\* No game process shows an outcome or a notice twice, although a delivery is
\* repeated whenever its response is late or lost (DeliverChatEvent).
ShownOnce == IsInjective(shown)

\* The game shows that a chat was accepted before it shows its outcome
\* (Acknowledged).
AcceptedFirst ==
    \A i, j \in 1 .. Len(shown) :
        /\ shown[i].kind = "deliver" /\ shown[j].kind = "accepted"
        /\ shown[i].chat = shown[j].chat
        => j < i

\* Outcomes are shown in the order in which the chats were accepted, through
\* failed deliveries, reconnections and two flushers.
ShownInOrder ==
    \A i, j \in 1 .. Len(shown) : \A p, q \in 1 .. Len(accepted) :
        /\ i < j /\ shown[i].kind = "deliver" /\ shown[j].kind = "deliver"
        /\ shown[i].chat = accepted[p] /\ shown[j].chat = accepted[q]
        => p < q

\* While the game stays connected, every accepted chat comes to an end that
\* the user sees, or is dropped for want of room: no event is left pending by
\* a flush that looked too early.
AcceptedAnswered ==
    <>[](game.link = "up") =>
        \A c \in Chats :
            Contains(accepted, c) ~>
                c \in delivered \cup dropped \/ ~Contains(accepted, c)
=============================================================================
