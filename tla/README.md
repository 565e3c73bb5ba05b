# Verification of SatisfactoryMods

The repository holds five mods for the game Satisfactory: SatisfactoryBridge
(`src/CodexBridge`), Belt Purge, Conveyor Signs, Truck Station Signs and
PathFinder. This directory models their logic in TLA+. TLC checks every model on
small instances; TLAPS proves theorems about the request ledger, the request path, the
delivery of chat outcomes, paged results, the belt purge, the two sign mods and PathFinder
for all values of their parameters. Paths in this document are relative to `src/` unless they name a module.

Contents: 1 inventory, 2 modules and how they correspond to the code, 3 runs,
bounds and what they show, 4 fairness, 5 proofs, 6 findings and observations,
7 abstractions and what is not modelled, 8 plan.

## 1. Inventory

### SatisfactoryBridge (CodexBridge)

Three kinds of processes talk over Windows named pipes. An *MCP process*, started
by Codex, offers tools to a model. One *broker* (a companion service) sits in the
middle. The *game* runs the mod.

    tool call -> BrokerBridgeToolTransport -> BrokerClient ==pipe==> BrokerService
                                                                        |  RequestLedger
                                                                        |  GameBrokerSession
    game thread <- inbound queue <- CodexBridgeGameClient <==pipe=======+
               -> outbound queue ->

    chat typed in game -> event -> GameBrokerSession -> chat queue -> worker (Codex turn)
                                        ^                                 |
             outcome shown in game <- flush <- pending game events <------+

| Component | State | Operations | What is hard | What makes it correct |
|---|---|---|---|---|
| Request ledger (`Companion/RequestLedger.cs`) | entries by (client, sequence, request id) with state, expiry, response, effect; the high mark of each client's sequences | TryBegin, MarkCompleted, MarkConnectionLost, RemoveExpiredEntries | retries, two different lifetimes (2 and 30 minutes), two full tables | one handler for each request in progress, a mutating request begun once, outcomes final, capacities |
| Tool transport (`BrokerBridgeToolTransport.cs`, `BrokerClient.cs`) | gate, sequence counter, attempt | RequestAsync: connect, send, retry a read-only request once | exceptions and ambiguous results at any point, cancellation | a call that may have run is never reported as refused; answers belong to the call |
| Broker request handling (`BrokerService.cs`, 565-698) | one task per connection | HandleMcpRequestAsync, InvokeAsync | session read before and used after the ledger; timer against response; every way out reports | ledger and session agree with the handlers at work |
| Game session and lease (`BrokerService.cs`, 176-500, 1078-1290) | current session, last generations, lease, pending requests | register, greet, replace, expire, end | session is current before the game knows; ends while a handler adds itself | no pending request is left behind, none completed for another |
| Game client (`Private/CodexBridgeGameClient.cpp`) | link, generation, inbound and outbound queue | connect, handshake, read, dispatch, drain | I/O thread and game thread, full queues, reconnection with queued work | a refused request never runs; a dropped response becomes a timeout |
| Chat work and events (`BrokerService.cs`, 700-985, `CodexBridgeConsoleService.cpp`) | session's event queue, chat queue, count of pending chats, pending game events, flush gate, delivered ids in the game | event received, chat queued, acknowledged, turn run, outcome queued, flushed, shown | two flushers, reconnection in the middle of a delivery, full queues, idle shutdown | no outcome lost, shown twice or out of order; the notice first; the count right |
| Conversation service and store (`CodexConversationService.cs`, `FileConversationStateStore.cs`, `CodexCliRunner.cs`) | conversation gate, thread id on disk | SendAsync, ResetAsync, WriteThreadId, quarantine | crash between the write and the move, thread no longer found, a turn's timeout | at most one turn, a file that is old or new |
| Paged results (`CodexBridgeTextPageStore.cpp`, `CodexBridgeConsoleService.cpp`) | texts, cursors, snapshots of the command list, expiries | Store, Read, DiscoverCommands | eviction of what is being read, single-use cursors behind a retrying transport, a list that changes | pages of one text, each once, none kept without a reader |
| Broker lifecycle (`BrokerService.cs`, 59-164, 996-1005, `BrokerServiceLauncher.cs`, `BridgeTokenStore.cs`) | single instance, idle clock, token file | launch, accept, idle stop, dispose | two launchers, token created twice, stop with work in hand | one broker, no stop with a chat in hand |
| Frame codec, diagnostics, pipe security, MCP tools, options | none of their own | framing, JSON, access control, argument checks | data conversion and system calls | — |

### Belt Purge (`BeltPurge/Source/BeltPurge/Private/BeltPurgeService.cpp`)

A player aims at a belt, splitter or merger; the server gathers the network around
it (conveyor chains, attachment buffers, fed machine inputs) and an
`FBeltPurgeOperation` empties it: a ticker callback each frame, at most 256 units
of work each, passes over the whole network until one removes nothing, never more
items than were there at first. Hard: the factory moves items between callbacks,
several operations may share a network, buildables vanish, loops of belts. Correct:
exactly the network is touched, nothing protected is removed, nothing beyond the
budget, and the operation ends.

### Conveyor Signs, Truck Station Signs

| Component | State | Operations | What is hard | What makes it correct |
|---|---|---|---|---|
| Conveyor Signs (`ConveyorSignsMirrorController.cpp`, `ConveyorSignsModule.cpp`) | maps from a source sign to its mirror and its lift, signs whose EndPlay is to be ignored, worlds already initialized | hooks on BeginPlay and EndPlay of signs and lifts and on edits, the initial refresh, shutdown | destroying one runs the hook of the other, in the middle of loops over the maps; mirrors that older versions saved; clients | a mirror exists for a sign at a lift and shows its text; what falls with what; nothing left to be ignored |
| Truck Station Signs (`TruckStationSignController.cpp`, `TruckStationSignsModule.cpp`, `...OwnershipRegistry.cpp`, `...PendingInitializationQueue.cpp`) | queue of stations found while a map loads, the controller's own queue, registry of signs, names applied | hooks on BeginPlay, EndPlay and names of stations, PreLoadMap and PostLoadMap, a ticker with a budget of time | the controller may not exist when a station begins play; the generation of signs can end for good; names cached by sign | one sign per station, with its present name; no station forgotten |

A station's sign may stand at a conveyor lift: spawning and naming it runs the hooks
of Conveyor Signs, and the two mods meet in one cascade of callbacks.

### PathFinder

| Component | State | Operations | What is hard | What makes it correct |
|---|---|---|---|---|
| Trace service (`PathFinderTraceService.cpp`) | none | A* over the path network, reachable samples, samples of a route | ties, detours, unreachable targets | a shortest path if there is one |
| Route cache (`PathFinderVehicleRouteCache.cpp`) | an entry per vehicle, a reference count and a sample per directed segment, dirty marks | Update, MarkSegmentDirty, Clear | routes overlap, change and go in one update | counts, samples and marks agree with the entries |
| Route map (`PathFinderRouteMapSubsystem.cpp`, `...Snapshot.cpp`, two widgets) | lines by undirected key, pending refreshes and removals, requests, the drawn layer | hooks that request, a tick that applies, redraw at once or when somebody looks | order of requests, worlds that change, a map that is hidden | the layer shows the present network and routes |
| Overlay (`PathFinderConsoleCommands.cpp`, `...OverlayRenderer.cpp`, `...OverlayComponent.cpp`, `PathFinderControlTool.cpp`, `PathFinderTrafficLoad.h`) | mode, a route cache of its own, load windows, strips by segment | ticker, draw, recolour, relabel; console commands and a tool held in the hand | a draw that fails consumes its dirty mark; strips die with their actors | each strip has the colour and label of its load; nothing forgotten |
| Station tracker, other console commands | requests for reports, a teleport, tests | — | — | output for a player or a developer |

`PROJECT.json` lists the components with their status and, under *hazards*, every
place where one of these difficulties bites, with the properties aimed at it.

## 2. Modules

| Module | Models | Composition |
|---|---|---|
| `RequestLedger` | `RequestLedger.cs`, all of it | — |
| `RequestLedgerProofs` | theorems about it | extends `RequestLedger` |
| `AtMostOnceCalls` | what a caller is promised, abstractly | — |
| `BridgeRequests` | transport, broker handlers, session, game client | instantiates `RequestLedger`; implements `AtMostOnceCalls` (`KeepsPromise`) |
| `BridgeRequestsProofs` | theorems: the refinement and own results; what session and ledger hold for the handlers, types, attempts that do not collide | extends `BridgeRequests`, instantiates `RequestLedgerProofs` |
| `ChatDelivery` | chat, outcomes and their delivery | — |
| `ChatDeliveryProofs` | theorems: types, counts, nothing lost; what is shown, once and in order | extends `ChatDelivery` |
| `ResultPages` | long outputs and lists read page by page | — |
| `ResultPagesProofs` | theorems about it | extends `ResultPages` |
| `BeltPurge` | gathering and the purge operation | — |
| `BeltPurgeProofs` | theorems about it | extends `BeltPurge`, instantiates `FiniteFolds` |
| `ConveyorSigns` | the mirror controller and its hooks | — |
| `TruckStationSigns` | the station mod: module, queue, controller | extends `ConveyorSigns`, whose world of actors it shares |
| `SignMods` | maps, players and both mods; the properties | extends `TruckStationSigns` |
| `SignModsProofs` | theorems about all three | extends `SignMods`, instantiates `FiniteFolds` |
| `RouteTrace` | the searches, as operators, and what they must find | — |
| `VehiclePaths` | the game's segments, vehicles and worlds (external) | extends `RouteTrace` |
| `VehicleRouteCache` | the route cache, as a value with operations | extends `VehiclePaths` |
| `RouteMap` | map subsystem, snapshot, widgets | extends `VehicleRouteCache` |
| `RouteOverlay` | tracing: ticker, windows, renderer, tool | extends `VehicleRouteCache` |
| `PathFinder` | the game with both displays; the properties | extends `RouteMap` and `RouteOverlay` |
| `PathFinderProofs` | theorems: counts, snapshot, layer, overlay | extends `PathFinder`, instantiates `FiniteFolds` |
| `FiniteFolds` | induction along folds and loops, for any step | — |
| `MC...` | constants of the runs | extend the above |

**RequestLedger.** `requests` and `highestSequences` are the two dictionaries. `TryBegin`
is the method: expired entries are removed, then an existing entry decides
(`ExistingDisposition`) or a new one is admitted if it is not stale and both tables have
room. The monitor makes each method one step. `running` counts the accepted callers that
have yet to report and `started` remembers when each request was begun: history, used
by properties only. `Restart` is a new broker process. The three effects of the code are
two here, since the ledger only asks whether a request is read-only. The clock is a
counter that moves forward.

**BridgeRequests.** One record per call (`tool`) follows `RequestAsync`; one per handler
(`handler`, a call and an attempt) follows `HandleMcpRequestAsync` and `InvokeAsync` from
await to await: received, admitted (session read), accepted (ledger asked), added
(pending entry), written (pipe), waiting, responded. `session` is
`GameBrokerSession` with its pipe, reader and pending table; `game` is the game's client
with its queues. The broker's pipes are created without buffers, so a write
completes when the peer reads: a frame moves in one step of both ends, and the
model has no channel. A call that is cancelled leaves its handler running; a broker that
crashes leaves the game with what it had queued.

**ChatDelivery.** `Ask` is the console command, `WriteEvent` and `WriteResponse` the game's
I/O thread, `TakeEvent`, `QueueChat` and `RefuseChat` the session's event processor (which
also sends the notices), `TakeChat` to `FinishChat` the worker, `EnterGate` to
`DeliveryTimeout` the body of `FlushPendingGameEventsAsync` for each of its callers (the
worker and the handler of each connection), `ShowNotice` and `DeliverChatEvent` the
game thread.

**ResultPages.** Three dictionaries of the game as functions; `ExecuteCommand`,
`ReadPage`, `DiscoverCommands` and `DiscoverMore` are their operations, each with the
clean-up and the eviction it begins with. `Lose` is the transport: an attempt
whose outcome is unknown is repeated once, and the first may still be on its way.

**BeltPurge.** `Gather` is one call of the gathering recursion (`pending` is its stack),
`StartTicker` the end of `PurgeNetwork`. A callback is `BeginTick`, turns of the while loop
(`DrainInventory`, `SkipChain`, `DrainChain`, `NextPass`, and the ways out), `EndTick`. While
`active` names an operation nothing else moves: the game thread runs the callback to
its end. Between callbacks the factory moves items (`Carry`, `Release`), receives and
consumes them, loses buildables, or the world ends.

**ConveyorSigns, TruckStationSigns, SignMods.** Everything runs on the game thread, to its
end, through callbacks within callbacks; so `actors` is one record of the map's actors and
the maps that hold them, and an operation is an operator from records to records.
`Destroying` is the engine's part of destroying an actor and takes as an argument what the mod
does in the EndPlay of that actor. The code's hook is the same for all of them and calls itself
through `Destroy`, but only three levels deep: the EndPlay of a lift destroys its signs
(`DestroySign`), that of a sign its partner (`DestroyPartner`), and the partner was marked to be
ignored before (`IgnoreEndPlay`). So no operator is recursive, and each level has its name.
`dying` has the actors in their EndPlay (destroying these again does nothing), `mutated`
notes that a map changed while it was being iterated. `Truck` bundles that record with the station controller's
state; `EnsureSign`, `RecreateSign` and `OnStationDestroyed` work on the bundle. Weak
pointers are cleared where an address is used again (`Spawn`); `ignoredEndPlaySigns`
holds plain addresses and is not.

**RouteTrace to PathFinder.** A network is a set of segments; `Visit` is one turn of the
search loop that `RunIndependentSearch` and `BuildReachableSamples` share. The route
cache is a record, since the map and the tracer each have one: `mapCache`,
`tracerCache`. `Update` refreshes new and changed vehicles and then drops those that are
gone. In `RouteMap` the hooks only add to the pending sets; `MapTick` resets for another
world, waits for a vehicle subsystem, or applies everything, and draws if the target
exists and the layer is visible. In `RouteOverlay`, `TickTraffic` samples the
traffic and does the four things of the ticker in order: recolour, draw what needs
drawing, relabel, drop stale strips. The map and the overlay share no state of theirs, so a
behaviour of `PathFinder` watches one (`watched`) and leaves the other as it began.

## 3. Runs

Mutants in the modules (operators called "Mutant of ...") are not part of the
specifications: each is a plausible slip in one definition that makes one
property fail, and shows that the property depends on the code.

| Run | Instance | Shows |
|---|---|---|
| `ledger` | 2 clients, 2 ids, sequences 1-2, 2 entries, 1 high mark, lifetimes 1 and 2, clock to 3 | all invariants and action properties of the ledger, restarts included |
| `bridge_calls` | a mutating and a read-only call of one process, 2 connections | pending table, ledger and handlers agree; own results |
| `bridge_answered` | the two calls in two processes, a ledger of 1 entry whose clock runs, a crash | attempts do not meet, a late retry alone is refused as stale; `AtMostOnceCalls` is implemented; every call is answered or cancelled |
| `bridge_reused_id` | two calls, one id | finding 1 |
| `chat_order` | 2 chats; room for one pending outcome over one connection, for two over two; room for one in the other queues of the broker | outcomes lost, repeated or out of order: never; refusals and drops keep the count right |
| `chat_answered` | 1 chat, 2 connections, 1 crash | delivery once across crashes; an accepted chat is answered while the game stays connected |
| `pages` | 2 readers of texts (room for 1), 1 of the list, a lost answer | contiguous pages, one cursor per text |
| `pages_retry` | 1 reader, a lost answer | finding 2 |
| `belt_shared` | 3 chains, a splitter, a machine, 1 item at first, 6 units of work, 2 events among requests, arrivals and losses | gathering, budget, removal, completeness; the purges end |
| `belt_complete` | 2 items, 2 units of work, one request and no supply | finding 3 |
| `sign_mods` | 2 stations, a placed sign, 2 lifts, 3 of these at once; 2 mirrors and 2 station signs; either mod or both | mirrors and station signs through building, editing, dismantling, maps left and loaded |
| `pathfinder` | 3 nodes, 4 segments, 2 vehicles, 2 changes after a load | searches, counts, the map and the overlay |

*Why the bounds are enough for what they show.*
- Ledger: two identities of one client and one of another are what the rules relate;
  table sizes 2 and 1 put both tables at their limit; the shorter lifetime
  ends before the longer, which is the order of the code's 2 and 30 minutes, and the clock
  passes both. The theorems of section 5 lift these bounds.
- Bridge: hazards are between two calls (or two attempts of one), two sessions
  (`MaxGeneration` 2) and a queue of one that is full with one request (64 in
  the code). Both connections, the retry, a cancelled call and its successor fit. A
  crash at any step (`MaxCrashes` 1) is checked with one connection; the ledger of one entry
  makes refusals for capacity and expiry part of the promise. The theorems of section 5 lift
  these bounds for every property but `CallsAnswered`.
- Chat: order needs two chats and room for two outcomes (16 in the code); the limits
  need room for one. Two connections give the race of two flushers; with room for one
  outcome a single one (`Connections`) reaches the full table. The theorems of section 5
  lift these bounds for every invariant.
- Pages: three pages are a first, a middle and a last one. One text with two
  readers forces eviction (16 in the code), the clock passes the lifetime.
- Belts: five places with a branch, a machine and, in the second wiring, a loop;
  six units of work let a pass lie in one callback or span two. `MaxEvents` bounds requests,
  arrivals and losses together, so two purges, or one purge and an event. The theorems of
  section 5 lift all of these bounds, except for `PurgeEnds`.
- Signs: two lifts that both match one sign give the choice of a lift; two stations
  the queue and its budget of one or two; three buildables a station, a sign and a
  lift together. Maps are left and loaded any number of times. The theorems of section 5
  lift these bounds for every property.
- Path finder: the smallest network with a detour (the direct segment is longer than the way
  round), an unreachable node once a segment is removed, and two segments under one
  key. `MaxChanges` 2 gives a change and another that overlaps it, or a world left and
  loaded again; ticks and players are not bounded. `SearchesAreExact` is checked on all
  sets of these segments. Load windows of two samples (120 in the code) and one moving vehicle
  reach three of the four classes of traffic, with every way between them. The theorems of
  section 5 lift these bounds for every property but `MapShowsNetwork`.

Deadlock is not checked where the bounds, or the end of all calls, stop the system;
the ledger, which never stops, is checked for it.

## 4. Fairness

- `BridgeRequests!FairSpec`: the transport, the broker's tasks and timers, and the game's
  I/O thread make progress: it has read and write timeouts, and never waits for the game
  thread. Nothing is assumed of the game thread, of connecting, or of the caller. That the
  I/O thread reads is needed: the broker's write to the game has no timeout of its own.
- `ChatDelivery!FairSpec`: as above, and the game thread runs, for the outcome
  must be shown; a turn of Codex ends because `CodexCliRunner` has a
  timeout. `SF` of `EnterGate`: `pendingGameEventFlushGate` is a `SemaphoreSlim`, whose
  waiters are served. `AcceptedAnswered` is conditional on a link that stays up.
- `PathFinder!Spec`: the subsystem ticks (`WF` of `TakeRequests`, which singles out the ticks
  that take requests). Nothing is assumed of players, or that a world is loaded.
- `BeltPurge!FairSpec`: a call on the game thread returns (`WF`), and the engine
  calls every ticker each frame (`SF` of `BeginTick`: another operation's callback
  disables it for a while). Nothing is assumed of the factory.

## 5. Proofs

`RequestLedgerProofs` holds, from `LedgerAssumption` alone (sequences and capacities are
positive naturals; the two lifetimes and the clock's bound are naturals, in no particular
order; `Never` and `NoResponse` lie outside the values they stand beside), for any sets of
clients, ids and responses:

- `TypeCorrect`: `[]TypeOK`. `TypeOK` ties `expiresAt = Never` to `InProgress` and a response
  to `Completed`; it is inductive as it stands.
- `OneHandlerPerRequest`: `[]HandlerMatchesEntry`. Inductive with `TypeOK`: that an entry in
  progress never expires is what keeps `RemoveExpiredEntries` from dropping the
  entry of a running handler.
- `CapacityKept`: `[]WithinCapacity`. Cardinalities of a table after one
  addition need the table finite, so the inductive invariant `CapacityInv` adds finiteness.
- `MutatingOnce` and `NewSequencesAdvance`: the action properties
  `MutatingAcceptedOnce` and `SequencesAdvance`. Neither follows from the table of entries,
  which forgets in two minutes; the strengthening `LeaseInv` says that every
  request begun within the long lifetime is covered by its client's high mark
  (`HighMarkCovers`) and that every entry was begun with its effect
  (`EntriesWereStarted`). The proof shows it inductive (lemma `LeaseInvariant`)
  operation by operation, and then that a step which accepts a request either finds it
  retryable, hence read-only, or new, hence above the high mark.
- `OutcomesKept`: the action property `OutcomesAreFinal`, from `TypeOK` alone: an outcome
  within its lifetime survives `RemoveExpiredEntries`, and each operation replaces only an
  entry that is dropped, retryable or in progress.

Each theorem has one lemma for each operation (`BeginNew...`, `BeginExisting...`,
`Conclude...`) and one that puts them together for `Next`.

`ChatDeliveryProofs` holds, from `ChatAssumption` (capacities are positive naturals, bounds
naturals) and `NoneAssumption` (null is no chat, flusher, notice or response), for any set
of chats, any number of connections and crashes, and any capacities:

- `TypeCorrect`: `[]TypeOK`. `TypeOK` holds more than types and is inductive: a
  flusher has a session exactly while it flushes and an event exactly while it delivers one
  (`FlushOK`), `gate = f` exactly while f is past the gate, the worker's flush belongs to a
  worker that flushes and a handler's to a session that was greeted. One lemma for
  each action; `FlusherChanged` and `SessionStepOK` carry the parts that most of them share.
- `CountCorrect`: `[]CountMatchesWork`, inductive with `TypeOK`: every way out of the worker's
  loop is taken with a chat in hand and counts one down.
- `NoChatLost`: `[]NothingLost`. `NothingLost` alone is not inductive, for `Delivered` takes an
  event off the table because of a response. The strengthening `ConfirmedWasShown` says that
  every "ok" that is on its way to the broker, or that a flusher has in hand, answers for
  a chat some game process has shown. What remains is to follow one chat (`Kept`)
  through each step.

`ChatDeliveryProofs` also holds, from the same assumptions, `NothingShownTwice`
(`[]ShownOnce`), `AcceptanceShownFirst` (`[]AcceptedFirst`) and `OutcomesInOrder`
(`[]ShownInOrder`). All three follow from one inductive invariant, `OrderInv`, which follows a
chat from the frame that asks to what the game shows:

- On its way to the broker a chat is in one place (`Alone`): a frame of the game, an event of
  a session or the chat its processor handles. Until its notice is written the game knows
  nothing of it, and until it is queued the broker does not either (`Staged`). So a notice
  is read once, and before the worker may take the chat.
- In the broker, the outcomes that are pending, the chat in the worker's hand and those in the
  queue are in the order of acceptance, in this order (`Line`).
- The event that a flusher has in hand is the head of the pending events (`HeadInFlight`):
  nobody but the holder of the gate removes one, and a full table turns away the new outcome
  rather than an old one.
- What has arrived at the game, `Stream` (what it has shown, then what waits in its queue), is
  therefore in the order of acceptance, the outcomes of an earlier broker first (`Arrival`),
  and the repeats of an outcome come in a row (`Shape`): the broker goes on to the next only
  when this one is confirmed. So the game must remember only the last outcome it has shown to
  show each once (`Remembered`, `OutcomeOnce`), and any `DeliveredCapacity` of at least one
  is enough.

Each conjunct has a lemma for the steps that move what it speaks of; a step that only takes
frames or events away (`Quiet`) is dealt with once.

`ResultPagesProofs` holds, from `PagesAssumption` (an output has at least two pages, capacities
are positive naturals, bounds naturals) and `NoneAssumption` (null is no GUID), for any
readers, pages, capacities, losses and changes of the console's registry:

- `OneCursor`: `[]OneCursorPerResult`, inductive with `TablesOK`: every id and cursor is a
  number below `fresh`, so that a new one collides with none. That there are at most as many
  live cursors as texts (`FewLiveCursors`) follows from each text having one, which
  makes the cursors' texts an injection; the one more is the page just handed out.
- `Contiguous`: `[]PagesContiguous`. The strengthening `ReadersOK` says what a cursor is worth: as
  long as the cursor that a reader holds is in its table, it goes on with the contents the
  reader began with and with the page after its last (`At`), and an answer on its way to
  a reader is that page, with a cursor for the page after it (`AnswerOK`). No
  step changes what a cursor goes on with (`TablesKeep`), so this survives whatever is evicted,
  expires or is sent twice; reads in transit need no invariant, because an answer
  counts only while the reader waits for that cursor.

`BridgeRequestsProofs` holds, from `BridgeAssumption`,
`NoneAssumption` (null is no response, handler, generation or result), `LedgerLimits` (finitely
many calls, since sequences number them; the ledger's capacities are positive and its lifetimes
natural numbers) and `UniqueIds` (no two calls share a request id, see the first observation of
section 6), for any processes, connections, crashes, capacities and lifetimes:

- `PathKeepsPromise`: `KeepsPromise`, that is, `BridgeRequests` implements `AtMostOnceCalls`, and
  `OwnResults`: `[]OwnResult`. What a caller is told comes through four places in turn: the
  game's queue (`QueueTrue`), a handler (`HandlersTrue`), the ledger (`LedgerTrue`) and the
  call itself (`ToolsTrue`). The invariant `PromiseInv` says of each that it holds only
  what its call may hear (`MayHear`): a result of its own run, or a refusal of a call that
  may change the game only if that call has not run and never will (`NeverRuns`). What a
  call may hear it may hear for ever (`KeepsWord`), so each lemma only follows
  the response that moves. `RunsCounted` bounds the runs of a call by the requests that are
  neither unsent nor queued; with one attempt for a call that may change the game
  (`Attempts`) and each request queued once (`QueuedOnce`), it runs at most once. The
  refinement then maps each step to one of `AtMostOnceCalls` or to a stutter.
- `EntriesFound`: `[]PendingMatchesHandlers`, and `EntriesHeld`: `[]HandlersHoldEntries`. Both rest
  on `OneAtWork`: a second attempt begins when the broker is done with the first, so of the
  handlers that share an id one is active, and nobody else changes its entry
  (`EntryAlone`). `EntriesOK` adds what the property leaves out: that a handler without a
  response yet to be added is in no session, and that sessions belong to generations the game
  has reached, which a crashed broker forgets. `RunningOK` is the ledger's side: the count of an
  identity is one or zero as one handler is at work for it or none.

- `LedgerServes`: `Spec => Memory!Spec`, where `Memory` is an instance of `RequestLedgerProofs`. The
  path begins only identities with a number of their own (`Identified`, from `Numbered`: a
  process numbers its calls upwards, and one at work has the last number) and reports once what
  it began, so each of its steps is one of the ledger or leaves it alone. The theorems about
  the ledger hold in the broker with no proof of their own.
- `PathTypes`: `[]TypeOK`. The ledger's part comes from `LedgerServes`. The rest needs that a
  call is answered with something and only when the broker is done with its attempt
  (`Answered`), and that a process has used at most as many sequences as it has begun calls.
- `AttemptsKeepApart`: `[]AttemptsDoNotCollide`. The inductive invariant `Apart` follows the three
  refusals in question from the ledger to the caller. A request in progress would have a
  handler at work (`HandlerMatchesEntry` of the ledger and `RunningOK`), a duplicate an entry in
  the session (`EntriesOK`), and neither is there when a handler of the same call begins
  (`BeginsApart`, `AddsApart`). A stale sequence needs a high mark, and `MarksOK` names the
  request that set it: of a call at work, only its own first attempt can have done so,
  and its entry is still there unless `Lifetime` has passed. A response that says so may
  only be held by a late second attempt whose identity the ledger has forgotten, or by one that
  nobody waits for (`Late`).

`BeltPurgeProofs` holds, from `PurgeAssumption` (finitely many places, no two of them one; a
wiring connects each end of a chain to one place, and chains mutually; limits are positive
naturals) and `NoneAssumption` (null is no place, operation or result), for any factory,
any wirings with branches and loops, and any number of operations that share them:

- `BudgetTheorem`: `[]BudgetKept`. The inductive invariant `BudgetInv` gives types and says of each
  operation (`OperationOK`) that it gathers only while it is on the game thread, has removed
  nothing before, and lists no place twice.
- `NetworkTheorem`: the action property `GathersNetwork`. `GatherInv` is the invariant of a
  search: what is gathered or pending is within reach of the target, and the neighbours of
  what is gathered are gathered or pending. When nothing is pending the gathered places are
  closed under connections, hence all that can be reached. `Neighbours` finds exactly what is
  `Connected` (`NeighboursOK`), which needs the wiring to be mutual between chains.
- `RemovalTheorem`: the action property `RemovesWhatItCounts`. Its sums run over all places. That a
  step which changes one place changes the sum by as much (`SumChange`) is proved
  by induction over finite sets, from an instance of `FiniteFolds`.
- `CompletionTheorem`: the action property `CompleteIsEmpty`. `PassInv` says that a pass which lies in
  one callback leaves nothing behind it: inventories before its position are drained,
  chains stopped or cleared. Only the operation on the game thread is in the middle of such
  a pass, so the steps of the factory and of other operations find nothing to disturb.

`PathFinderProofs` holds, from `RouteTraceAssumption` (`Apart` is a distance: zero from a node to
itself and never shortened by a third node, as `FVector::Distance` is up to the rounding of its
floats, which the naturals leave out), `VehiclePathsAssumption` (finitely many segments and
vehicles, no two segments from one node to another; no segment shorter than its nodes are apart;
saves hold segments and vehicles of these), `NoWorldAssumption` and `RouteOverlayAssumption` (null is no
world and no segment, and neither is what stands for a destroyed actor), for any network, routes,
saves, windows and number of changes. One invariant, `Inv`, is inductive (`Invariance`); the
theorems are consequences of its parts:

- `SearchTheorem`: `[]SearchesAreExact`, for any network that is built. `SearchExplores` is the
  invariant of the loop, by `LoopHolds` over its turns and `FoldHolds` over the segments that leave a
  node: a search visits one node in each turn until it finishes; each node reached has one
  path back, which is a way as long as its distance says (`Traces`); the nodes
  visited are no farther, with what is estimated to remain, than the others (`Ordered`); and a
  segment from a visited node leads to one that is no farther than through it (`Followed`). The order
  is why no visited node is ever improved (`ShortensIs`), which needs an estimate that
  falls by no more than a segment's length (`Consistent`): of straight distances this is the triangle
  inequality. Then each way to the target is compared with the search node by node
  (`TargetNearest`), and a search that misses its target has visited all that can be
  reached (`VisitsReachable`).
- `UsageTheorem`: `[]UsageMatchesRoutes`. `CacheOK` is the property with the shape of a
  cache. `Update` folds over its vehicles, and each of `AddRouteContribution`,
  `RemoveRouteContribution`, `Refresh` and `RemoveStale` keeps `CacheOK`, for any routes that
  overlap. `Since` is what an update guarantees to those that draw: a segment that came into use is
  dirty, and an update that reports no change of membership left the samples as they were.
- `SnapshotTheorem`: `[]SnapshotIsCurrent`. The property speaks of the moments with nothing left to
  apply; `RequestsSuffice` speaks of all others: unless everything is to be read anew, a line is
  right, or its key is to be removed, or its segment refreshed, and a segment that is to be drawn has
  a line or is to be refreshed. As removals are applied first, a segment built under a key
  that is to be removed must be refreshed (`RemovedAreGone`). Each hook keeps this and
  `ApplyGeometry` turns it into the property; a subsystem that still knows another world
  reads everything anew, so nothing is asked of its requests.
- `LayerTheorem`: `[]LayerIsCurrent`, inductive with the above: a tick that does not draw has changed
  neither the lines (the snapshot's own report) nor the samples (`Since`).
- `OverlayTheorem`: `[]OverlayMatchesTraffic`. `StripsShow` says of each strip that is drawn
  that its segment is in use and that colour and label are those of its window. A tick samples every
  segment in use and then recolours and relabels only where the class of traffic changed or
  a label is due, so the proof follows a strip through the four folds of the tick
  (`RepaintedIs`). `StripsOK` is needed for the fold that draws: a strip that cannot be drawn keeps no
  label, a strip lies on the segment it was made for, and one whose actor died is made anew.
- `ForgottenTheorem`: the action property `NothingForgotten`, in the step from `Inv`: a tick
  consumes the dirty marks, and each segment it does not leave drawn is marked again.

`SignModsProofs` holds, from `SignModsAssumption` (finitely many signs, mirrors and lifts; a placed
sign, a station's sign, a mirror, a lift and a station are different things, and null is none
of them; only sources are at lifts; the mods are these two), for any network of lifts with any
number of signs at each, any stations, names, installations and failures to spawn. One invariant,
`Inv`, is inductive (`SignsInvariant`); the theorems take one part each:

- `CascadesTheorem`: `[]CascadesEnd`. `Takes` says what a callback does: it removes some
  actors and forgets some sources, and leaves the rest of the record as it was, `ignoredEndPlaySigns`
  included. `EndedIs` carries this from a hook to the `Destroying` around it; from there it goes from
  `DestroyPartner` to the EndPlay of a sign and, by an induction over the signs of
  a lift, to that of a lift. `Cut` adds that what goes takes its mirrors along.
- `MirrorTheorem`: `[]MirrorMatchesSource`. The property holds once the initial refresh has run, in
  states between two operations; `MatchedAt` is the same for one mirror in any state. What is
  needed before the refresh, and under it, is `Sound`: the maps have the right shape, a mirror in
  the map is owned by the source it is found by, no two mirrors have one source, lifts and mirrors
  exist with the mod and on the host only. `RefreshWorld` is followed through its four loops:
  the first leaves no mirror, the second adds mirrors that match (`Mirrored`), of sources at a lift
  only, and the last two then find nothing to destroy.
- `DismantledTheorem`: the action property `DismantledTogether`, in the step from `Inv`: what the
  cascade removes is exactly the group (`Takes` with the set named), and the loops of the refresh
  destroy mirrors only.
- `OneSignTheorem`: `[]OneSignPerStation`. `Tracked` ties a sign and its station both ways: the
  registry names the sign a station owns, and what it names and still stands is owned by that
  station. Each operation of the controller keeps it, with the destruction of the old sign in
  the middle of `RecreateSign` and with mirrors that come and go by the hooks of the other mod.
- `SignShowsNameTheorem`: `[]SignShowsName`. `Named` is why `ApplyNameToSign` may skip a name it has
  applied before: a sign that is remembered shows the name remembered, and addresses that
  are used again are not remembered. `Current` leaves out the station that is being served.
- `NoStationForgottenTheorem`: `[]NoStationForgotten`, inductive with `ModuleOK`: while a map loads
  every station that began play is in the module's queue, signs exist only under a controller, and
  the ticker's queue is dealt with from the front, whatever number a callback's time is
  enough for (`Initialized`, by `LoopHolds`).

`FiniteFolds` has only lemmas, about folds over finite sets and loops that count, for any step: what holds of the
start and is kept by each step holds of the result (`FoldHolds`, `LoopHolds`). The step and the
claim are constant operators of the module and a proof instantiates it with its own, which stands in
for the library's induction theorems; these take an operator as a parameter, which
the provers cannot instantiate. The induction is well-founded, along the subsets of the set.

Only model-checked are the liveness properties, which are beyond the prover: `CallsAnswered`,
`AcceptedAnswered`, `PurgeEnds` and `MapShowsNetwork`. Every invariant and every action
property that holds in a run is stated by a theorem.

## 6. Findings and observations

1. `bridge_reused_id` (`RetryIdentifierHonoured`): the tool describes `requestId` as a stable
   identifier for a retry, but a retry under it gets a new sequence, hence a new
   identity in the ledger, and the command runs again.
2. `pages_retry` (`ReadOnceAnswered`): reading a page counts as read-only and is repeated by the
   transport, while cursors are single-use; a lost answer makes the page unreadable and
   the caller is told that its cursor is invalid.
3. `belt_complete` (`CompleteMeansPurged`): a pass that costs more than 256 units of work (items
   removed, places visited) spans callbacks, and an item that moves behind the pass is missed; the purge reports
   completion with sinkable items left. A pass within one callback is exact
   (`CompleteIsEmpty`).

Observations, contradicted by no document of the repository:
- When two processes supply the same request id, a late response to the first, whose
  request has timed out, completes the request of the second: pending requests are
  found by id alone. The tools generate ids that do not collide unless the caller supplies
  one; `BridgeRequests` is checked with ids of the calls' own.
- The retry of a read-only call may be refused as stale: when the broker holds its first attempt
  as lost for longer than an entry lives (2 minutes) and the second attempt comes after that,
  the entry is forgotten but the client's high mark (30 minutes) is not. The transport retries
  at once, so this takes a process suspended for as long. `AttemptsDoNotCollide` says that this
  is the only collision.
- An idle broker stops without looking at outcomes the game has not fetched
  (`IsIdleExpired` looks at sessions and the count of chats): `ChatDelivery!IdleShutdown` has the step, and the
  properties speak of one broker process.
- A write to the game renews the lease, so a hung game that is asked often enough keeps it.
- Switching the overlay off clears the strips but keeps the route cache, whose dirty marks
  have been consumed (`PathFinderConsoleCommands.cpp:1988`). Switched on again in the same mode, a
  segment whose class of traffic is still zero is neither dirty nor changed, and is not
  drawn until it carries traffic. Likewise a strip that died with its segment's actor is not drawn
  again until its class changes or its route is read anew. `NothingForgotten` therefore speaks of
  what was not forgotten before the tick: a draw that fails.
- Two segments between the same nodes, one each way, share an undirected key in the map
  (`PathFinderRouteMapSubsystem.cpp:79`): removing one removes the line of both until the
  other is refreshed. `SnapshotIsCurrent` asks a line of a segment that shares its key with none.
- A route is traced again when the route changes (its changelist or its nodes), not when the
  network does: a segment built later does not shorten the routes shown.

## 7. Abstractions, and what is not modelled

- Lease expiry can happen whenever the broker looks (`ExpireLease`): nothing bounds how long
  a game stays silent. Timers fire whenever they are armed.
- The count of inbound requests and the queue itself change together in
  the game client; the code increments first, so it may refuse one request too early.
- Registering a session and disposing the one it replaces are one step.
- One game; two games that compete for the lease, and the bounded table of generations, are
  planned. `service.status` and `bridge.conversation`, which never reach the game, are left out.
- A turn of Codex is one step that ends in an outcome. A chat that is too long
  is refused like one that finds the queue full.
- Texts and lists are counted in pages of equal size; GUIDs are numbers never used twice.
- A conveyor stands for its chain: both ends of a chain are followed from whichever conveyor
  the gathering enters by. Skipping the connection an attachment was entered by only saves
  a visit that finds its chain gathered. Which items of an inventory go first, the aim trace and the
  statistics in the log are left out. A removal may remove less than asked (the game's
  code), but never more.
- The factory's own rules in `BeltPurge`, the console's registry in `ResultPages`: external,
  modelled by what may happen between two calls. `VehiclePaths` is external for the same reason.
- Whether a sign is at a face of a lift is a constant relation (`Near`); where a sign
  or a mirror is placed, and how a station's kind decides it, is geometry. The order in which the
  engine iterates actors is chosen anew for each operation.
- `FindVehiclePath`, the game's search, is modelled by the mod's independent one, which is there
  to repeat it. What each route uses of each network is tabulated (`Scans`).
- Vehicles are refreshed in one fixed order, and of two segments under one key the same one always
  counts last. Loads are counted to a tenth as labels show them; a tie is rounded up.
- A strip is one thing: its meshes, its label and its spline's points are made together; the
  case in which only some pieces of an offset spline can be made is left out, and a strip is not
  rebuilt when a spline changes, as in the code.
- `MaxMoving` bounds the vehicles that are on segments at once, `MaxShape` the splines
  of a segment, and a player who holds the tool switches tracing on with the tool only.
- Every segment has an end node and every node a valid GUID: the empty key that
  `MakePathSegmentKey` gives otherwise, which the callers skip, is left out, and so are failures of
  the engine to make the canvas or the render target.
- An overlay on a dedicated server, the filter by network usage and the route cache's
  RefreshVehicle and RemoveVehicle, which nothing calls, are left out.
- Not modelled: frame codec, JSON, logging, access control, argument checks (conversions and
  system calls); `PagedResultStore.cs` (nothing constructs it); PathFinder's station tracker and
  the console commands that print, move the player or drive a test; the test commands of the
  sign mods, which drive the operations that are modelled.

## 8. Plan

Done: the request ledger, the request path with its abstract specification, chat, pages, belt
purge, both sign mods together and PathFinder, each with its proofs. To come, most important first:

1. `GameLease`: two games and the lease, the bounded generation table, heartbeats.
2. `ConversationStore`: the conversation file across crashes, a thread that is no longer found.
3. `BrokerLifecycle`: launch by two parties, single instance, token file, idle stop.

Runs of the new modules will be sized like the present ones: two of whatever
competes, tables of one or two entries, one crash or loss.
