------------------------ MODULE BridgeRequestsProofs ------------------------
(* Proofs about BridgeRequests for any number of calls, clients, sessions   *)
(* and crashes, any queue and any ledger, provided that no two calls share  *)
(* a request id.  The path implements AtMostOnceCalls, and a caller gets    *)
(* the result of its own command.  The second part is about what the broker *)
(* keeps of the requests at work in it: a session finds every handler that  *)
(* waits, the ledger counts every handler that is yet to report and is used *)
(* as its own specification says, every value has its type, and the second  *)
(* attempt of a call meets no trace of the first.                           *)
EXTENDS BridgeRequests, FiniteSetTheorems, TLAPS

ToolRecord ==
    [phase: {"idle", "connecting", "waiting", "answered", "cancelled"}, attempt: {1, 2},
     sequence: Nat, answer: Response \cup {None}]
HandlerRecord ==
    [phase: {"none", "received", "admitted", "responded", "gone"} \cup Working,
     session: Generations \cup {None}, response: Response \cup {None}]
SessionRecord ==
    [pipe: {"none", "open", "disposed"}, reader: {"none", "running", "ended"},
     pending: [RequestIds -> Handlers \cup {None}]]
GameRecord ==
    [link: {"down", "hello", "up"}, generation: 0 .. MaxGeneration,
     inbound: Seq(Handlers), outbound: Seq(Queued)]

Types ==
    /\ tool \in [Calls -> ToolRecord]
    /\ sequence \in [Clients -> Nat]
    /\ handler \in [Handlers -> HandlerRecord]
    /\ gameSession \in Generations \cup {None}
    /\ session \in [Generations -> SessionRecord]
    /\ game \in GameRecord /\ (game.link # "down" => game.generation \in Generations)
    /\ ran \in [Calls -> Nat]

\* A handler exists once its attempt has connected; a call that may change the
\* game has one attempt.
Attempts ==
    \A c \in Calls :
        /\ tool[c].phase \in {"idle", "connecting"} => handler[Attempt(c)].phase = "none"
        /\ tool[c].attempt = 1 => handler[<<c, 2>>].phase = "none"
        /\ c \notin ReadOnlyCalls => tool[c].attempt = 1
        /\ tool[c].phase # "answered" => tool[c].answer = None

\* What a session holds is found under its own id.
OwnEntries ==
    \A g \in Generations : \A id \in RequestIds :
        session[g].pending[id] # None => Id(session[g].pending[id]) = id

\* A request is written to the game once, and executed once from its queue.
Unsent == {"none", "received", "admitted", "accepted", "added"}
InQueue(h) == \E n \in DOMAIN game.inbound : game.inbound[n] = h
QueuedOnce ==
    /\ \A h \in Handlers : InQueue(h) => handler[h].phase \notin Unsent
    /\ \A m, n \in DOMAIN game.inbound : game.inbound[m] = game.inbound[n] => m = n

MayRun(h) == handler[h].phase \in Unsent \/ InQueue(h)
Spent(h) == IF MayRun(h) THEN 0 ELSE 1
RunsCounted == \A c \in Calls : ran[c] <= Spent(<<c, 1>>) + Spent(<<c, 2>>)

\* A call that has not run and never will.
NeverRuns(c) ==
    /\ ran[c] = 0 /\ ~InQueue(<<c, 1>>)
    /\ \/ handler[<<c, 1>>].phase \notin Unsent
       \/ handler[<<c, 1>>].phase = "none" /\ tool[c].phase = "answered"

\* A response that call c may be told.
MayHear(c, r) ==
    /\ r \in Response
    /\ r.error = "none" => r.run = c /\ ran[c] > 0
    /\ r.error \in Refusals /\ c \notin ReadOnlyCalls => NeverRuns(c)

ToolsTrue == \A c \in Calls : tool[c].answer # None => MayHear(c, tool[c].answer)
HandlersTrue ==
    \A h \in Handlers :
        /\ handler[h].response # None => MayHear(CallOf(h), handler[h].response)
        /\ handler[h].phase = "responded" => handler[h].response # None
LedgerTrue ==
    \A i \in DOMAIN requests :
        /\ {"state", "response", "expiresAt"} \subseteq DOMAIN requests[i]
        /\ requests[i].state \in Ledger!RequestState
        /\ \A c \in Calls :
              requests[i].state = "Completed" /\ IdOf[c] = i.id
                 => MayHear(c, requests[i].response)
QueueTrue ==
    \A n \in DOMAIN game.outbound : \A c \in Calls :
        IdOf[c] = game.outbound[n].id => MayHear(c, game.outbound[n].response)

PromiseInv ==
    /\ Types /\ Attempts /\ OwnEntries /\ QueuedOnce /\ RunsCounted
    /\ ToolsTrue /\ HandlersTrue /\ LedgerTrue /\ QueueTrue

-----------------------------------------------------------------------------
(* What every step preserves                                                *)

LEMMA Constants ==
    /\ ReadOnlyCalls \subseteq Calls /\ IdOf \in [Calls -> RequestIds]
    /\ MaxGeneration \in Nat
BY BridgeAssumption DEF BridgeAssumption

LEMMA HandlerIs ==
    ASSUME NEW h \in Handlers
    PROVE  CallOf(h) \in Calls /\ Id(h) \in RequestIds
           /\ (h = <<CallOf(h), 1>> \/ h = <<CallOf(h), 2>>)
BY Constants DEF Handlers, CallOf, Id

LEMMA HandlersOf ==
    ASSUME NEW c \in Calls
    PROVE  <<c, 1>> \in Handlers /\ <<c, 2>> \in Handlers
           /\ CallOf(<<c, 1>>) = c /\ CallOf(<<c, 2>>) = c
BY DEF Handlers, CallOf

\* No step but Execute lets a request run that could not run before.
Forward ==
    /\ UNCHANGED ran
    /\ \A h \in Handlers :
          /\ handler[h].phase \notin Unsent => handler'[h].phase \notin Unsent
          /\ InQueue(h)' =>
                InQueue(h) \/ (handler[h].phase = "added" /\ handler'[h].phase \notin Unsent)
    /\ \A c \in Calls :
          tool[c].phase = "answered" =>
             /\ tool'[c].phase = "answered"
             /\ handler[<<c, 1>>].phase = "none" => handler'[<<c, 1>>].phase = "none"
    /\ \A m, n \in DOMAIN game'.inbound : game'.inbound[m] = game'.inbound[n] => m = n

\* What a call may hear it still may hear later.
KeepsWord ==
    \A c \in Calls : /\ ran[c] > 0 => ran'[c] > 0
                     /\ c \notin ReadOnlyCalls /\ NeverRuns(c) => NeverRuns(c)'

LEMMA HearLater ==
    ASSUME KeepsWord, NEW c \in Calls, NEW r, MayHear(c, r) PROVE MayHear(c, r)'
BY DEF KeepsWord, MayHear

LEMMA ForwardKeeps ==
    ASSUME QueuedOnce, RunsCounted, Types, Forward
    PROVE  KeepsWord /\ QueuedOnce' /\ RunsCounted'
<1>1. KeepsWord
  <2>1. ASSUME NEW c \in Calls, NeverRuns(c) PROVE NeverRuns(c)'
    BY <2>1, HandlersOf DEF Forward, NeverRuns, Unsent
  <2>2. QED
    BY <2>1 DEF KeepsWord, Forward
<1>2. QueuedOnce'
  BY DEF Forward, QueuedOnce
<1>3. RunsCounted'
  <2>1. ASSUME NEW h \in Handlers, MayRun(h)' PROVE MayRun(h)
    BY <2>1 DEF Forward, MayRun, Unsent
  <2>2. ASSUME NEW h \in Handlers PROVE Spent(h) <= Spent(h)' /\ Spent(h) \in Nat /\ Spent(h)' \in Nat
    BY <2>1, <2>2 DEF Spent
  <2>3. ASSUME NEW c \in Calls PROVE ran'[c] <= Spent(<<c, 1>>)' + Spent(<<c, 2>>)'
    <3>1. ran[c] <= Spent(<<c, 1>>) + Spent(<<c, 2>>) /\ ran[c] \in Nat /\ ran'[c] = ran[c]
      BY DEF RunsCounted, Types, Forward
    <3>2. PICK a \in Nat, b \in Nat, d \in Nat, e \in Nat :
              a = Spent(<<c, 1>>) /\ b = Spent(<<c, 2>>)
              /\ d = Spent(<<c, 1>>)' /\ e = Spent(<<c, 2>>)'
      BY <2>2, HandlersOf
    <3>3. a <= d /\ b <= e
      BY <2>2, <3>2, HandlersOf
    <3>4. QED
      BY <3>1, <3>2, <3>3
  <2>4. QED
    BY <2>3 DEF RunsCounted
<1>4. QED
  BY <1>1, <1>2, <1>3

\* A request of a call that may change the game, not yet sent, has not run.
LEMMA UnsentHasNotRun ==
    ASSUME Types, Attempts, QueuedOnce, RunsCounted, NEW h \in Handlers,
           handler[h].phase \in Unsent \ {"none"}, CallOf(h) \notin ReadOnlyCalls
    PROVE  h = <<CallOf(h), 1>> /\ ran[CallOf(h)] = 0 /\ ~InQueue(h)
<1>1. PICK c \in Calls : c = CallOf(h)
  BY HandlerIs
<1>2. handler[<<c, 2>>].phase = "none"
  BY <1>1 DEF Attempts, Types, ToolRecord
<1>3. h = <<c, 1>>
  BY <1>1, <1>2, HandlerIs
<1>4. MayRun(<<c, 1>>) /\ MayRun(<<c, 2>>)
  BY <1>2, <1>3 DEF MayRun, Unsent
<1>5. ran[c] <= 0 + 0 /\ ran[c] \in Nat
  BY <1>4 DEF RunsCounted, Spent, Types
<1>6. QED
  BY <1>1, <1>3, <1>5 DEF QueuedOnce

LEMMA FailureIs ==
    ASSUME NEW e \in Ambiguous \cup Refusals
    PROVE  Failure(e) \in Response /\ Failure(e).error = e /\ Failure(e) # None
BY NoneAssumption DEF Failure, Response

LEMMA SuccessIs ==
    ASSUME NEW c \in Calls
    PROVE  Success(c) \in Response /\ Success(c).error = "none" /\ Success(c).run = c
BY DEF Success, Response

\* Whoever hears that the outcome is unknown is told nothing.
LEMMA UnknownMayBeHeard ==
    ASSUME NEW c, NEW e \in Ambiguous PROVE MayHear(c, Failure(e))'
BY FailureIs DEF MayHear, Ambiguous, Refusals

LEMMA ToolsKept == ASSUME KeepsWord, ToolsTrue, UNCHANGED tool PROVE ToolsTrue'
<1>1. ASSUME NEW c \in Calls, tool[c].answer # None PROVE MayHear(c, tool[c].answer)'
  <2>1. PICK r : r = tool[c].answer /\ r = tool'[c].answer
    OBVIOUS
  <2>2. MayHear(c, r)'
    BY <1>1, <2>1, HearLater DEF ToolsTrue
  <2>3. QED
    BY <2>1, <2>2
<1>2. QED
  BY <1>1 DEF ToolsTrue

LEMMA HandlersKept ==
    ASSUME KeepsWord, HandlersTrue,
           \A h \in Handlers :
              /\ \/ handler'[h].response \in {None, handler[h].response}
                 \/ MayHear(CallOf(h), handler[h].response)'
              /\ handler'[h].phase = "responded" => handler'[h].response # None
    PROVE  HandlersTrue'
<1>1. ASSUME NEW h \in Handlers, handler'[h].response # None
      PROVE  MayHear(CallOf(h), handler[h].response)'
  <2>1. CASE handler'[h].response = handler[h].response
    <3>1. PICK r : r = handler[h].response /\ r = handler'[h].response
      BY <2>1
    <3>2. PICK c \in Calls : c = CallOf(h)
      BY HandlerIs
    <3>3. MayHear(c, r)'
      BY <1>1, <3>1, <3>2, HearLater DEF HandlersTrue
    <3>4. QED
      BY <3>1, <3>2, <3>3
  <2>2. QED
    BY <1>1, <2>1
<1>2. QED
  BY <1>1 DEF HandlersTrue

LEMMA LedgerKept ==
    ASSUME KeepsWord, LedgerTrue,
           \A i \in DOMAIN requests' :
              /\ {"state", "response", "expiresAt"} \subseteq DOMAIN requests'[i]
              /\ requests'[i].state \in Ledger!RequestState
              /\ requests'[i].state = "Completed" =>
                    \/ /\ i \in DOMAIN requests /\ requests[i].state = "Completed"
                       /\ requests'[i].response = requests[i].response
                    \/ \A c \in Calls : IdOf[c] = i.id => MayHear(c, requests[i].response)'
    PROVE  LedgerTrue'
<1>1. ASSUME NEW i \in DOMAIN requests', NEW c \in Calls, requests'[i].state = "Completed",
             IdOf[c] = i.id
      PROVE  MayHear(c, requests[i].response)'
  <2>1. CASE /\ i \in DOMAIN requests /\ requests[i].state = "Completed"
             /\ requests'[i].response = requests[i].response
    <3>1. PICK r : r = requests[i].response /\ r = requests'[i].response
      BY <2>1
    <3>2. MayHear(c, r)'
      BY <1>1, <2>1, <3>1, HearLater DEF LedgerTrue
    <3>3. QED
      BY <3>1, <3>2
  <2>2. QED
    BY <1>1, <2>1
<1>2. QED
  BY <1>1 DEF LedgerTrue

LEMMA QueueKept ==
    ASSUME KeepsWord, QueueTrue,
           \A n \in DOMAIN game'.outbound :
              \/ \E m \in DOMAIN game.outbound : game'.outbound[n] = game.outbound[m]
              \/ \A c \in Calls : IdOf[c] = game'.outbound[n].id
                                     => MayHear(c, game.outbound[n].response)'
    PROVE  QueueTrue'
<1>1. ASSUME NEW n \in DOMAIN game'.outbound, NEW c \in Calls, IdOf[c] = game'.outbound[n].id
      PROVE  MayHear(c, game.outbound[n].response)'
  <2>1. CASE \E m \in DOMAIN game.outbound : game'.outbound[n] = game.outbound[m]
    <3>1. PICK m \in DOMAIN game.outbound : game'.outbound[n] = game.outbound[m]
      BY <2>1
    <3>2. PICK r : r = game.outbound[m].response /\ r = game'.outbound[n].response
      BY <3>1
    <3>3. MayHear(c, r)'
      BY <1>1, <3>1, <3>2, HearLater DEF QueueTrue
    <3>4. QED
      BY <3>2, <3>3
  <2>2. QED
    BY <1>1, <2>1
<1>2. QED
  BY <1>1 DEF QueueTrue

\* The ledger's operations.
LEMMA LedgerBegins ==
    ASSUME KeepsWord, LedgerTrue, NEW i, NEW effect, Ledger!TryBegin(i, effect)
    PROVE  LedgerTrue'
<1>1. Ledger!LiveIdentities \subseteq DOMAIN requests
  BY DEF Ledger!LiveIdentities
<1>2. CASE Ledger!BeginNew(i, effect)
  <2>1. PICK e : e = Ledger!NewEntry(effect)
    OBVIOUS
  <2>2. {"state", "response", "expiresAt"} \subseteq DOMAIN e /\ e.state = "InProgress"
    BY <2>1 DEF Ledger!NewEntry
  <2>3. /\ DOMAIN requests' = Ledger!LiveIdentities \cup {i}
        /\ \A j \in DOMAIN requests' : requests'[j] = IF j = i THEN e ELSE requests[j]
    BY <1>2, <2>1 DEF Ledger!BeginNew, Ledger!With, Ledger!LiveRequests
  <2>4. QED
    BY <1>1, <2>2, <2>3, LedgerKept DEF LedgerTrue, Ledger!RequestState
<1>3. CASE Ledger!BeginExisting(i)
  <2>1. PICK e : e = Ledger!RetriedEntry(i)
    OBVIOUS
  <2>2. i \in DOMAIN requests
    BY <1>1, <1>3 DEF Ledger!BeginExisting
  <2>3. {"state", "response", "expiresAt"} \subseteq DOMAIN e /\ e.state = "InProgress"
    BY <2>1, <2>2 DEF Ledger!RetriedEntry, LedgerTrue
  <2>4. /\ DOMAIN requests' = Ledger!LiveIdentities \cup {i}
        /\ \A j \in DOMAIN requests' : requests'[j] = IF j = i THEN e ELSE requests[j]
    BY <1>3, <2>1 DEF Ledger!BeginExisting, Ledger!With, Ledger!LiveRequests
  <2>5. QED
    BY <1>1, <2>3, <2>4, LedgerKept DEF LedgerTrue, Ledger!RequestState
<1>4. CASE Ledger!Refuse(i)
  <2>1. /\ DOMAIN requests' = Ledger!LiveIdentities
        /\ \A j \in DOMAIN requests' : requests'[j] = requests[j]
    BY <1>4 DEF Ledger!Refuse, Ledger!LiveRequests
  <2>2. QED
    BY <1>1, <2>1, LedgerKept DEF LedgerTrue
<1>5. QED
  BY <1>2, <1>3, <1>4 DEF Ledger!TryBegin

LEMMA LedgerConcludes ==
    ASSUME KeepsWord, LedgerTrue, NEW i, NEW state \in Ledger!RequestState, NEW response,
           requests' = Ledger!Conclude(i, state, response),
           state = "Completed" =>
              \A c \in Calls : IdOf[c] = i.id => MayHear(c, response)'
    PROVE  LedgerTrue'
<1>1. CASE ~Ledger!InProgress(i)
  BY <1>1, LedgerKept DEF Ledger!Conclude, LedgerTrue
<1>2. CASE Ledger!InProgress(i)
  <2>1. i \in DOMAIN requests /\ {"state", "response", "expiresAt"} \subseteq DOMAIN requests[i]
    BY <1>2 DEF Ledger!InProgress, LedgerTrue
  <2>2. PICK e : e = [requests[i] EXCEPT !.state = state, !.response = response,
                                         !.expiresAt = now + Lifetime]
    OBVIOUS
  <2>3. {"state", "response", "expiresAt"} \subseteq DOMAIN e /\ e.state = state
        /\ e.response = response
    BY <2>1, <2>2
  <2>4. /\ DOMAIN requests' = DOMAIN requests
        /\ \A j \in DOMAIN requests' : requests'[j] = IF j = i THEN e ELSE requests[j]
    BY <1>2, <2>1, <2>2 DEF Ledger!Conclude
  <2>5. ASSUME state = "Completed", NEW c \in Calls, IdOf[c] = i.id
        PROVE  MayHear(c, requests[i].response)'
    BY <2>1, <2>3, <2>4, <2>5
  <2>6. QED
    BY <2>3, <2>4, <2>5, LedgerKept DEF LedgerTrue
<1>3. QED
  BY <1>1, <1>2

-----------------------------------------------------------------------------
(* The handlers                                                             *)

\* One handler moves, and nothing else in the broker's callers or the game.
LEMMA HandlerMoves ==
    ASSUME PromiseInv, NEW h \in Handlers, NEW t,
           handler' = [x \in Handlers |-> IF x = h THEN t ELSE handler[x]],
           UNCHANGED <<tool, game, ran>>, handler[h].phase # "none",
           handler[h].phase \notin Unsent => t.phase \notin Unsent
    PROVE  KeepsWord /\ QueuedOnce' /\ RunsCounted'
<1>1. \A x \in Handlers : InQueue(x)' <=> InQueue(x)
  BY DEF InQueue
<1>2. Forward
  <2>1. ASSUME NEW c \in Calls, handler[<<c, 1>>].phase = "none"
        PROVE  handler'[<<c, 1>>].phase = "none"
    BY <2>1, HandlersOf
  <2>2. QED
    BY <1>1, <2>1 DEF Forward, PromiseInv, QueuedOnce
<1>3. QED
  BY <1>2, ForwardKeeps DEF PromiseInv

LEMMA OneHandler ==
    ASSUME PromiseInv, NEW h \in Handlers, NEW t \in HandlerRecord,
           handler' = [x \in Handlers |-> IF x = h THEN t ELSE handler[x]],
           UNCHANGED <<tool, sequence, game, ran>>,
           handler[h].phase # "none" /\ t.phase # "none",
           handler[h].phase \notin Unsent => t.phase \notin Unsent,
           t.response \in {None, handler[h].response} \/ MayHear(CallOf(h), t.response)',
           t.phase = "responded" => t.response # None,
           gameSession' \in Generations \cup {None},
           session' \in [Generations -> SessionRecord], OwnEntries', LedgerTrue'
    PROVE  PromiseInv'
<1>1. KeepsWord /\ QueuedOnce' /\ RunsCounted'
  BY HandlerMoves
<1>2. Types'
  BY DEF PromiseInv, Types
<1>3. Attempts'
  <2>1. ASSUME NEW c \in Calls, NEW a \in {1, 2}, handler[<<c, a>>].phase = "none"
        PROVE  handler'[<<c, a>>].phase = "none"
    BY <2>1 DEF Handlers
  <2>2. \A c \in Calls : tool[c].attempt \in {1, 2}
    BY DEF PromiseInv, Types, ToolRecord
  <2>3. QED
    BY <2>1, <2>2 DEF PromiseInv, Attempts, Attempt
<1>4. ToolsTrue'
  BY <1>1, ToolsKept DEF PromiseInv
<1>5. HandlersTrue'
  <2>1. ASSUME NEW x \in Handlers
        PROVE  /\ \/ handler'[x].response \in {None, handler[x].response}
                  \/ MayHear(CallOf(x), handler[x].response)'
               /\ handler'[x].phase = "responded" => handler'[x].response # None
    BY DEF PromiseInv, HandlersTrue, MayHear
  <2>2. QED
    BY <1>1, <2>1, HandlersKept DEF PromiseInv
<1>6. QueueTrue'
  BY <1>1, QueueKept DEF PromiseInv
<1>7. QED
  BY <1>1, <1>2, <1>3, <1>4, <1>5, <1>6 DEF PromiseInv

\* A handler gets its response: a refusal only before its request was sent.
Deserved(h, response) ==
    \/ response.error \in Ambiguous
    \/ response.error \in Refusals /\ handler[h].phase \in Unsent
    \/ MayHear(CallOf(h), response)
Responded(response) == [phase |-> "responded", session |-> None, response |-> response]

LEMMA RespondedIs ==
    ASSUME NEW response \in Response
    PROVE  /\ Responded(response) \in HandlerRecord
           /\ Responded(response).phase = "responded" /\ response # None
           /\ Responded(response).response = response
BY NoneAssumption DEF Responded, HandlerRecord, Working

LEMMA HandlerResponds ==
    ASSUME PromiseInv, NEW h \in Handlers, NEW response \in Response, Deserved(h, response),
           handler[h].phase # "none", Respond(h, response), UNCHANGED <<tool, game, ran>>
    PROVE  /\ handler' = [x \in Handlers |-> IF x = h THEN Responded(response) ELSE handler[x]]
           /\ KeepsWord /\ MayHear(CallOf(h), response)'
<1>1. PICK t : t = Responded(response)
  OBVIOUS
<1>2. handler' = [x \in Handlers |-> IF x = h THEN t ELSE handler[x]]
  BY <1>1 DEF Respond, Responded, PromiseInv, Types
<1>3. t.phase = "responded"
  BY <1>1, RespondedIs
<1>4. KeepsWord
  BY <1>2, <1>3, HandlerMoves DEF Unsent
<1>5. MayHear(CallOf(h), response)'
  <2>1. CASE response.error \in Ambiguous
    BY <2>1 DEF MayHear, Ambiguous, Refusals
  <2>2. CASE response.error \in Refusals /\ handler[h].phase \in Unsent
    <3>1. PICK c \in Calls : c = CallOf(h)
      BY HandlerIs
    <3>2. ASSUME c \notin ReadOnlyCalls PROVE NeverRuns(c)'
      <4>1. h = <<c, 1>> /\ ran[c] = 0 /\ ~InQueue(h)
        BY <2>2, <3>1, <3>2, UnsentHasNotRun DEF PromiseInv
      <4>2. QED
        BY <1>2, <1>3, <4>1 DEF NeverRuns, InQueue, Unsent
    <3>3. MayHear(c, response)'
      BY <2>2, <3>2 DEF MayHear, Refusals
    <3>4. QED
      BY <3>1, <3>3
  <2>3. CASE MayHear(CallOf(h), response)
    <3>1. PICK c \in Calls : c = CallOf(h)
      BY HandlerIs
    <3>2. MayHear(c, response)'
      BY <1>4, <2>3, <3>1, HearLater
    <3>3. QED
      BY <3>1, <3>2
  <2>4. QED
    BY <2>1, <2>2, <2>3 DEF Deserved
<1>6. QED
  BY <1>1, <1>2, <1>4, <1>5

\* The same, with what becomes of the rest of the broker.
LEMMA RespondKeeps ==
    ASSUME PromiseInv, NEW h \in Handlers, NEW response \in Response, Deserved(h, response),
           handler[h].phase # "none", Respond(h, response),
           UNCHANGED <<tool, sequence, game, ran>>,
           gameSession' \in Generations \cup {None},
           session' \in [Generations -> SessionRecord], OwnEntries', LedgerTrue'
    PROVE  PromiseInv'
<1>1. PICK t \in HandlerRecord : t = Responded(response)
  BY RespondedIs
<1>2. t.phase = "responded" /\ t.response = response /\ response # None
  BY <1>1, RespondedIs
<1>3. /\ handler' = [x \in Handlers |-> IF x = h THEN t ELSE handler[x]]
      /\ MayHear(CallOf(h), response)'
  BY <1>1, HandlerResponds
<1>4. MayHear(CallOf(h), t.response)'
  BY <1>2, <1>3
<1>5. QED
  BY <1>2, <1>3, <1>4, OneHandler DEF Unsent

LEMMA Concludes ==
    ASSUME UniqueIds, PromiseInv, NEW h \in Handlers, NEW response \in Response,
           Deserved(h, response), handler[h].phase # "none", Conclude(h, response),
           UNCHANGED <<tool, sequence, game, ran, gameSession>>,
           session' \in [Generations -> SessionRecord], OwnEntries'
    PROVE  PromiseInv'
<1>1. Respond(h, response)
  BY DEF Conclude
<1>2. KeepsWord /\ MayHear(CallOf(h), response)'
  BY <1>1, HandlerResponds
<1>3. LedgerTrue'
  <2>1. PICK i : i = Identity(h)
    OBVIOUS
  <2>2. i.id = Id(h)
    BY <2>1 DEF Identity
  <2>3. \A c \in Calls : IdOf[c] = i.id => c = CallOf(h)
    BY <2>2, HandlerIs DEF UniqueIds, Id
  <2>4. ASSUME NEW c \in Calls, IdOf[c] = i.id PROVE MayHear(c, response)'
    BY <1>2, <2>3, <2>4
  <2>5. CASE Ledger!MarkConnectionLost(Identity(h))
    <3>1. requests' = requests
          \/ \E state \in {"Retryable", "DeliveryUnknown"} :
                requests' = Ledger!Conclude(i, state, NoResponse)
      BY <2>1, <2>5 DEF Ledger!MarkConnectionLost, Ledger!LostState
    <3>2. CASE requests' = requests
      BY <1>2, <3>2, LedgerKept DEF PromiseInv, LedgerTrue
    <3>3. ASSUME NEW state \in {"Retryable", "DeliveryUnknown"},
                 requests' = Ledger!Conclude(i, state, NoResponse)
          PROVE  LedgerTrue'
      BY <1>2, <3>3, LedgerConcludes DEF PromiseInv, Ledger!RequestState
    <3>4. QED
      BY <3>1, <3>2, <3>3
  <2>6. CASE Ledger!MarkCompleted(Identity(h), response)
    <3>1. requests' = Ledger!Conclude(i, "Completed", response)
      BY <2>1, <2>6 DEF Ledger!MarkCompleted
    <3>2. QED
      BY <1>2, <2>4, <3>1, LedgerConcludes DEF PromiseInv, Ledger!RequestState
  <2>7. QED
    BY <2>5, <2>6 DEF Conclude
<1>4. QED
  BY <1>1, <1>3, RespondKeeps DEF PromiseInv, Types

\* What a session's pipe and reader do leaves its entries alone.
LEMMA PipesChange ==
    ASSUME Types, OwnEntries,
           session' \in [Generations -> SessionRecord],
           \A g \in Generations : session'[g].pending = session[g].pending
    PROVE  OwnEntries'
BY DEF OwnEntries

LEMMA DisconnectedIs ==
    ASSUME Types, OwnEntries, NEW g, session' = Disconnected(g)
    PROVE  session' \in [Generations -> SessionRecord] /\ OwnEntries'
<1>1. session' \in [Generations -> SessionRecord]
      /\ \A k \in Generations : session'[k].pending = session[k].pending
  BY DEF Disconnected, Types, SessionRecord
<1>2. QED
  BY <1>1, PipesChange

\* An entry made by a handler, or taken out.
LEMMA EntryChanges ==
    ASSUME Types, OwnEntries, NEW h \in Handlers, NEW g, NEW entry \in {h, None},
           session' = [session EXCEPT ![g].pending[Id(h)] = entry]
    PROVE  session' \in [Generations -> SessionRecord] /\ OwnEntries'
<1>1. ASSUME NEW k \in Generations
      PROVE  /\ session'[k] \in SessionRecord
             /\ \A id \in RequestIds :
                   session'[k].pending[id] # None => Id(session'[k].pending[id]) = id
  <2>1. PICK s \in SessionRecord : s = session[k]
    BY DEF Types
  <2>2. PICK pending : pending = [s.pending EXCEPT ![Id(h)] = entry]
    OBVIOUS
  <2>3. pending \in [RequestIds -> Handlers \cup {None}]
    BY <2>2 DEF SessionRecord
  <2>4. \A id \in RequestIds : pending[id] # None => Id(pending[id]) = id
    <3>1. \A id \in RequestIds : pending[id] = IF id = Id(h) THEN entry ELSE s.pending[id]
      BY <2>2 DEF SessionRecord
    <3>2. \A id \in RequestIds : s.pending[id] # None => Id(s.pending[id]) = id
      BY <2>1 DEF OwnEntries
    <3>3. QED
      BY <3>1, <3>2
  <2>5. PICK t : t = [s EXCEPT !.pending = pending]
    OBVIOUS
  <2>6. t \in SessionRecord /\ t.pending = pending
    BY <2>3, <2>5 DEF SessionRecord
  <2>7. session'[k] = IF k = g THEN t ELSE s
    BY <2>1, <2>2, <2>5 DEF Types
  <2>8. \A id \in RequestIds : s.pending[id] # None => Id(s.pending[id]) = id
    BY <2>1 DEF OwnEntries
  <2>9. QED
    BY <2>4, <2>6, <2>7, <2>8
<1>2. DOMAIN session' = Generations
  BY DEF Types
<1>3. session' \in [Generations -> SessionRecord]
  <2>1. session' = [k \in Generations |-> session'[k]]
    BY <1>2 DEF Types
  <2>2. QED
    BY <1>1, <2>1
<1>4. QED
  BY <1>1, <1>3 DEF OwnEntries

LEMMA SessionsStay ==
    ASSUME Types, OwnEntries, UNCHANGED session
    PROVE  session' \in [Generations -> SessionRecord] /\ OwnEntries'
BY PipesChange DEF Types

\* A handler goes on to another phase.
LEMMA AdvanceKeeps ==
    ASSUME PromiseInv, NEW h \in Handlers, NEW phase, Advance(h, phase),
           phase \in {"accepted", "added", "waiting", "timedOut"},
           handler[h].phase # "none", handler[h].phase \notin Unsent => phase \notin Unsent,
           UNCHANGED <<tool, sequence, game, ran, gameSession>>,
           session' \in [Generations -> SessionRecord], OwnEntries', LedgerTrue'
    PROVE  PromiseInv'
<1>1. PICK s \in HandlerRecord : s = handler[h]
  BY DEF PromiseInv, Types
<1>2. PICK t : t = [s EXCEPT !.phase = phase]
  OBVIOUS
<1>3. t \in HandlerRecord /\ t.phase = phase /\ t.response = s.response
  BY <1>2 DEF HandlerRecord, Working
<1>4. handler' = [x \in Handlers |-> IF x = h THEN t ELSE handler[x]]
  BY <1>1, <1>2 DEF Advance, PromiseInv, Types
<1>5. QED
  BY <1>1, <1>3, <1>4, OneHandler DEF PromiseInv, Types

LEMMA LedgerStays ==
    ASSUME KeepsWord, LedgerTrue, UNCHANGED requests PROVE LedgerTrue'
BY LedgerKept DEF LedgerTrue

\* The handler's steps.
LEMMA AdvanceMoves ==
    ASSUME PromiseInv, NEW h \in Handlers, NEW phase, Advance(h, phase),
           handler[h].phase # "none", handler[h].phase \notin Unsent => phase \notin Unsent,
           UNCHANGED <<tool, game, ran>>
    PROVE  KeepsWord
<1>1. PICK s \in HandlerRecord : s = handler[h]
  BY DEF PromiseInv, Types
<1>2. PICK t : t = [s EXCEPT !.phase = phase]
  OBVIOUS
<1>3. t.phase = phase
  BY <1>2 DEF HandlerRecord
<1>4. handler' = [x \in Handlers |-> IF x = h THEN t ELSE handler[x]]
  BY <1>1, <1>2 DEF Advance, PromiseInv, Types
<1>5. QED
  BY <1>1, <1>3, <1>4, HandlerMoves

LEMMA Admits ==
    ASSUME PromiseInv, NEW h \in Handlers, AdmitRequest(h) PROVE PromiseInv'
<1>1. PICK s \in HandlerRecord : s = handler[h]
  BY DEF PromiseInv, Types
<1>2. PICK t : t = [s EXCEPT !.phase = "admitted", !.session = gameSession]
  OBVIOUS
<1>3. t \in HandlerRecord /\ t.phase = "admitted" /\ t.response = s.response
  BY <1>2 DEF HandlerRecord, PromiseInv, Types
<1>4. handler' = [x \in Handlers |-> IF x = h THEN t ELSE handler[x]]
  BY <1>1, <1>2 DEF AdmitRequest, PromiseInv, Types
<1>5. s.phase = "received" /\ UNCHANGED <<tool, sequence, gameSession, session, requests, game, ran>>
  BY <1>1 DEF AdmitRequest, ledgerVars
<1>6. KeepsWord
  BY <1>1, <1>3, <1>4, <1>5, HandlerMoves DEF Unsent
<1>7. LedgerTrue'
  BY <1>5, <1>6, LedgerStays DEF PromiseInv
<1>8. QED
  BY <1>1, <1>3, <1>4, <1>5, <1>7, OneHandler, SessionsStay DEF PromiseInv, Types, Unsent

LEMMA RefusalDeserved ==
    ASSUME NEW h \in Handlers, NEW e,
           e \in Ambiguous \/ (e \in Refusals /\ handler[h].phase \in Unsent)
    PROVE  Failure(e) \in Response /\ Deserved(h, Failure(e))
BY FailureIs DEF Deserved

LEMMA Refuses ==
    ASSUME PromiseInv, NEW h \in Handlers, RefuseOffline(h) \/ ExpireLease(h)
    PROVE  PromiseInv'
<1>1. PICK response : response = Failure("game_offline")
  OBVIOUS
<1>2. handler[h].phase = "received"
  BY DEF RefuseOffline, ExpireLease
<1>3. response \in Response /\ Deserved(h, response)
  BY <1>1, <1>2, RefusalDeserved DEF Refusals, Unsent
<1>4. Respond(h, response) /\ UNCHANGED <<tool, sequence, requests, game, ran>>
  BY <1>1 DEF RefuseOffline, ExpireLease, ledgerVars
<1>5. session' \in [Generations -> SessionRecord] /\ OwnEntries'
  BY DisconnectedIs, SessionsStay DEF RefuseOffline, ExpireLease, PromiseInv
<1>6. gameSession' \in Generations \cup {None}
  BY DEF RefuseOffline, ExpireLease, PromiseInv, Types
<1>7. LedgerTrue'
  BY <1>2, <1>3, <1>4, HandlerResponds, LedgerStays DEF PromiseInv
<1>8. QED
  BY <1>2, <1>3, <1>4, <1>5, <1>6, <1>7, RespondKeeps

LEMMA RefusalTrue ==
    ASSUME PromiseInv, NEW h \in Handlers, handler[h].phase = "admitted",
           NEW effect, Ledger!TryBegin(Identity(h), effect),
           Ledger!Disposition(Identity(h)) # "Accepted"
    PROVE  Refusal(Identity(h)) \in Response /\ Deserved(h, Refusal(Identity(h)))
<1>1. PICK i : i = Identity(h) /\ i.id = Id(h)
  BY DEF Identity
<1>2. PICK d : d = Ledger!Disposition(i)
  OBVIOUS
<1>3. d \in {"InProgress", "ReplayCompleted", "DeliveryUnknown", "Busy", "StaleSequence"}
      /\ (d = "ReplayCompleted" => i \in DOMAIN requests /\ requests[i].state = "Completed")
  <2>1. CASE i \in Ledger!LiveIdentities
    <3>1. i \in DOMAIN requests /\ requests[i].state \in Ledger!RequestState
      BY <2>1 DEF Ledger!LiveIdentities, PromiseInv, LedgerTrue
    <3>2. d = Ledger!ExistingDisposition[requests[i].state]
      BY <1>2, <2>1 DEF Ledger!Disposition
    <3>3. d # "Accepted"
      BY <1>1, <1>2
    <3>4. QED
      BY <3>1, <3>2, <3>3 DEF Ledger!ExistingDisposition, Ledger!RequestState
  <2>2. CASE i \notin Ledger!LiveIdentities
    BY <1>1, <1>2, <2>2 DEF Ledger!Disposition
  <2>3. QED
    BY <2>1, <2>2
<1>4. CASE d = "ReplayCompleted"
  <2>1. PICK r : r = requests[i].response
    OBVIOUS
  <2>2. Refusal(i) = r
    BY <1>2, <1>4, <2>1 DEF Refusal
  <2>3. PICK c \in Calls : c = CallOf(h)
    BY HandlerIs
  <2>4. MayHear(c, r)
    BY <1>1, <1>3, <1>4, <2>1, <2>3 DEF PromiseInv, LedgerTrue, Id
  <2>5. QED
    BY <1>1, <2>2, <2>3, <2>4 DEF Deserved, MayHear
<1>5. CASE d # "ReplayCompleted"
  <2>1. PICK e \in {"request_in_progress", "delivery_unknown", "busy",
                    "request_sequence_stale"} : Refusal(i) = Failure(e)
    BY <1>2, <1>3, <1>5 DEF Refusal
  <2>2. QED
    BY <1>1, <2>1, RefusalDeserved DEF Ambiguous, Refusals, Unsent
<1>6. QED
  BY <1>4, <1>5

LEMMA Begins ==
    ASSUME PromiseInv, NEW h \in Handlers, Begin(h) PROVE PromiseInv'
<1>1. PICK i : i = Identity(h)
  OBVIOUS
<1>2. /\ handler[h].phase = "admitted" /\ Ledger!TryBegin(i, Effect(h))
      /\ UNCHANGED <<tool, sequence, gameSession, session, game, ran>>
  BY <1>1 DEF Begin
<1>3. session' \in [Generations -> SessionRecord] /\ OwnEntries'
  BY <1>2, SessionsStay DEF PromiseInv
<1>4. CASE Advance(h, "accepted")
  <2>1. LedgerTrue'
    BY <1>2, <1>4, AdvanceMoves, LedgerBegins DEF Unsent, PromiseInv
  <2>2. QED
    BY <1>2, <1>3, <1>4, <2>1, AdvanceKeeps DEF Unsent
<1>5. CASE Ledger!Disposition(i) # "Accepted" /\ Respond(h, Refusal(i))
  <2>1. PICK response : response = Refusal(i)
    OBVIOUS
  <2>2. response \in Response /\ Deserved(h, response)
    BY <1>1, <1>2, <1>5, <2>1, RefusalTrue
  <2>3. Respond(h, response)
    BY <1>5, <2>1
  <2>4. LedgerTrue'
    BY <1>2, <2>2, <2>3, HandlerResponds, LedgerBegins DEF PromiseInv
  <2>5. QED
    BY <1>2, <1>3, <2>2, <2>3, <2>4, RespondKeeps DEF PromiseInv, Types
<1>6. QED
  BY <1>1, <1>4, <1>5 DEF Begin

LEMMA Adds ==
    ASSUME UniqueIds, PromiseInv, NEW h \in Handlers, AddPending(h) PROVE PromiseInv'
<1>1. handler[h].phase = "accepted" /\ UNCHANGED <<tool, sequence, gameSession, game, ran>>
  BY DEF AddPending
<1>2. CASE /\ session' = [session EXCEPT ![SessionOf(h)].pending[Id(h)] = h]
           /\ Advance(h, "added") /\ UNCHANGED requests
  <2>1. session' \in [Generations -> SessionRecord] /\ OwnEntries'
    BY <1>2, EntryChanges DEF PromiseInv
  <2>2. LedgerTrue'
    BY <1>1, <1>2, AdvanceMoves, LedgerStays DEF Unsent, PromiseInv
  <2>3. QED
    BY <1>1, <1>2, <2>1, <2>2, AdvanceKeeps DEF Unsent
<1>3. CASE Conclude(h, Failure("duplicate_request")) /\ UNCHANGED session
  <2>1. PICK response \in Response :
            response = Failure("duplicate_request") /\ Deserved(h, response)
    BY <1>1, RefusalDeserved DEF Refusals, Unsent
  <2>2. QED
    BY <1>1, <1>3, <2>1, Concludes, SessionsStay DEF PromiseInv
<1>4. QED
  BY <1>2, <1>3 DEF AddPending, ledgerVars

LEMMA Removes ==
    ASSUME UniqueIds, PromiseInv, NEW h \in Handlers, WriteFails(h) \/ RemoveTimedOut(h)
    PROVE  PromiseInv'
<1>1. /\ handler[h].phase # "none" /\ RemovePending(h)
      /\ UNCHANGED <<tool, sequence, gameSession, game, ran>>
  BY DEF WriteFails, RemoveTimedOut
<1>2. PICK e \in Ambiguous : Conclude(h, Failure(e))
  BY DEF WriteFails, RemoveTimedOut, Ambiguous
<1>3. Failure(e) \in Response /\ Deserved(h, Failure(e))
  BY <1>2, FailureIs DEF Deserved
<1>4. session' \in [Generations -> SessionRecord] /\ OwnEntries'
  BY <1>1, EntryChanges DEF RemovePending, PromiseInv
<1>5. QED
  BY <1>1, <1>2, <1>3, <1>4, Concludes

LEMMA Waits ==
    ASSUME PromiseInv, NEW h \in Handlers, FlushDone(h) \/ Timeout(h) PROVE PromiseInv'
<1>1. /\ handler[h].phase \in {"written", "waiting"}
      /\ UNCHANGED <<tool, sequence, gameSession, session, requests, game, ran>>
  BY DEF FlushDone, Timeout, ledgerVars
<1>2. PICK phase \in {"waiting", "timedOut"} : Advance(h, phase)
  BY DEF FlushDone, Timeout
<1>3. LedgerTrue'
  BY <1>1, <1>2, AdvanceMoves, LedgerStays DEF Unsent, PromiseInv
<1>4. QED
  BY <1>1, <1>2, <1>3, AdvanceKeeps, SessionsStay DEF Unsent, PromiseInv

LEMMA Resumes ==
    ASSUME UniqueIds, PromiseInv, NEW h \in Handlers, Resume(h) PROVE PromiseInv'
<1>1. PICK response : response = handler[h].response
  OBVIOUS
<1>2. /\ handler[h].phase = "waiting" /\ response # None /\ Conclude(h, response)
      /\ UNCHANGED <<tool, sequence, gameSession, session, game, ran>>
  BY <1>1 DEF Resume
<1>3. response \in Response /\ Deserved(h, response)
  BY <1>1, <1>2 DEF PromiseInv, HandlersTrue, Deserved, MayHear
<1>4. QED
  BY <1>2, <1>3, Concludes, SessionsStay DEF PromiseInv

LEMMA HandlerSteps ==
    ASSUME UniqueIds, PromiseInv, NEW h \in Handlers, HandlerNext(h) PROVE PromiseInv'
BY Admits, Refuses, Begins, Adds, Removes, Waits, Resumes DEF HandlerNext

-----------------------------------------------------------------------------
(* The transport                                                            *)

\* One call moves, with the handlers of its attempts.
CallHandlers(c) ==
    /\ handler' \in [Handlers -> HandlerRecord]
    /\ \A h \in Handlers :
          /\ CallOf(h) # c => handler'[h] = handler[h]
          /\ handler[h].phase \notin Unsent => handler'[h].phase \notin Unsent
          /\ handler'[h].response \in {None, handler[h].response}
          /\ handler'[h].phase = "responded" => handler'[h].response # None
    /\ UNCHANGED <<gameSession, session, requests, game, ran>>
CallMoves(c, t) ==
    /\ tool' = [x \in Calls |-> IF x = c THEN t ELSE tool[x]]
    /\ tool[c].phase # "answered"
    /\ CallHandlers(c)

LEMMA ToolMoves ==
    ASSUME PromiseInv, NEW c \in Calls, NEW t, CallMoves(c, t)
    PROVE  KeepsWord /\ QueuedOnce' /\ RunsCounted'
<1>1. \A h \in Handlers : InQueue(h)' <=> InQueue(h)
  BY DEF InQueue, CallMoves, CallHandlers
<1>2. ASSUME NEW d \in Calls, tool[d].phase = "answered"
      PROVE  /\ tool'[d].phase = "answered"
             /\ handler[<<d, 1>>].phase = "none" => handler'[<<d, 1>>].phase = "none"
  BY <1>2, HandlersOf DEF CallMoves, CallHandlers
<1>3. Forward
  BY <1>1, <1>2 DEF Forward, CallMoves, CallHandlers, PromiseInv, QueuedOnce
<1>4. QED
  BY <1>3, ForwardKeeps DEF PromiseInv

LEMMA OneTool ==
    ASSUME PromiseInv, NEW c \in Calls, NEW t \in ToolRecord, CallMoves(c, t),
           sequence' \in [Clients -> Nat],
           t.phase \in {"idle", "connecting"} => handler'[<<c, t.attempt>>].phase = "none",
           t.attempt = 1 => handler'[<<c, 2>>].phase = "none",
           c \notin ReadOnlyCalls => t.attempt = 1,
           t.phase # "answered" => t.answer = None,
           t.answer # None => MayHear(c, t.answer)'
    PROVE  PromiseInv'
<1>1. KeepsWord /\ QueuedOnce' /\ RunsCounted'
  BY ToolMoves
<1>2. Types'
  BY DEF PromiseInv, Types, CallMoves, CallHandlers
<1>3. Attempts'
  <2>1. ASSUME NEW d \in Calls
        PROVE  /\ tool'[d].phase \in {"idle", "connecting"}
                    => handler'[<<d, tool'[d].attempt>>].phase = "none"
               /\ tool'[d].attempt = 1 => handler'[<<d, 2>>].phase = "none"
               /\ d \notin ReadOnlyCalls => tool'[d].attempt = 1
               /\ tool'[d].phase # "answered" => tool'[d].answer = None
    <3>1. CASE d = c
      BY <3>1 DEF CallMoves, CallHandlers
    <3>2. CASE d # c
      <4>1. tool'[d] = tool[d] /\ tool[d].attempt \in {1, 2}
        BY <3>2 DEF CallMoves, CallHandlers, PromiseInv, Types, ToolRecord
      <4>2. \A a \in {1, 2} : handler'[<<d, a>>] = handler[<<d, a>>]
        <5>1. \A h \in Handlers : CallOf(h) = d => handler'[h] = handler[h]
          BY <3>2 DEF CallMoves, CallHandlers
        <5>2. handler'[<<d, 1>>] = handler[<<d, 1>>]
          BY <5>1, HandlersOf
        <5>3. handler'[<<d, 2>>] = handler[<<d, 2>>]
          BY <5>1, HandlersOf
        <5>4. QED
          BY <5>2, <5>3
      <4>3. QED
        BY <4>1, <4>2 DEF PromiseInv, Attempts, Attempt
    <3>3. QED
      BY <3>1, <3>2
  <2>2. QED
    BY <2>1 DEF Attempts, Attempt
<1>4. OwnEntries'
  BY SessionsStay DEF PromiseInv, CallMoves, CallHandlers
<1>5. ToolsTrue'
  <2>1. ASSUME NEW d \in Calls, tool'[d].answer # None PROVE MayHear(d, tool[d].answer)'
    <3>1. CASE d = c
      <4>1. tool'[c].answer = t.answer
        BY DEF CallMoves, CallHandlers
      <4>2. PICK r : r = t.answer /\ r = tool'[c].answer
        BY <4>1
      <4>3. MayHear(c, r)'
        BY <2>1, <3>1, <4>2
      <4>4. QED
        BY <3>1, <4>2, <4>3
    <3>2. CASE d # c
      <4>1. PICK r : r = tool[d].answer /\ r = tool'[d].answer
        BY <3>2 DEF CallMoves, CallHandlers
      <4>2. MayHear(d, r)'
        BY <1>1, <2>1, <4>1, HearLater DEF PromiseInv, ToolsTrue
      <4>3. QED
        BY <4>1, <4>2
    <3>3. QED
      BY <3>1, <3>2
  <2>2. QED
    BY <2>1 DEF ToolsTrue
<1>6. HandlersTrue'
  BY <1>1, HandlersKept DEF PromiseInv, CallMoves, CallHandlers
<1>7. LedgerTrue'
  BY <1>1, LedgerStays DEF PromiseInv, CallMoves, CallHandlers
<1>8. QueueTrue'
  BY <1>1, QueueKept DEF PromiseInv, CallMoves, CallHandlers
<1>9. QED
  BY <1>1, <1>2, <1>3, <1>4, <1>5, <1>6, <1>7, <1>8 DEF PromiseInv

\* The handlers of a call that moves alone.
LEMMA Alone ==
    ASSUME PromiseInv, NEW c \in Calls, NEW t, tool[c].phase # "answered",
           tool' = [x \in Calls |-> IF x = c THEN t ELSE tool[x]],
           UNCHANGED <<handler, gameSession, session, requests, game, ran>>
    PROVE  CallMoves(c, t)
BY DEF CallMoves, CallHandlers, PromiseInv, Types, HandlersTrue

LEMMA Starts ==
    ASSUME PromiseInv, NEW c \in Calls, StartCall(c) PROVE PromiseInv'
<1>1. PICK s \in ToolRecord : s = tool[c]
  BY DEF PromiseInv, Types
<1>2. PICK k \in Clients : k = ClientOf[c]
  BY BridgeAssumption DEF BridgeAssumption
<1>3. PICK t : t = [s EXCEPT !.phase = "connecting", !.sequence = sequence[k] + 1]
  OBVIOUS
<1>4. sequence[k] + 1 \in Nat /\ sequence' \in [Clients -> Nat]
  BY <1>2 DEF StartCall, PromiseInv, Types
<1>5. /\ t \in ToolRecord /\ t.phase = "connecting" /\ t.answer = s.answer
      /\ t.attempt = s.attempt
  BY <1>3, <1>4 DEF ToolRecord
<1>6. s.phase = "idle" /\ CallMoves(c, t)
  <2>1. tool' = [x \in Calls |-> IF x = c THEN t ELSE tool[x]]
    BY <1>1, <1>2, <1>3 DEF StartCall, PromiseInv, Types
  <2>2. QED
    BY <1>1, <2>1, Alone DEF StartCall, brokerVars, ledgerVars
<1>7. UNCHANGED handler
  BY DEF StartCall, brokerVars
<1>8. QED
  BY <1>1, <1>4, <1>5, <1>6, <1>7, OneTool DEF PromiseInv, Attempts, Attempt

LEMMA Connects ==
    ASSUME PromiseInv, NEW c \in Calls, Connect(c) PROVE PromiseInv'
<1>1. PICK s \in ToolRecord : s = tool[c]
  BY DEF PromiseInv, Types
<1>2. PICK t : t = [s EXCEPT !.phase = "waiting"]
  OBVIOUS
<1>3. t \in ToolRecord /\ t.phase = "waiting" /\ t.answer = s.answer /\ t.attempt = s.attempt
  BY <1>2 DEF ToolRecord
<1>4. PICK h \in Handlers : h = Attempt(c) /\ CallOf(h) = c /\ h = <<c, s.attempt>>
  BY <1>1, HandlersOf DEF Attempt, ToolRecord
<1>5. PICK u : u = [handler[h] EXCEPT !.phase = "received"]
  OBVIOUS
<1>6. u \in HandlerRecord /\ u.phase = "received" /\ u.response = handler[h].response
  BY <1>5 DEF HandlerRecord, PromiseInv, Types
<1>7. handler' = [x \in Handlers |-> IF x = h THEN u ELSE handler[x]]
  BY <1>4, <1>5 DEF Connect, PromiseInv, Types
<1>8. s.phase = "connecting" /\ handler[h].phase = "none"
  BY <1>1, <1>4 DEF Connect, PromiseInv, Attempts
<1>9. CallMoves(c, t)
  <2>1. tool' = [x \in Calls |-> IF x = c THEN t ELSE tool[x]]
    BY <1>1, <1>2 DEF Connect, PromiseInv, Types
  <2>2. UNCHANGED <<gameSession, session, requests, game, ran>>
    BY DEF Connect, ledgerVars
  <2>3. QED
    BY <1>1, <1>4, <1>6, <1>7, <1>8, <2>1, <2>2
       DEF CallMoves, CallHandlers, PromiseInv, Types, HandlersTrue, Unsent
<1>10. UNCHANGED sequence
  BY DEF Connect
<1>11. t.attempt = 1 => handler'[<<c, 2>>].phase = "none"
  <2>1. SUFFICES ASSUME t.attempt = 1 PROVE handler'[<<c, 2>>].phase = "none"
    OBVIOUS
  <2>2. handler[<<c, 2>>].phase = "none"
    BY <1>1, <1>3, <2>1 DEF PromiseInv, Attempts
  <2>3. h = <<c, 1>>
    BY <1>3, <1>4, <2>1
  <2>4. <<c, 2>> \in Handlers /\ <<c, 2>> # <<c, 1>>
    <3>1. <<c, 2>>[2] # <<c, 1>>[2]
      OBVIOUS
    <3>2. <<c, 2>> # <<c, 1>>
      BY <3>1
    <3>3. QED
      BY <3>2, HandlersOf
  <2>5. PICK g \in Handlers : g = <<c, 2>> /\ g # h
    BY <2>3, <2>4
  <2>6. QED
    BY <1>7, <2>2, <2>5
<1>12. QED
  BY <1>1, <1>3, <1>8, <1>9, <1>10, <1>11, OneTool DEF PromiseInv, Attempts, Types

\* A call that ends, or tries again.
CallEnds(c) ==
    /\ tool[c].phase \in {"connecting", "waiting"}
    /\ CallHandlers(c)
    /\ \A h \in Handlers : handler[h].phase = "none" => handler'[h].phase = "none"
    /\ UNCHANGED sequence

LEMMA Retries ==
    ASSUME PromiseInv, NEW c \in Calls, CallEnds(c), MayRetry(c), Retry(c) PROVE PromiseInv'
<1>1. PICK s \in ToolRecord : s = tool[c]
  BY DEF PromiseInv, Types
<1>2. PICK t : t = [s EXCEPT !.phase = "connecting", !.attempt = 2]
  OBVIOUS
<1>3. t \in ToolRecord /\ t.phase = "connecting" /\ t.answer = s.answer /\ t.attempt = 2
  BY <1>2 DEF ToolRecord
<1>4. tool' = [x \in Calls |-> IF x = c THEN t ELSE tool[x]]
  BY <1>1, <1>2 DEF Retry, PromiseInv, Types
<1>5. CallMoves(c, t) /\ sequence' \in [Clients -> Nat] /\ s.phase # "answered"
  BY <1>1, <1>4 DEF CallMoves, CallEnds, PromiseInv, Types
<1>6. handler'[<<c, 2>>].phase = "none"
  BY HandlersOf DEF CallEnds, MayRetry, PromiseInv, Attempts
<1>7. c \in ReadOnlyCalls /\ s.answer = None
  BY <1>1, <1>5 DEF MayRetry, PromiseInv, Attempts
<1>8. QED
  BY <1>3, <1>5, <1>6, <1>7, OneTool

\* What a call is told in the end.
Tellable(c, r) ==
    \/ r.error \in Ambiguous
    \/ r.error \in Refusals /\ (c \in ReadOnlyCalls \/ tool[c].phase = "connecting")
    \/ MayHear(c, r)

LEMMA Answers ==
    ASSUME PromiseInv, NEW c \in Calls, NEW r \in Response, Answer(c, r), CallEnds(c),
           Tellable(c, r)
    PROVE  PromiseInv'
<1>1. PICK s \in ToolRecord : s = tool[c]
  BY DEF PromiseInv, Types
<1>2. PICK t : t = [s EXCEPT !.phase = "answered", !.answer = r]
  OBVIOUS
<1>3. t \in ToolRecord /\ t.phase = "answered" /\ t.answer = r /\ t.attempt = s.attempt
  BY <1>2 DEF ToolRecord
<1>4. tool' = [x \in Calls |-> IF x = c THEN t ELSE tool[x]]
  BY <1>1, <1>2 DEF Answer, PromiseInv, Types
<1>5. CallMoves(c, t) /\ sequence' \in [Clients -> Nat]
  BY <1>4 DEF CallMoves, CallEnds, PromiseInv, Types
<1>6. KeepsWord
  BY <1>5, ToolMoves
<1>7. MayHear(c, r)'
  <2>1. CASE r.error \in Ambiguous
    BY <2>1 DEF MayHear, Ambiguous, Refusals
  <2>2. CASE r.error \in Refusals /\ (c \in ReadOnlyCalls \/ tool[c].phase = "connecting")
    <3>1. ASSUME c \notin ReadOnlyCalls PROVE NeverRuns(c)'
      <4>1. handler[<<c, 1>>].phase = "none" /\ handler[<<c, 2>>].phase = "none"
        BY <2>2, <3>1 DEF PromiseInv, Attempts, Attempt
      <4>2. MayRun(<<c, 1>>) /\ MayRun(<<c, 2>>)
        BY <4>1 DEF MayRun, Unsent
      <4>3. ran[c] <= 0 + 0 /\ ran[c] \in Nat
        BY <4>2 DEF PromiseInv, RunsCounted, Spent, Types
      <4>4. ran'[c] = 0 /\ handler'[<<c, 1>>].phase = "none"
        BY <4>1, <4>3, HandlersOf DEF CallEnds, CallHandlers
      <4>5. tool'[c].phase = "answered"
        BY <1>3, <1>4
      <4>6. ~InQueue(<<c, 1>>)'
        BY <4>1, HandlersOf DEF PromiseInv, QueuedOnce, InQueue, Unsent, CallEnds, CallHandlers
      <4>7. QED
        BY <4>4, <4>5, <4>6 DEF NeverRuns
    <3>2. QED
      BY <2>2, <3>1 DEF MayHear, Refusals
  <2>3. CASE MayHear(c, r)
    BY <1>6, <2>3, HearLater
  <2>4. QED
    BY <2>1, <2>2, <2>3 DEF Tellable
<1>8. MayHear(c, t.answer)'
  BY <1>3, <1>7
<1>9. c \notin ReadOnlyCalls => t.attempt = 1
  BY <1>1, <1>3 DEF PromiseInv, Attempts
<1>10. t.attempt = 1 => handler'[<<c, 2>>].phase = "none"
  BY <1>1, <1>3, HandlersOf DEF PromiseInv, Attempts, CallEnds
<1>11. QED
  BY <1>3, <1>5, <1>8, <1>9, <1>10, OneTool

LEMMA Finishes ==
    ASSUME PromiseInv, NEW c \in Calls, NEW r \in Response, CallEnds(c), Finish(c, r),
           Tellable(c, r)
    PROVE  PromiseInv'
<1>1. CASE Answer(c, r)
  BY <1>1, Answers
<1>2. CASE MayRetry(c) /\ Retry(c)
  BY <1>2, Retries
<1>3. CASE Answer(c, Failure("delivery_unknown"))
  <2>1. PICK f \in Response : f = Failure("delivery_unknown") /\ f.error \in Ambiguous
    BY FailureIs DEF Ambiguous
  <2>2. QED
    BY <1>3, <2>1, Answers DEF Tellable
<1>4. QED
  BY <1>1, <1>2, <1>3 DEF Finish

LEMMA Throws ==
    ASSUME PromiseInv, NEW c \in Calls, CallEnds(c), NEW connected \in BOOLEAN,
           Throw(c, connected), connected \/ tool[c].phase = "connecting"
    PROVE  PromiseInv'
<1>1. CASE MayRetry(c) /\ Retry(c)
  BY <1>1, Retries
<1>2. CASE Answer(c, Failure("delivery_unknown"))
  <2>1. PICK f \in Response : f = Failure("delivery_unknown") /\ f.error \in Ambiguous
    BY FailureIs DEF Ambiguous
  <2>2. QED
    BY <1>2, <2>1, Answers DEF Tellable
<1>3. CASE /\ Answer(c, Failure("bridge_unavailable"))
           /\ c \in ReadOnlyCalls \/ tool[c].phase = "connecting"
  <2>1. PICK f \in Response : f = Failure("bridge_unavailable") /\ f.error \in Refusals
    BY FailureIs DEF Refusals
  <2>2. QED
    BY <1>3, <2>1, Answers DEF Tellable
<1>4. QED
  BY <1>1, <1>2, <1>3 DEF Throw

LEMMA EndsAlone ==
    ASSUME PromiseInv, NEW c \in Calls, tool[c].phase \in {"connecting", "waiting"},
           UNCHANGED <<sequence, handler, gameSession, session, requests, game, ran>>
    PROVE  CallEnds(c)
BY DEF CallEnds, CallHandlers, PromiseInv, Types, HandlersTrue

LEMMA GoneIs ==
    Idle("gone") \in HandlerRecord /\ Idle("gone").phase = "gone" /\ Idle("gone").response = None
BY DEF Idle, HandlerRecord

LEMMA Receives ==
    ASSUME PromiseInv, NEW c \in Calls, ReceiveResponse(c) PROVE PromiseInv'
<1>1. PICK h \in Handlers : h = Attempt(c) /\ CallOf(h) = c
  <2>1. PICK a \in {1, 2} : Attempt(c) = <<c, a>>
    BY DEF Attempt, PromiseInv, Types, ToolRecord
  <2>2. QED
    BY <2>1, HandlersOf
<1>2. PICK r : r = handler[h].response
  OBVIOUS
<1>3. /\ tool[c].phase = "waiting" /\ handler[h].phase = "responded" /\ Finish(c, r)
      /\ UNCHANGED <<sequence, gameSession, session, requests, game, ran>>
  BY <1>1, <1>2 DEF ReceiveResponse, ledgerVars
<1>4. r \in Response /\ MayHear(c, r)
  <2>1. r # None /\ r \in Response \cup {None}
    BY <1>2, <1>3 DEF PromiseInv, HandlersTrue, Types, HandlerRecord
  <2>2. MayHear(CallOf(h), handler[h].response)
    BY <1>2, <2>1 DEF PromiseInv, HandlersTrue
  <2>3. QED
    BY <1>1, <1>2, <2>1, <2>2
<1>5. PICK u \in HandlerRecord : u = Idle("gone") /\ u.phase = "gone" /\ u.response = None
  BY GoneIs
<1>6. handler' = [x \in Handlers |-> IF x = h THEN u ELSE handler[x]]
  BY <1>1, <1>5 DEF ReceiveResponse, PromiseInv, Types
<1>7. CallEnds(c)
  BY <1>1, <1>3, <1>5, <1>6 DEF CallEnds, CallHandlers, PromiseInv, Types, HandlersTrue, Unsent
<1>8. QED
  BY <1>3, <1>4, <1>7, Finishes DEF Tellable

LEMMA Loses ==
    ASSUME PromiseInv, NEW c \in Calls, LoseConnection(c) \/ ConnectFails(c) PROVE PromiseInv'
<1>1. CallEnds(c)
  BY EndsAlone DEF LoseConnection, ConnectFails, brokerVars, ledgerVars
<1>2. CASE Finish(c, Failure("broker_disconnected"))
  <2>1. PICK f \in Response : f = Failure("broker_disconnected") /\ f.error \in Ambiguous
    BY FailureIs DEF Ambiguous
  <2>2. QED
    BY <1>1, <1>2, <2>1, Finishes DEF Tellable
<1>3. CASE Throw(c, TRUE)
  BY <1>1, <1>3, Throws
<1>4. CASE Throw(c, FALSE) /\ tool[c].phase = "connecting"
  BY <1>1, <1>4, Throws
<1>5. QED
  BY <1>2, <1>3, <1>4 DEF LoseConnection, ConnectFails

LEMMA Cancels ==
    ASSUME PromiseInv, NEW c \in Calls, Cancel(c) PROVE PromiseInv'
<1>1. PICK s \in ToolRecord : s = tool[c]
  BY DEF PromiseInv, Types
<1>2. PICK t : t = [s EXCEPT !.phase = "cancelled"]
  OBVIOUS
<1>3. t \in ToolRecord /\ t.phase = "cancelled" /\ t.answer = s.answer /\ t.attempt = s.attempt
  BY <1>2 DEF ToolRecord
<1>4. tool' = [x \in Calls |-> IF x = c THEN t ELSE tool[x]]
  BY <1>1, <1>2 DEF Cancel, PromiseInv, Types
<1>5. /\ s.phase \in {"connecting", "waiting"}
      /\ UNCHANGED <<sequence, handler, gameSession, session, requests, game, ran>>
  BY <1>1 DEF Cancel, Active, brokerVars, ledgerVars
<1>6. CallMoves(c, t)
  BY <1>1, <1>4, <1>5, Alone
<1>7. QED
  BY <1>1, <1>3, <1>5, <1>6, OneTool DEF PromiseInv, Attempts, Types

LEMMA ToolSteps == ASSUME PromiseInv, NEW c \in Calls, ToolNext(c) PROVE PromiseInv'
BY Starts, Connects, Receives, Loses, Cancels DEF ToolNext

-----------------------------------------------------------------------------
(* The sessions                                                             *)

\* Nothing moves but the broker's sessions.
LEMMA SessionsAlone ==
    ASSUME PromiseInv, UNCHANGED <<tool, sequence, handler, requests, game, ran>>,
           gameSession' \in Generations \cup {None},
           session' \in [Generations -> SessionRecord], OwnEntries'
    PROVE  PromiseInv'
<1>1. Forward
  BY DEF Forward, InQueue, PromiseInv, QueuedOnce
<1>2. KeepsWord /\ QueuedOnce' /\ RunsCounted'
  BY <1>1, ForwardKeeps DEF PromiseInv
<1>3. Types' /\ Attempts'
  BY DEF PromiseInv, Types, Attempts, Attempt
<1>4. ToolsTrue' /\ QueueTrue' /\ LedgerTrue'
  BY <1>2, ToolsKept, QueueKept, LedgerStays DEF PromiseInv
<1>5. HandlersTrue'
  BY <1>2, HandlersKept DEF PromiseInv, HandlersTrue
<1>6. QED
  BY <1>2, <1>3, <1>4, <1>5 DEF PromiseInv

LEMMA Registers == ASSUME PromiseInv, NEW g \in Generations, Register(g) PROVE PromiseInv'
<1>1. ASSUME NEW k \in Generations
      PROVE  session'[k] \in SessionRecord /\ session'[k].pending = session[k].pending
  BY DEF Register, PromiseInv, Types, SessionRecord
<1>2. session' \in [Generations -> SessionRecord]
  <2>1. session' = [k \in Generations |-> session'[k]]
    BY DEF Register
  <2>2. QED
    BY <1>1, <2>1
<1>3. OwnEntries'
  BY <1>1, <1>2, PipesChange DEF PromiseInv
<1>4. gameSession' \in Generations /\ UNCHANGED <<tool, sequence, handler, requests, game, ran>>
  BY DEF Register, ledgerVars
<1>5. QED
  BY <1>2, <1>3, <1>4, SessionsAlone

LEMMA FailsToGreet == ASSUME PromiseInv, NEW g \in Generations, GreetFails(g) PROVE PromiseInv'
BY DisconnectedIs, SessionsAlone DEF GreetFails, ledgerVars, PromiseInv, Types

\* Neither a call nor the ledger moves, and no request is run.
PathMoves ==
    /\ UNCHANGED <<tool, sequence, ran>>
    /\ gameSession' \in Generations \cup {None}
    /\ session' \in [Generations -> SessionRecord] /\ OwnEntries'
    /\ game' \in GameRecord /\ (game'.link # "down" => game'.generation \in Generations)
    /\ handler' \in [Handlers -> HandlerRecord]
    /\ \A h \in Handlers :
          /\ handler'[h].phase = "none" <=> handler[h].phase = "none"
          /\ handler[h].phase \notin Unsent => handler'[h].phase \notin Unsent
          /\ InQueue(h)' =>
                InQueue(h) \/ (handler[h].phase = "added" /\ handler'[h].phase \notin Unsent)
    /\ \A m, n \in DOMAIN game'.inbound : game'.inbound[m] = game'.inbound[n] => m = n

LEMMA PathKeeps ==
    ASSUME PromiseInv, PathMoves
    PROVE  /\ KeepsWord /\ QueuedOnce' /\ RunsCounted'
           /\ Types' /\ Attempts' /\ OwnEntries' /\ ToolsTrue'
<1>1. Forward
  BY HandlersOf DEF Forward, PathMoves
<1>2. KeepsWord /\ QueuedOnce' /\ RunsCounted'
  BY <1>1, ForwardKeeps DEF PromiseInv
<1>3. Types'
  BY DEF PathMoves, PromiseInv, Types
<1>4. Attempts'
  <2>1. ASSUME NEW c \in Calls, NEW a \in {1, 2}, handler[<<c, a>>].phase = "none"
        PROVE  handler'[<<c, a>>].phase = "none"
    BY <2>1, HandlersOf DEF PathMoves
  <2>2. \A c \in Calls : tool[c].attempt \in {1, 2}
    BY DEF PromiseInv, Types, ToolRecord
  <2>3. QED
    BY <2>1, <2>2 DEF PromiseInv, Attempts, Attempt, PathMoves
<1>5. ToolsTrue'
  BY <1>2, ToolsKept DEF PromiseInv, PathMoves
<1>6. QED
  BY <1>2, <1>3, <1>4, <1>5 DEF PathMoves

LEMMA TailIs ==
    ASSUME NEW S, NEW q \in Seq(S), q # <<>>
    PROVE  /\ Tail(q) \in Seq(S) /\ 1 \in DOMAIN q /\ Head(q) = q[1] /\ q[1] \in S
           /\ \A n \in DOMAIN Tail(q) : n \in Nat /\ n + 1 \in DOMAIN q /\ Tail(q)[n] = q[n + 1]
OBVIOUS

LEMMA AppendIs ==
    ASSUME NEW S, NEW q \in Seq(S), NEW e \in S
    PROVE  /\ Append(q, e) \in Seq(S)
           /\ \A n \in DOMAIN Append(q, e) :
                 \/ n \in DOMAIN q /\ Append(q, e)[n] = q[n]
                 \/ n = Len(q) + 1 /\ Append(q, e)[n] = e
OBVIOUS

LEMMA CompleteIs ==
    ASSUME Types, NEW hs, NEW response \in Response, handler' = Complete(hs, response)
    PROVE  /\ handler' \in [Handlers -> HandlerRecord]
           /\ \A h \in Handlers :
                 /\ handler'[h].phase = handler[h].phase
                 /\ \/ handler'[h].response = handler[h].response
                    \/ h \in hs /\ handler'[h].response = response
                 /\ handler[h].response # None => handler'[h].response # None
<1>1. ASSUME NEW h \in Handlers
      PROVE  /\ handler'[h] \in HandlerRecord
             /\ handler'[h].phase = handler[h].phase
             /\ \/ handler'[h].response = handler[h].response
                \/ h \in hs /\ handler'[h].response = response
             /\ handler[h].response # None => handler'[h].response # None
  <2>1. PICK s \in HandlerRecord : s = handler[h]
    BY DEF Types
  <2>2. PICK t : t = [s EXCEPT !.response = response]
    OBVIOUS
  <2>3. t \in HandlerRecord /\ t.phase = s.phase /\ t.response = response
    BY <2>2 DEF HandlerRecord
  <2>4. handler'[h] = IF h \in hs /\ s.response = None THEN t ELSE s
    BY <2>1, <2>2 DEF Complete
  <2>5. QED
    BY <2>1, <2>3, <2>4
<1>2. handler' \in [Handlers -> HandlerRecord]
  <2>1. handler' = [h \in Handlers |-> handler'[h]]
    BY DEF Complete
  <2>2. QED
    BY <1>1, <2>1
<1>3. QED
  BY <1>1, <1>2

\* The game's steps that leave the broker's handlers alone.
LEMMA GameAlone ==
    ASSUME PromiseInv, UNCHANGED <<tool, sequence, handler, gameSession, requests, ran>>,
           session' \in [Generations -> SessionRecord], OwnEntries',
           game' \in GameRecord, game'.link # "down" => game'.generation \in Generations,
           game'.inbound \in {game.inbound, <<>>},
           \/ game'.outbound \in {game.outbound, <<>>}
           \/ game.outbound # <<>> /\ game'.outbound = Tail(game.outbound)
    PROVE  PromiseInv'
<1>1. PathMoves
  <2>1. \A h \in Handlers : InQueue(h)' => InQueue(h)
    BY DEF InQueue
  <2>2. \A m, n \in DOMAIN game'.inbound : game'.inbound[m] = game'.inbound[n] => m = n
    BY DEF PromiseInv, QueuedOnce
  <2>3. QED
    BY <2>1, <2>2 DEF PathMoves, PromiseInv, Types
<1>2. KeepsWord
  BY <1>1, PathKeeps
<1>3. HandlersTrue'
  BY <1>2, HandlersKept DEF PromiseInv, HandlersTrue
<1>4. LedgerTrue'
  BY <1>2, LedgerStays DEF PromiseInv
<1>5. QueueTrue'
  <2>1. ASSUME NEW n \in DOMAIN game'.outbound
        PROVE  \E m \in DOMAIN game.outbound : game'.outbound[n] = game.outbound[m]
    <3>1. CASE game.outbound # <<>> /\ game'.outbound = Tail(game.outbound)
      BY <2>1, <3>1, TailIs DEF PromiseInv, Types, GameRecord
    <3>2. CASE game'.outbound \in {game.outbound, <<>>}
      BY <2>1, <3>2
    <3>3. QED
      BY <3>1, <3>2
  <2>2. QED
    BY <1>2, <2>1, QueueKept DEF PromiseInv
<1>6. QED
  BY <1>1, <1>3, <1>4, <1>5, PathKeeps DEF PromiseInv

LEMMA Greets == ASSUME PromiseInv, NEW g \in Generations, Greet(g) PROVE PromiseInv'
<1>1. game' \in GameRecord /\ game'.generation \in Generations
      /\ game'.inbound = game.inbound /\ game'.outbound = game.outbound
  BY DEF Greet, PromiseInv, Types, GameRecord
<1>2. session' \in [Generations -> SessionRecord]
      /\ \A k \in Generations : session'[k].pending = session[k].pending
  BY DEF Greet, PromiseInv, Types, SessionRecord
<1>3. UNCHANGED <<tool, sequence, handler, gameSession, requests, ran>>
  BY DEF Greet, ledgerVars
<1>4. QED
  BY <1>1, <1>2, <1>3, GameAlone, PipesChange DEF PromiseInv

LEMMA Dials == ASSUME PromiseInv, Dial PROVE PromiseInv'
<1>1. game' \in GameRecord /\ game'.generation \in Generations
      /\ game'.inbound = game.inbound /\ game'.outbound = game.outbound
  <2>1. PICK n : n = game.generation + 1
    OBVIOUS
  <2>2. n \in 0 .. MaxGeneration /\ n \in Generations
    BY <2>1, Constants DEF Dial, PromiseInv, Types, GameRecord, Generations
  <2>3. game' = [game EXCEPT !.link = "hello", !.generation = n]
    BY <2>1 DEF Dial
  <2>4. QED
    BY <2>2, <2>3 DEF PromiseInv, Types, GameRecord
<1>2. UNCHANGED <<tool, sequence, handler, gameSession, session, requests, ran>>
  BY DEF Dial, brokerVars, ledgerVars
<1>3. QED
  BY <1>1, <1>2, GameAlone, SessionsStay DEF PromiseInv

LEMMA Hangs ==
    ASSUME PromiseInv, Drop \/ WriteResponseFails \/ GameCrash PROVE PromiseInv'
<1>1. UNCHANGED <<tool, sequence, handler, gameSession, session, requests, ran>>
  BY DEF Drop, WriteResponseFails, GameCrash, brokerVars, ledgerVars
<1>2. CASE Drop
  BY <1>1, <1>2, GameAlone, SessionsStay DEF Drop, Hangup, PromiseInv, Types, GameRecord
<1>3. CASE WriteResponseFails
  <2>1. Tail(game.outbound) \in Seq(Queued)
    BY <1>3, TailIs DEF WriteResponseFails, PromiseInv, Types, GameRecord
  <2>2. game' \in GameRecord /\ game'.link = "down" /\ game'.inbound = game.inbound
        /\ game'.outbound = Tail(game.outbound) /\ game.outbound # <<>>
    BY <1>3, <2>1 DEF WriteResponseFails, Hangup, PromiseInv, Types, GameRecord
  <2>3. QED
    BY <1>1, <2>2, GameAlone, SessionsStay DEF PromiseInv
<1>4. CASE GameCrash
  <2>1. game' \in GameRecord /\ game'.link = "down" /\ game'.inbound = <<>>
        /\ game'.outbound = <<>>
    <3>1. <<>> \in Seq(Handlers) /\ <<>> \in Seq(Queued)
      OBVIOUS
    <3>2. PICK q : q = <<>> /\ q \in Seq(Handlers) /\ q \in Seq(Queued)
      BY <3>1
    <3>3. PICK e : e = [game EXCEPT !.link = "down"]
      OBVIOUS
    <3>4. e \in GameRecord /\ e.link = "down"
      BY <3>3 DEF PromiseInv, Types, GameRecord
    <3>5. game' = [e EXCEPT !.inbound = q, !.outbound = q]
      BY <1>4, <3>2, <3>3 DEF GameCrash, Hangup
    <3>6. QED
      BY <3>2, <3>4, <3>5 DEF GameRecord
  <2>2. QED
    BY <1>1, <2>1, GameAlone, SessionsStay DEF PromiseInv
<1>5. QED
  BY <1>2, <1>3, <1>4

LEMMA Ticks == ASSUME PromiseInv, LedgerClock PROVE PromiseInv'
BY SessionsAlone, SessionsStay DEF LedgerClock, Ledger!Tick, PromiseInv, Types

LEMMA Stutters == ASSUME PromiseInv, UNCHANGED vars PROVE PromiseInv'
BY SessionsAlone, SessionsStay DEF vars, brokerVars, ledgerVars, PromiseInv, Types

\* The session's reader completes requests.
LEMMA Completes ==
    ASSUME PromiseInv, NEW hs, NEW response \in Response, handler' = Complete(hs, response),
           \A h \in Handlers \cap hs :
               response.error \in Ambiguous \/ MayHear(CallOf(h), response),
           UNCHANGED <<tool, sequence, requests, ran>>,
           gameSession' \in Generations \cup {None},
           session' \in [Generations -> SessionRecord], OwnEntries',
           game' \in GameRecord, game'.link # "down" => game'.generation \in Generations,
           game'.inbound = game.inbound,
           \/ game'.outbound = game.outbound
           \/ game.outbound # <<>> /\ game'.outbound = Tail(game.outbound)
    PROVE  PromiseInv'
<1>1. PathMoves
  <2>1. \A h \in Handlers : InQueue(h)' => InQueue(h)
    BY DEF InQueue
  <2>2. \A m, n \in DOMAIN game'.inbound : game'.inbound[m] = game'.inbound[n] => m = n
    BY DEF PromiseInv, QueuedOnce
  <2>3. QED
    BY <2>1, <2>2, CompleteIs DEF PathMoves, PromiseInv
<1>2. KeepsWord
  BY <1>1, PathKeeps
<1>3. HandlersTrue'
  <2>1. ASSUME NEW h \in Handlers
        PROVE  /\ \/ handler'[h].response \in {None, handler[h].response}
                  \/ MayHear(CallOf(h), handler[h].response)'
               /\ handler'[h].phase = "responded" => handler'[h].response # None
    <3>1. CASE handler'[h].response = handler[h].response
      BY <3>1, CompleteIs DEF PromiseInv, HandlersTrue
    <3>2. CASE h \in hs /\ handler'[h].response = response
      <4>1. PICK c \in Calls : c = CallOf(h)
        BY HandlerIs
      <4>2. MayHear(c, response)'
        <5>1. CASE response.error \in Ambiguous
          BY <5>1 DEF MayHear, Ambiguous, Refusals
        <5>2. CASE MayHear(c, response)
          BY <1>2, <5>2, HearLater
        <5>3. QED
          BY <3>2, <4>1, <5>1, <5>2
      <4>3. MayHear(CallOf(h), handler[h].response)'
        BY <3>2, <4>1, <4>2
      <4>4. response # None
        BY NoneAssumption
      <4>5. QED
        BY <3>2, <4>3, <4>4
    <3>3. QED
      BY <3>1, <3>2, CompleteIs DEF PromiseInv
  <2>2. QED
    BY <1>2, <2>1, HandlersKept DEF PromiseInv
<1>4. LedgerTrue'
  BY <1>2, LedgerStays DEF PromiseInv
<1>5. QueueTrue'
  <2>1. ASSUME NEW n \in DOMAIN game'.outbound
        PROVE  \E m \in DOMAIN game.outbound : game'.outbound[n] = game.outbound[m]
    <3>1. CASE game.outbound # <<>> /\ game'.outbound = Tail(game.outbound)
      BY <2>1, <3>1, TailIs DEF PromiseInv, Types, GameRecord
    <3>2. CASE game'.outbound = game.outbound
      BY <2>1, <3>2
    <3>3. QED
      BY <3>1, <3>2
  <2>2. QED
    BY <1>2, <2>1, QueueKept DEF PromiseInv
<1>6. QED
  BY <1>1, <1>3, <1>4, <1>5, PathKeeps DEF PromiseInv

LEMMA WritesResponse == ASSUME UniqueIds, PromiseInv, WriteResponse PROVE PromiseInv'
<1>1. PICK q \in Seq(Queued) : q = game.outbound /\ q # <<>>
  BY DEF WriteResponse, PromiseInv, Types, GameRecord
<1>2. PICK e \in Queued : e = Head(q) /\ e = q[1] /\ 1 \in DOMAIN q
  BY <1>1, TailIs
<1>3. PICK g \in Generations : g = game.generation
  BY DEF WriteResponse, PromiseInv, Types
<1>4. PICK id \in RequestIds : id = e.id
  BY DEF Queued
<1>5. PICK r \in Response : r = e.response
  BY DEF Queued
<1>6. /\ handler' = Complete({session[g].pending[id]}, r)
      /\ session' = [session EXCEPT ![g].pending[id] = None]
      /\ game' = [game EXCEPT !.outbound = Tail(q)]
      /\ UNCHANGED <<tool, sequence, gameSession, requests, ran>>
  BY <1>1, <1>2, <1>3, <1>4, <1>5 DEF WriteResponse, ledgerVars
<1>7. ASSUME NEW h \in Handlers, h = session[g].pending[id] PROVE MayHear(CallOf(h), r)
  <2>1. Id(h) = id
    <3>1. h # None
      BY NoneAssumption DEF Handlers
    <3>2. QED
      BY <1>7, <3>1 DEF PromiseInv, OwnEntries
  <2>2. PICK c \in Calls : c = CallOf(h) /\ IdOf[c] = id
    BY <2>1, HandlerIs DEF Id
  <2>3. MayHear(c, r)
    BY <1>1, <1>2, <1>4, <1>5, <2>2 DEF PromiseInv, QueueTrue
  <2>4. QED
    BY <2>2, <2>3
<1>8. session' \in [Generations -> SessionRecord] /\ OwnEntries'
  <2>1. ASSUME NEW k \in Generations
        PROVE  /\ session'[k] \in SessionRecord
               /\ \A i \in RequestIds : session'[k].pending[i] \in {None, session[k].pending[i]}
    BY <1>6 DEF PromiseInv, Types, SessionRecord
  <2>2. session' \in [Generations -> SessionRecord]
    <3>1. session' = [k \in Generations |-> session'[k]]
      BY <1>6 DEF PromiseInv, Types
    <3>2. QED
      BY <2>1, <3>1
  <2>3. OwnEntries'
    BY <2>1 DEF PromiseInv, OwnEntries
  <2>4. QED
    BY <2>2, <2>3
<1>9. /\ game' \in GameRecord /\ game'.inbound = game.inbound /\ game'.outbound = Tail(q)
      /\ game'.generation \in Generations
  <2>1. Tail(q) \in Seq(Queued)
    BY <1>1, TailIs
  <2>2. QED
    BY <1>3, <1>6, <2>1 DEF PromiseInv, Types, GameRecord
<1>10. QED
  <2>1. PICK hs : hs = {session[g].pending[id]}
    OBVIOUS
  <2>2. handler' = Complete(hs, r)
    BY <1>6, <2>1
  <2>3. \A h \in Handlers \cap hs : MayHear(CallOf(h), r)
    BY <1>7, <2>1
  <2>4. gameSession' \in Generations \cup {None}
    BY <1>6 DEF PromiseInv, Types
  <2>5. game.outbound # <<>> /\ game'.outbound = Tail(game.outbound)
    BY <1>1, <1>9
  <2>6. QED
    BY <1>6, <1>8, <1>9, <2>2, <2>3, <2>4, <2>5, Completes

LEMMA NothingPending ==
    LET e == [pipe |-> "disposed", reader |-> "ended", pending |-> [id \in RequestIds |-> None]]
    IN  e \in SessionRecord /\ \A id \in RequestIds : e.pending[id] = None
BY DEF SessionRecord

LEMMA Ends == ASSUME PromiseInv, NEW g \in Generations, SessionEnd(g) PROVE PromiseInv'
<1>1. PICK e \in SessionRecord :
          /\ e = [pipe |-> "disposed", reader |-> "ended",
                  pending |-> [id \in RequestIds |-> None]]
          /\ \A id \in RequestIds : e.pending[id] = None
  BY NothingPending
<1>2. session' = [session EXCEPT ![g] = e]
  BY <1>1 DEF SessionEnd
<1>3. session' \in [Generations -> SessionRecord] /\ OwnEntries'
  BY <1>1, <1>2 DEF PromiseInv, Types, OwnEntries
<1>4. PICK f \in Response : f = Failure("delivery_unknown") /\ f.error \in Ambiguous
  BY FailureIs DEF Ambiguous
<1>5. PICK hs : handler' = Complete(hs, f)
  BY <1>4 DEF SessionEnd
<1>6. /\ UNCHANGED <<tool, sequence, requests, game, ran>>
      /\ gameSession' \in Generations \cup {None}
  BY DEF SessionEnd, ledgerVars, PromiseInv, Types
<1>7. QED
  BY <1>3, <1>4, <1>5, <1>6, Completes DEF PromiseInv, Types

LEMMA BrokerCrashes == ASSUME PromiseInv, BrokerCrash PROVE PromiseInv'
<1>1. PICK e \in SessionRecord :
          /\ e = [pipe |-> "disposed", reader |-> "ended",
                  pending |-> [id \in RequestIds |-> None]]
          /\ \A id \in RequestIds : e.pending[id] = None
  BY NothingPending
<1>2. session' = [g \in Generations |-> IF g > game.generation THEN session[g] ELSE e]
  BY <1>1 DEF BrokerCrash
<1>3. session' \in [Generations -> SessionRecord] /\ OwnEntries'
  BY <1>1, <1>2 DEF PromiseInv, Types, OwnEntries
<1>4. PICK u \in HandlerRecord : u = Idle("gone") /\ u.phase = "gone" /\ u.response = None
  BY GoneIs
<1>5. handler' = [h \in Handlers |-> IF handler[h].phase = "none" THEN handler[h] ELSE u]
  BY <1>4 DEF BrokerCrash
<1>6. UNCHANGED <<tool, sequence, game, ran>> /\ gameSession' = None
      /\ requests' = [x \in {} |-> x]
  BY DEF BrokerCrash, Ledger!Restart, Ledger!Empty
<1>7. PathMoves
  <2>1. \A h \in Handlers : InQueue(h)' <=> InQueue(h)
    BY <1>6 DEF InQueue
  <2>2. QED
    BY <1>3, <1>4, <1>5, <1>6, <2>1 DEF PathMoves, PromiseInv, Types, QueuedOnce, Unsent
<1>8. KeepsWord
  BY <1>7, PathKeeps
<1>9. HandlersTrue'
  BY <1>4, <1>5, <1>8, HandlersKept DEF PromiseInv, HandlersTrue
<1>10. LedgerTrue'
  BY <1>6 DEF LedgerTrue
<1>11. QueueTrue'
  BY <1>6, <1>8, QueueKept DEF PromiseInv
<1>12. QED
  BY <1>7, <1>9, <1>10, <1>11, PathKeeps DEF PromiseInv

\* A response queued for the game's I/O thread, if there is room.
LEMMA EnqueuedIs ==
    ASSUME NEW S, NEW q \in Seq(S), NEW e \in S
    PROVE  /\ Enqueued(q, e) \in Seq(S)
           /\ \A n \in DOMAIN Enqueued(q, e) :
                 \/ n \in DOMAIN q /\ Enqueued(q, e)[n] = q[n]
                 \/ Enqueued(q, e)[n] = e
BY AppendIs DEF Enqueued

LEMMA ReplyIs ==
    ASSUME NEW h \in Handlers, NEW r \in Response
    PROVE  Reply(h, r) \in Queued /\ Reply(h, r).id = Id(h) /\ Reply(h, r).response = r
BY HandlerIs DEF Reply, Queued

\* The game reads a request: its handler has written it.
LEMMA Reads ==
    ASSUME UniqueIds, PromiseInv, NEW h \in Handlers, ReadTooEarly(h) \/ ReadRequest(h)
    PROVE  PromiseInv'
<1>1. /\ handler[h].phase = "added" /\ Advance(h, "written")
      /\ UNCHANGED <<tool, sequence, gameSession, session, requests, ran>>
  BY DEF ReadTooEarly, ReadRequest, Reading, ledgerVars
<1>2. PICK s \in HandlerRecord : s = handler[h]
  BY DEF PromiseInv, Types
<1>3. PICK t : t = [s EXCEPT !.phase = "written"]
  OBVIOUS
<1>4. t \in HandlerRecord /\ t.phase = "written" /\ t.response = s.response
  BY <1>3 DEF HandlerRecord, Working
<1>5. handler' = [x \in Handlers |-> IF x = h THEN t ELSE handler[x]]
  BY <1>1, <1>2, <1>3 DEF Advance, PromiseInv, Types
<1>6. ~InQueue(h)
  BY <1>1 DEF PromiseInv, QueuedOnce, Unsent
<1>7. PICK in \in Seq(Handlers), out \in Seq(Queued) :
          in = game.inbound /\ out = game.outbound
  BY DEF PromiseInv, Types, GameRecord
<1>8. PICK e \in Queued :
          e = Reply(h, Failure("busy")) /\ e.id = Id(h) /\ e.response = Failure("busy")
  BY ReplyIs, FailureIs DEF Refusals
<1>9. PICK more, out2 : more = Append(in, h) /\ out2 = Enqueued(out, e)
  OBVIOUS
<1>10. /\ more \in Seq(Handlers) /\ out2 \in Seq(Queued)
       /\ \A n \in DOMAIN more : \/ n \in DOMAIN in /\ more[n] = in[n]
                                 \/ n = Len(in) + 1 /\ more[n] = h
       /\ \A n \in DOMAIN out2 : (n \in DOMAIN out /\ out2[n] = out[n]) \/ out2[n] = e
  BY <1>9, AppendIs, EnqueuedIs
<1>11. /\ game' \in GameRecord /\ (game'.link # "down" => game'.generation \in Generations)
       /\ \/ game'.inbound = in /\ game'.outbound \in {out, out2}
          \/ game'.inbound = more /\ game'.outbound = out
  <2>1. CASE game' = Hangup
    BY <1>7, <2>1 DEF Hangup, PromiseInv, Types, GameRecord
  <2>2. CASE game' = [game EXCEPT !.inbound = more]
    BY <1>7, <1>10, <2>2 DEF PromiseInv, Types, GameRecord
  <2>3. CASE game' = [game EXCEPT !.outbound = out2]
    BY <1>7, <1>10, <2>3 DEF PromiseInv, Types, GameRecord
  <2>4. QED
    BY <1>7, <1>8, <1>9, <2>1, <2>2, <2>3 DEF ReadTooEarly, ReadRequest
<1>12. ASSUME NEW x \in Handlers, InQueue(x)' PROVE InQueue(x) \/ x = h
  BY <1>7, <1>10, <1>11, <1>12 DEF InQueue
<1>13. \A m, n \in DOMAIN game'.inbound : game'.inbound[m] = game'.inbound[n] => m = n
  BY <1>6, <1>7, <1>10, <1>11 DEF PromiseInv, QueuedOnce, InQueue
<1>14. PathMoves
  BY <1>1, <1>2, <1>4, <1>5, <1>11, <1>12, <1>13, SessionsStay
     DEF PathMoves, PromiseInv, Types, Unsent
<1>15. KeepsWord
  BY <1>14, PathKeeps
<1>16. HandlersTrue'
  BY <1>2, <1>4, <1>5, <1>15, HandlersKept DEF PromiseInv, HandlersTrue
<1>17. LedgerTrue'
  BY <1>1, <1>15, LedgerStays DEF PromiseInv
<1>18. QueueTrue'
  <2>1. ASSUME game'.inbound = in, NEW c \in Calls, IdOf[c] = Id(h)
        PROVE  MayHear(c, Failure("busy"))'
    <3>1. c = CallOf(h)
      BY <2>1, HandlerIs DEF UniqueIds, Id
    <3>2. ASSUME c \notin ReadOnlyCalls PROVE NeverRuns(c)'
      <4>1. h = <<c, 1>> /\ ran[c] = 0
        BY <1>1, <3>1, <3>2, UnsentHasNotRun DEF PromiseInv, Unsent
      <4>2. ~InQueue(h)'
        BY <1>6, <1>7, <2>1 DEF InQueue
      <4>3. QED
        BY <1>1, <1>4, <1>5, <4>1, <4>2 DEF NeverRuns, Unsent
    <3>3. QED
      BY <3>2, FailureIs DEF MayHear, Refusals
  <2>2. ASSUME NEW n \in DOMAIN game'.outbound
        PROVE  \/ \E m \in DOMAIN game.outbound : game'.outbound[n] = game.outbound[m]
               \/ \A c \in Calls : IdOf[c] = game'.outbound[n].id
                                       => MayHear(c, game.outbound[n].response)'
    <3>1. CASE game'.outbound = out
      BY <1>7, <2>2, <3>1
    <3>2. CASE game'.inbound = in /\ game'.outbound = out2 /\ game'.outbound[n] = e
      <4>1. ASSUME NEW c \in Calls, IdOf[c] = game'.outbound[n].id
            PROVE  MayHear(c, game.outbound[n].response)'
        <5>1. game'.outbound[n].response = Failure("busy") /\ IdOf[c] = Id(h)
          BY <1>8, <3>2, <4>1
        <5>2. PICK r : r = Failure("busy")
          OBVIOUS
        <5>3. MayHear(c, r)'
          BY <2>1, <3>2, <5>1, <5>2
        <5>4. QED
          BY <5>1, <5>2, <5>3
      <4>2. QED
        BY <4>1
    <3>3. QED
      BY <1>7, <1>10, <1>11, <2>2, <3>1, <3>2
  <2>3. QED
    BY <1>15, <2>2, QueueKept DEF PromiseInv
<1>19. QED
  BY <1>14, <1>16, <1>17, <1>18, PathKeeps DEF PromiseInv

-----------------------------------------------------------------------------
(* The game runs a request                                                  *)

\* What Execute does: the oldest request h, of call c, leaves the queue.
Runs(h, c) ==
    /\ c = CallOf(h) /\ InQueue(h) /\ handler[h].phase \notin Unsent
    /\ ran' = [ran EXCEPT ![c] = @ + 1]
    /\ \A x \in Handlers : InQueue(x)' => InQueue(x) /\ x # h
    /\ \A m, n \in DOMAIN game'.inbound : game'.inbound[m] = game'.inbound[n] => m = n
    /\ game' \in GameRecord /\ (game'.link # "down" => game'.generation \in Generations)
    /\ \A n \in DOMAIN game'.outbound :
          \/ \E m \in DOMAIN game.outbound : game'.outbound[n] = game.outbound[m]
          \/ /\ game'.outbound[n].id = Id(h)
             /\ game'.outbound[n].response = Success(c)
    /\ UNCHANGED <<tool, sequence, handler, gameSession, session, requests>>

LEMMA ExecuteRuns ==
    ASSUME PromiseInv, Execute
    PROVE  \E h \in Handlers : \E c \in Calls : h = Head(game.inbound) /\ Runs(h, c)
<1>1. PICK in \in Seq(Handlers), out \in Seq(Queued) :
          in = game.inbound /\ out = game.outbound
  BY DEF PromiseInv, Types, GameRecord
<1>2. PICK h \in Handlers : h = Head(in) /\ h = in[1] /\ 1 \in DOMAIN in
  BY <1>1, TailIs DEF Execute
<1>3. PICK c \in Calls : c = CallOf(h)
  BY HandlerIs
<1>4. PICK e \in Queued : e = Reply(h, Success(c)) /\ e.id = Id(h) /\ e.response = Success(c)
  BY ReplyIs, SuccessIs
<1>5. PICK rest, out2 : rest = Tail(in) /\ out2 = Enqueued(out, e)
  OBVIOUS
<1>6. /\ rest \in Seq(Handlers) /\ out2 \in Seq(Queued)
      /\ \A n \in DOMAIN rest : n \in Nat /\ n + 1 \in DOMAIN in /\ rest[n] = in[n + 1]
      /\ \A n \in DOMAIN out2 : (n \in DOMAIN out /\ out2[n] = out[n]) \/ out2[n] = e
  <2>1. in # <<>>
    BY <1>1 DEF Execute
  <2>2. /\ rest \in Seq(Handlers)
        /\ \A n \in DOMAIN rest : n \in Nat /\ n + 1 \in DOMAIN in /\ rest[n] = in[n + 1]
    BY <1>5, <2>1, TailIs
  <2>3. /\ out2 \in Seq(Queued)
        /\ \A n \in DOMAIN out2 : (n \in DOMAIN out /\ out2[n] = out[n]) \/ out2[n] = e
    BY <1>5, EnqueuedIs
  <2>4. QED
    BY <2>2, <2>3
<1>7. game' = [game EXCEPT !.inbound = rest, !.outbound = out2]
  BY <1>1, <1>2, <1>3, <1>4, <1>5 DEF Execute
<1>8. game' \in GameRecord /\ game'.inbound = rest /\ game'.outbound = out2
      /\ (game'.link # "down" => game'.generation \in Generations)
  BY <1>6, <1>7 DEF PromiseInv, Types, GameRecord
<1>9. InQueue(h) /\ handler[h].phase \notin Unsent
  BY <1>1, <1>2 DEF InQueue, PromiseInv, QueuedOnce
<1>10. \A m, n \in DOMAIN in : in[m] = in[n] => m = n
  BY <1>1 DEF PromiseInv, QueuedOnce
<1>11. \A x \in Handlers : InQueue(x)' => InQueue(x) /\ x # h
  <2>1. ASSUME NEW x \in Handlers, NEW n \in DOMAIN rest, rest[n] = x PROVE InQueue(x) /\ x # h
    <3>1. n + 1 \in DOMAIN in /\ in[n + 1] = x /\ n \in DOMAIN rest /\ n + 1 # 1
      BY <1>6, <2>1
    <3>2. QED
      BY <1>1, <1>2, <1>10, <3>1 DEF InQueue
  <2>2. QED
    BY <1>8, <2>1 DEF InQueue
<1>12. \A m, n \in DOMAIN game'.inbound : game'.inbound[m] = game'.inbound[n] => m = n
  <2>1. ASSUME NEW m \in DOMAIN rest, NEW n \in DOMAIN rest, rest[m] = rest[n] PROVE m = n
    <3>1. m \in Nat /\ n \in Nat /\ m + 1 = n + 1
      BY <1>6, <1>10, <2>1
    <3>2. QED
      BY <3>1
  <2>2. QED
    BY <1>8, <2>1
<1>13. ran' = [ran EXCEPT ![c] = @ + 1]
       /\ UNCHANGED <<tool, sequence, handler, gameSession, session, requests>>
  BY <1>1, <1>2, <1>3 DEF Execute, brokerVars, ledgerVars
<1>14. QED
  <2>1. \A n \in DOMAIN game'.outbound :
          \/ \E m \in DOMAIN game.outbound : game'.outbound[n] = game.outbound[m]
          \/ game'.outbound[n].id = Id(h) /\ game'.outbound[n].response = Success(c)
    BY <1>1, <1>4, <1>6, <1>8
  <2>2. Runs(h, c)
    BY <1>3, <1>8, <1>9, <1>11, <1>12, <1>13, <2>1 DEF Runs
  <2>3. QED
    BY <1>1, <1>2, <2>2

LEMMA RunsKeep ==
    ASSUME UniqueIds, PromiseInv, NEW h \in Handlers, NEW c \in Calls, Runs(h, c)
    PROVE  PromiseInv'
<1>1. \A d \in Calls : /\ ran[d] \in Nat
                       /\ ran'[d] = IF d = c THEN ran[d] + 1 ELSE ran[d]
  BY DEF Runs, PromiseInv, Types
<1>2. \A x \in Handlers : handler'[x] = handler[x] /\ (InQueue(x)' => InQueue(x))
  BY DEF Runs
<1>3. KeepsWord
  <2>1. ASSUME NEW d \in Calls, d \notin ReadOnlyCalls, NeverRuns(d) PROVE NeverRuns(d)'
    <3>1. d # c
      <4>1. SUFFICES ASSUME d = c PROVE FALSE
        OBVIOUS
      <4>2. ~InQueue(<<c, 1>>)
        BY <2>1, <4>1 DEF NeverRuns
      <4>3. ~InQueue(<<c, 2>>)
        <5>1. handler[<<c, 2>>].phase = "none"
          BY <2>1, <4>1 DEF PromiseInv, Attempts, Types, ToolRecord
        <5>2. QED
          BY <5>1, HandlersOf DEF PromiseInv, QueuedOnce, Unsent
      <4>4. h = <<c, 1>> \/ h = <<c, 2>>
        BY HandlerIs DEF Runs
      <4>5. QED
        BY <4>2, <4>3, <4>4 DEF Runs
    <3>2. ran'[d] = 0 /\ ~InQueue(<<d, 1>>)'
      BY <1>1, <1>2, <2>1, <3>1, HandlersOf DEF NeverRuns
    <3>3. UNCHANGED <<handler, tool>>
      BY DEF Runs
    <3>4. QED
      BY <2>1, <3>2, <3>3 DEF NeverRuns
  <2>2. QED
    BY <1>1, <2>1 DEF KeepsWord
<1>4. QueuedOnce'
  <2>1. \A x \in Handlers : InQueue(x)' => handler'[x].phase \notin Unsent
    BY <1>2 DEF PromiseInv, QueuedOnce
  <2>2. QED
    BY <2>1 DEF QueuedOnce, Runs, Unsent
<1>5. RunsCounted'
  <2>1. ASSUME NEW x \in Handlers
        PROVE  /\ Spent(x) \in Nat /\ Spent(x)' \in Nat /\ Spent(x) <= Spent(x)'
               /\ x = h => Spent(x) + 1 = Spent(x)'
    <3>1. MayRun(x)' => MayRun(x)
      BY <1>2 DEF MayRun, Unsent
    <3>2. x = h => MayRun(x) /\ ~MayRun(x)'
      BY DEF Runs, MayRun, Unsent
    <3>3. QED
      BY <3>1, <3>2 DEF Spent
  <2>2. ASSUME NEW d \in Calls PROVE ran'[d] <= Spent(<<d, 1>>)' + Spent(<<d, 2>>)'
    <3>1. PICK i \in Nat, j \in Nat, k \in Nat, l \in Nat :
              /\ i = Spent(<<d, 1>>) /\ j = Spent(<<d, 2>>)
              /\ k = Spent(<<d, 1>>)' /\ l = Spent(<<d, 2>>)'
      BY <2>1, HandlersOf
    <3>2. i <= k /\ j <= l /\ ran[d] <= i + j
      BY <2>1, <3>1, HandlersOf DEF PromiseInv, RunsCounted
    <3>3. d = c => (h = <<d, 1>> \/ h = <<d, 2>>)
      BY HandlerIs DEF Runs
    <3>4. d = c => (i + 1 = k \/ j + 1 = l)
      BY <2>1, <3>1, <3>3
    <3>5. ran'[d] <= k + l
      BY <1>1, <3>2, <3>4
    <3>6. QED
      BY <3>1, <3>5
  <2>3. QED
    BY <2>2 DEF RunsCounted
<1>6. Types' /\ Attempts' /\ OwnEntries'
  <2>1. Types'
    BY DEF Runs, PromiseInv, Types
  <2>2. Attempts' /\ OwnEntries'
    BY DEF Runs, PromiseInv, Attempts, Attempt, OwnEntries
  <2>3. QED
    BY <2>1, <2>2
<1>7. ToolsTrue' /\ HandlersTrue' /\ LedgerTrue'
  BY <1>3, ToolsKept, HandlersKept, LedgerStays DEF Runs, PromiseInv, HandlersTrue
<1>8. QueueTrue'
  <2>1. ASSUME NEW d \in Calls, IdOf[d] = Id(h) PROVE MayHear(d, Success(c))'
    <3>1. d = c
      BY <2>1, HandlerIs DEF Runs, UniqueIds, Id
    <3>2. ran'[c] > 0
      BY <1>1
    <3>3. QED
      BY <3>1, <3>2, SuccessIs DEF MayHear, Refusals
  <2>2. ASSUME NEW n \in DOMAIN game'.outbound
        PROVE  \/ \E m \in DOMAIN game.outbound : game'.outbound[n] = game.outbound[m]
               \/ \A d \in Calls : IdOf[d] = game'.outbound[n].id
                                       => MayHear(d, game.outbound[n].response)'
    <3>1. CASE game'.outbound[n].id = Id(h) /\ game'.outbound[n].response = Success(c)
      <4>1. ASSUME NEW d \in Calls, IdOf[d] = game'.outbound[n].id
            PROVE  MayHear(d, game.outbound[n].response)'
        <5>1. PICK r : r = Success(c)
          OBVIOUS
        <5>2. MayHear(d, r)'
          BY <2>1, <3>1, <4>1, <5>1
        <5>3. QED
          BY <3>1, <5>1, <5>2
      <4>2. QED
        BY <4>1
    <3>2. QED
      BY <2>2, <3>1 DEF Runs
  <2>3. QED
    BY <1>3, <2>2, QueueKept DEF PromiseInv
<1>9. QED
  BY <1>3, <1>4, <1>5, <1>6, <1>7, <1>8 DEF PromiseInv

-----------------------------------------------------------------------------
(* The invariant                                                            *)

LEMMA GameSteps == ASSUME UniqueIds, PromiseInv, GameNext \/ GameCrash PROVE PromiseInv'
<1>1. CASE Execute
  <2>1. PICK h \in Handlers, c \in Calls : Runs(h, c)
    BY <1>1, ExecuteRuns
  <2>2. QED
    BY <2>1, RunsKeep
<1>2. QED
  BY <1>1, Dials, Hangs, WritesResponse, Reads DEF GameNext

LEMMA PromiseInit == ASSUME Init PROVE PromiseInv
<1>1. Types
  <2>1. tool \in [Calls -> ToolRecord]
    BY DEF Init, ToolRecord
  <2>2. handler \in [Handlers -> HandlerRecord]
    BY DEF Init, Idle, HandlerRecord
  <2>3. session \in [Generations -> SessionRecord]
    BY DEF Init, SessionRecord
  <2>4. game \in GameRecord /\ game.link = "down"
    <3>1. <<>> \in Seq(Handlers) /\ <<>> \in Seq(Queued) /\ 0 \in 0 .. MaxGeneration
      BY Constants
    <3>2. PICK q, n : q = <<>> /\ n = 0 /\ q \in Seq(Handlers) /\ q \in Seq(Queued)
                      /\ n \in 0 .. MaxGeneration
      BY <3>1
    <3>3. game = [link |-> "down", generation |-> n, inbound |-> q, outbound |-> q]
      BY <3>2 DEF Init
    <3>4. QED
      BY <3>2, <3>3 DEF GameRecord
  <2>5. QED
    BY <2>1, <2>2, <2>3, <2>4 DEF Init, Types
<1>2. /\ \A c \in Calls : tool[c].phase = "idle" /\ tool[c].attempt = 1 /\ tool[c].answer = None
      /\ \A h \in Handlers : handler[h].phase = "none" /\ handler[h].response = None
      /\ \A g \in Generations : \A id \in RequestIds : session[g].pending[id] = None
      /\ DOMAIN requests = {} /\ game.inbound = <<>> /\ game.outbound = <<>>
  BY DEF Init, Idle, Ledger!Init, Ledger!Empty
<1>3. Attempts /\ OwnEntries
  BY <1>2, HandlersOf DEF Attempts, Attempt, OwnEntries
<1>4. QueuedOnce /\ QueueTrue
  BY <1>2 DEF QueuedOnce, InQueue, QueueTrue
<1>5. RunsCounted
  <2>1. ASSUME NEW c \in Calls PROVE ran[c] <= Spent(<<c, 1>>) + Spent(<<c, 2>>)
    <3>1. Spent(<<c, 1>>) = 0 /\ Spent(<<c, 2>>) = 0
      BY <1>2, HandlersOf DEF Spent, MayRun, Unsent
    <3>2. ran[c] = 0
      BY DEF Init
    <3>3. QED
      BY <3>1, <3>2
  <2>2. QED
    BY <2>1 DEF RunsCounted
<1>6. ToolsTrue /\ HandlersTrue /\ LedgerTrue
  BY <1>2 DEF ToolsTrue, HandlersTrue, LedgerTrue
<1>7. QED
  BY <1>1, <1>3, <1>4, <1>5, <1>6 DEF PromiseInv

LEMMA PromiseNext == ASSUME UniqueIds, PromiseInv, [Next]_vars PROVE PromiseInv'
BY ToolSteps, HandlerSteps, Registers, Greets, FailsToGreet, Ends, GameSteps,
   BrokerCrashes, Ticks, Stutters DEF Next, SessionNext

-----------------------------------------------------------------------------
(* What callers are promised                                                *)

LEMMA ToldIs ==
    ASSUME PromiseInv, NEW c \in Calls
    PROVE  /\ Told(c) = None <=> tool[c].answer = None
           /\ Told(c) = "refused" => tool[c].answer # None /\ tool[c].answer.error \in Refusals
           /\ Told(c) = "done" => tool[c].answer # None /\ tool[c].answer.error = "none"
           /\ Told(c) \in {None, "done", "refused", "unknown"}
<1>1. None \notin {"done", "refused", "unknown"}
  BY NoneAssumption
<1>2. tool[c].answer \in Response \cup {None}
  BY DEF PromiseInv, Types, ToolRecord
<1>3. \A r \in Response : r.error = "none" \/ r.error \in Ambiguous \cup Refusals
  BY FailureIs, SuccessIs DEF Response
<1>4. QED
  BY <1>1, <1>2, <1>3 DEF Told

\* A run is one that the promise allows.
LEMMA RunAllowed ==
    ASSUME PromiseInv, NEW h \in Handlers, NEW c \in Calls, Runs(h, c)
    PROVE  ran[c] < Promise!MaxRuns(c) /\ (Told(c) = "refused" => c \in ReadOnlyCalls)
<1>1. h = <<c, 1>> \/ h = <<c, 2>>
  BY HandlerIs DEF Runs
<1>2. PICK i \in {0, 1}, j \in {0, 1} : i = Spent(<<c, 1>>) /\ j = Spent(<<c, 2>>)
  BY DEF Spent
<1>3. ran[c] <= i + j /\ ran[c] \in Nat
  BY <1>2 DEF PromiseInv, RunsCounted, Types
<1>4. Spent(h) = 0
  BY DEF Runs, Spent, MayRun
<1>5. CASE c \in ReadOnlyCalls
  BY <1>1, <1>2, <1>3, <1>4, <1>5 DEF Promise!MaxRuns
<1>6. CASE c \notin ReadOnlyCalls
  <2>1. handler[<<c, 2>>].phase = "none"
    BY <1>6 DEF PromiseInv, Attempts, Types, ToolRecord
  <2>2. j = 0 /\ h = <<c, 1>>
    BY <1>1, <1>2, <2>1 DEF Spent, MayRun, Unsent, Runs
  <2>3. ran[c] = 0
    BY <1>2, <1>3, <1>4, <2>2
  <2>4. Told(c) # "refused"
    <3>1. InQueue(<<c, 1>>)
      BY <2>2 DEF Runs
    <3>2. QED
      BY <1>6, <3>1, ToldIs DEF PromiseInv, ToolsTrue, MayHear, NeverRuns
  <2>5. QED
    BY <1>6, <2>3, <2>4 DEF Promise!MaxRuns
<1>7. QED
  BY <1>5, <1>6

LEMMA RunsRefine ==
    ASSUME PromiseInv, NEW h \in Handlers, NEW c \in Calls, Runs(h, c)
    PROVE  Promise!Next
<1>1. UNCHANGED [d \in Calls |-> Told(d)]
  BY DEF Runs, Told
<1>2. Promise!Run(c)
  BY <1>1, RunAllowed DEF Promise!Run, Runs
<1>3. QED
  BY <1>2 DEF Promise!Next

\* A step of the transport is at most an answer to its own, unanswered call.
LEMMA ToolReplies ==
    ASSUME PromiseInv, NEW c \in Calls, ToolNext(c)
    PROVE  /\ UNCHANGED ran /\ tool[c].answer = None
           /\ \A d \in Calls : d # c => tool'[d] = tool[d]
<1>1. tool[c].phase # "answered" /\ UNCHANGED ran
  BY DEF ToolNext, StartCall, Connect, ConnectFails, ReceiveResponse, LoseConnection, Cancel,
         Active
<1>2. tool[c].answer = None
  BY <1>1 DEF PromiseInv, Attempts
<1>3. ASSUME NEW r, Finish(c, r) PROVE \A d \in Calls : d # c => tool'[d] = tool[d]
  BY <1>3 DEF Finish, Retry, Answer, PromiseInv, Types
<1>4. ASSUME NEW b, Throw(c, b) PROVE \A d \in Calls : d # c => tool'[d] = tool[d]
  BY <1>4 DEF Throw, Retry, Answer, PromiseInv, Types
<1>5. \A d \in Calls : d # c => tool'[d] = tool[d]
  <2>1. CASE StartCall(c) \/ Connect(c) \/ Cancel(c)
    BY <2>1 DEF StartCall, Connect, Cancel, PromiseInv, Types
  <2>2. CASE ConnectFails(c)
    BY <1>4, <2>2 DEF ConnectFails
  <2>3. CASE ReceiveResponse(c)
    BY <1>3, <2>3 DEF ReceiveResponse
  <2>4. CASE LoseConnection(c)
    BY <1>3, <1>4, <2>4 DEF LoseConnection
  <2>5. QED
    BY <2>1, <2>2, <2>3, <2>4 DEF ToolNext
<1>6. QED
  BY <1>1, <1>2, <1>5

LEMMA RepliesRefine ==
    ASSUME PromiseInv, PromiseInv', NEW c \in Calls, ToolNext(c)
    PROVE  Promise!Next \/ UNCHANGED Promise!vars
<1>1. /\ UNCHANGED ran /\ Told(c) = None
      /\ \A d \in Calls : d # c => Told(d)' = Told(d)
  <2>1. \A d \in Calls : d # c => Told(d)' = Told(d)
    BY ToolReplies DEF Told
  <2>2. QED
    BY <2>1, ToolReplies, ToldIs
<1>2. PICK a : a = Told(c)'
  OBVIOUS
<1>3. a \in {None, "done", "refused", "unknown"}
  BY <1>2, ToldIs DEF Told
<1>4. CASE a = None
  <2>1. \A d \in Calls : Told(d)' = Told(d)
    BY <1>1, <1>2, <1>4
  <2>2. UNCHANGED [d \in Calls |-> Told(d)]
    BY <2>1
  <2>3. QED
    BY <1>1, <2>2 DEF Promise!vars
<1>5. CASE a # None
  <2>1. tool'[c].answer # None
    BY <1>2, <1>5 DEF Told
  <2>2. MayHear(c, tool[c].answer)'
    BY <2>1 DEF PromiseInv, ToolsTrue
  <2>3. PICK r : r = tool'[c].answer /\ MayHear(c, r)'
    BY <2>2
  <2>4. r \in Response /\ r # None
    BY <2>1, <2>3 DEF MayHear
  <2>5. /\ a = "refused" => r.error \in Refusals
        /\ a = "done" => r.error \notin Ambiguous \cup Refusals
    BY <1>2, <2>3, <2>4 DEF Told
  <2>6. a = "done" => ran[c] > 0
    <3>1. r.error = "none" \/ r.error \in Ambiguous \cup Refusals
      BY <2>4, FailureIs, SuccessIs DEF Response
    <3>2. QED
      BY <1>1, <2>3, <2>5, <3>1 DEF MayHear
  <2>7. a = "refused" => ran[c] = 0 \/ c \in ReadOnlyCalls
    BY <1>1, <2>3, <2>5 DEF MayHear, NeverRuns
  <2>8. [d \in Calls |-> Told(d)]' = [[d \in Calls |-> Told(d)] EXCEPT ![c] = a]
    BY <1>1, <1>2
  <2>9. Promise!Reply(c, a) /\ a \in Promise!Answer
    BY <1>1, <1>3, <1>5, <2>6, <2>7, <2>8 DEF Promise!Reply, Promise!Answer
  <2>10. QED
    BY <2>9 DEF Promise!Next
<1>6. QED
  BY <1>4, <1>5

LEMMA StepRefines ==
    ASSUME UniqueIds, PromiseInv, [Next]_vars
    PROVE  [Promise!Next]_(Promise!vars)
<1>1. ASSUME UNCHANGED <<tool, ran>> PROVE UNCHANGED Promise!vars
  <2>1. UNCHANGED [d \in Calls |-> Told(d)]
    BY <1>1 DEF Told
  <2>2. QED
    BY <1>1, <2>1 DEF Promise!vars
<1>2. CASE Execute
  <2>1. PICK h \in Handlers, c \in Calls : Runs(h, c)
    BY <1>2, ExecuteRuns
  <2>2. QED
    BY <2>1, RunsRefine
<1>3. ASSUME NEW c \in Calls, ToolNext(c) PROVE [Promise!Next]_(Promise!vars)
  BY <1>3, PromiseNext, RepliesRefine
<1>4. ASSUME NEW h \in Handlers, HandlerNext(h) PROVE UNCHANGED <<tool, ran>>
  BY <1>4 DEF HandlerNext, AdmitRequest, RefuseOffline, ExpireLease, Begin, AddPending,
              WriteFails, FlushDone, Resume, Timeout, RemoveTimedOut
<1>5. ASSUME NEW g \in Generations, SessionNext(g) PROVE UNCHANGED <<tool, ran>>
  BY <1>5 DEF SessionNext, Register, Greet, GreetFails, SessionEnd
<1>6. ASSUME GameNext, ~Execute PROVE UNCHANGED <<tool, ran>>
  BY <1>6 DEF GameNext, Dial, Drop, WriteResponse, WriteResponseFails, ReadTooEarly, ReadRequest
<1>7. CASE GameCrash \/ BrokerCrash \/ LedgerClock \/ UNCHANGED vars
  <2>1. UNCHANGED <<tool, ran>>
    BY <1>7 DEF GameCrash, BrokerCrash, LedgerClock, vars
  <2>2. QED
    BY <1>1, <2>1
<1>8. QED
  BY <1>1, <1>2, <1>3, <1>4, <1>5, <1>6, <1>7 DEF Next

LEMMA InitRefines == ASSUME Init PROVE Promise!Init
<1>1. \A c \in Calls : Told(c) = None
  BY DEF Init, Told
<1>2. QED
  BY <1>1 DEF Init, Promise!Init

LEMMA PromiseInvariant == ASSUME UniqueIds PROVE Spec => []PromiseInv
<1>1. Init => PromiseInv
  BY PromiseInit
<1>2. PromiseInv /\ [Next]_vars => PromiseInv'
  BY PromiseNext
<1>3. QED
  BY <1>1, <1>2, PTL DEF Spec

\* The whole path - transport, broker, sessions, game, with crashes of either
\* end, lost connections, timeouts and retries - keeps the promise made to
\* callers, for any number of calls and any capacity, when no two calls share
\* a request id: a command that may change the game runs at most once, "done"
\* is said only of what ran, and what was refused never runs.
THEOREM PathKeepsPromise == ASSUME UniqueIds PROVE Spec => KeepsPromise
<1>1. Init => Promise!Init
  BY InitRefines
<1>2. PromiseInv /\ [Next]_vars => [Promise!Next]_(Promise!vars)
  BY StepRefines
<1>3. QED
  BY <1>1, <1>2, PromiseInvariant, PTL DEF Spec, KeepsPromise, Promise!Spec

\* A caller gets what its own command returned, never what another did,
\* although responses are matched to requests by id alone and are kept by the
\* ledger, the session and the game's queue on their way.
THEOREM OwnResults == ASSUME UniqueIds PROVE Spec => []OwnResult
<1>1. PromiseInv => OwnResult
  BY DEF PromiseInv, ToolsTrue, MayHear, OwnResult
<1>2. QED
  BY <1>1, PromiseInvariant, PTL

-----------------------------------------------------------------------------
(* What session and ledger hold for the handlers                            *)

\* A call's second attempt begins when the broker is done with the first.
Over == {"none", "gone"}
OneAtWork ==
    \A c \in Calls :
        /\ tool[c].attempt = 2 => handler[<<c, 1>>].phase \in Over
        /\ tool[c].phase = "idle" => tool[c].attempt = 1

\* What a handler knows: its session, its entry there while it waits, and no
\* response before it has begun.
Holds(g, h) == session[g].pending[Id(h)] = h
EntryOK(h) ==
    /\ \A g \in Generations : Holds(g, h) =>
          /\ handler[h].session = g /\ handler[h].response = None
          /\ handler[h].phase \in Working \ {"accepted"}
    /\ handler[h].phase \in {"added", "written", "waiting"} /\ handler[h].response = None
          => Holds(SessionOf(h), h)
    /\ handler[h].phase \in {"none", "received", "admitted", "accepted"}
          => handler[h].response = None
    /\ handler[h].phase \in Working \cup {"admitted"} =>
          SessionOf(h) \in Generations /\ SessionOf(h) <= game.generation
EntriesOK ==
    /\ \A h \in Handlers : EntryOK(h)
    /\ gameSession # None => gameSession <= game.generation

\* The ledger counts one for an identity that a handler is at work on.
AtWork(h, i) == handler[h].phase \in Working /\ Identity(h) = i
RunningOK ==
    /\ running \in [Ledger!Identity -> Nat]
    /\ \A i \in Ledger!Identity :
          running[i] = IF \E h \in Handlers : AtWork(h, i) THEN 1 ELSE 0

TablesInv == OneAtWork /\ EntriesOK /\ RunningOK

-----------------------------------------------------------------------------
(* One handler of a call is at work                                         *)

LEMMA SameCall ==
    ASSUME UniqueIds, NEW h \in Handlers, NEW x \in Handlers, Id(h) = Id(x)
    PROVE  CallOf(h) = CallOf(x)
BY HandlerIs DEF UniqueIds, Id

LEMMA OneActive ==
    ASSUME UniqueIds, PromiseInv, OneAtWork, NEW h \in Handlers, NEW x \in Handlers,
           Id(h) = Id(x), handler[h].phase \notin Over, handler[x].phase \notin Over
    PROVE  h = x
<1>1. PICK c \in Calls : c = CallOf(h) /\ c = CallOf(x)
  BY SameCall, HandlerIs
<1>2. /\ h = <<c, 1>> \/ h = <<c, 2>>
      /\ x = <<c, 1>> \/ x = <<c, 2>>
  BY <1>1, HandlerIs
<1>3. tool[c].attempt = 1 \/ tool[c].attempt = 2
  BY DEF PromiseInv, Types, ToolRecord
<1>4. CASE tool[c].attempt = 1
  <2>1. handler[<<c, 2>>].phase \in Over
    BY <1>4 DEF PromiseInv, Attempts, Over
  <2>2. QED
    BY <1>2, <2>1
<1>5. CASE tool[c].attempt = 2
  <2>1. handler[<<c, 1>>].phase \in Over
    BY <1>5 DEF OneAtWork
  <2>2. QED
    BY <1>2, <2>1
<1>6. QED
  BY <1>3, <1>4, <1>5

\* Nothing that matters to handler x has changed.
LEMMA EntryStays ==
    ASSUME Types, Types', NEW x \in Handlers, EntryOK(x), handler'[x] = handler[x],
           \A g \in Generations : Holds(g, x)' <=> Holds(g, x),
           game'.generation >= game.generation
    PROVE  EntryOK(x)'
<1>1. PICK s \in HandlerRecord : s = handler[x] /\ s = handler'[x]
  BY DEF Types
<1>2. \A g \in Generations : Holds(g, x) =>
          s.session = g /\ s.response = None /\ s.phase \in Working \ {"accepted"}
  BY <1>1 DEF EntryOK
<1>3. /\ s.phase \in Working \cup {"admitted"} =>
            s.session \in Generations /\ s.session <= game'.generation
      /\ s.phase \in {"none", "received", "admitted", "accepted"} => s.response = None
  BY <1>1, Constants DEF EntryOK, SessionOf, Generations, Types, GameRecord
<1>4. s.phase \in {"added", "written", "waiting"} /\ s.response = None => Holds(s.session, x)'
  BY <1>1, <1>3 DEF EntryOK, SessionOf, Working
<1>5. QED
  BY <1>1, <1>2, <1>3, <1>4 DEF EntryOK, SessionOf

\* One handler moves; it alone is found in other places than before.
HandlerStep(h, t) ==
    /\ handler' = [x \in Handlers |-> IF x = h THEN t ELSE handler[x]]
    /\ handler[h].phase \notin Over
    /\ UNCHANGED tool /\ game'.generation = game.generation
    /\ \A x \in Handlers \ {h} : \A g \in Generations : Holds(g, x)' <=> Holds(g, x)
    /\ gameSession' \in {gameSession, None}

LEMMA HandlerStepKeeps ==
    ASSUME PromiseInv, PromiseInv', OneAtWork, EntriesOK, NEW h \in Handlers, NEW t,
           HandlerStep(h, t), EntryOK(h)'
    PROVE  OneAtWork' /\ EntriesOK'
<1>1. ASSUME NEW x \in Handlers, x # h PROVE EntryOK(x)'
  <2>1. game'.generation >= game.generation
    BY Constants DEF HandlerStep, PromiseInv, Types, GameRecord
  <2>2. QED
    BY <1>1, <2>1, EntryStays DEF HandlerStep, PromiseInv, EntriesOK
<1>2. EntriesOK'
  BY <1>1 DEF EntriesOK, HandlerStep
<1>3. OneAtWork'
  <2>1. ASSUME NEW c \in Calls, handler[<<c, 1>>].phase \in Over
        PROVE  handler'[<<c, 1>>].phase \in Over
    BY <2>1, HandlersOf DEF HandlerStep
  <2>2. QED
    BY <2>1 DEF OneAtWork, HandlerStep
<1>4. QED
  BY <1>2, <1>3

\* A handler's entry is changed by no other handler.
LEMMA EntryAlone ==
    ASSUME UniqueIds, PromiseInv, OneAtWork, EntriesOK, NEW h \in Handlers,
           handler[h].phase \in Working, NEW entry \in {h, None},
           session' = [session EXCEPT ![SessionOf(h)].pending[Id(h)] = entry]
    PROVE  /\ \A x \in Handlers \ {h} : \A g \in Generations : Holds(g, x)' <=> Holds(g, x)
           /\ \A g \in Generations :
                 Holds(g, h)' <=> IF g = SessionOf(h) THEN entry = h ELSE Holds(g, h)
<1>1. PICK k \in Generations : k = SessionOf(h)
  BY DEF EntriesOK, EntryOK
<1>2. PICK id \in RequestIds : id = Id(h)
  BY HandlerIs
<1>3. ASSUME NEW g \in Generations, NEW i \in RequestIds
      PROVE  session'[g].pending[i] = IF g = k /\ i = id THEN entry ELSE session[g].pending[i]
  BY <1>1, <1>2 DEF PromiseInv, Types, SessionRecord
<1>4. ASSUME NEW x \in Handlers, x # h, Id(x) = id, NEW g \in Generations PROVE ~Holds(g, x)
  <2>1. SUFFICES ASSUME Holds(g, x) PROVE FALSE
    OBVIOUS
  <2>2. handler[x].phase \notin Over /\ handler[h].phase \notin Over
    BY <2>1 DEF EntriesOK, EntryOK, Over, Working
  <2>3. QED
    BY <1>2, <1>4, <2>2, OneActive
<1>5. ASSUME NEW x \in Handlers, x # h, NEW g \in Generations PROVE Holds(g, x)' <=> Holds(g, x)
  <2>1. Id(x) \in RequestIds /\ x # entry
    BY <1>5, HandlerIs, NoneAssumption DEF Handlers
  <2>2. Holds(g, x)' <=> session'[g].pending[Id(x)] = x
    BY DEF Holds, Id, CallOf
  <2>3. QED
    BY <1>3, <1>4, <1>5, <2>1, <2>2 DEF Holds
<1>6. ASSUME NEW g \in Generations
      PROVE  Holds(g, h)' <=> IF g = k THEN entry = h ELSE Holds(g, h)
  <2>1. Holds(g, h)' <=> session'[g].pending[id] = h
    BY <1>2 DEF Holds, Id, CallOf
  <2>2. QED
    BY <1>2, <1>3, <2>1 DEF Holds
<1>7. QED
  BY <1>1, <1>5, <1>6

LEMMA EntriesSame ==
    ASSUME \A g \in Generations : session'[g].pending = session[g].pending,
           NEW x \in Handlers, NEW g \in Generations
    PROVE  Holds(g, x)' <=> Holds(g, x)
BY DEF Holds, Id, CallOf

LEMMA DisconnectedSame ==
    ASSUME PromiseInv, NEW k, session' = Disconnected(k), NEW g \in Generations
    PROVE  session'[g].pending = session[g].pending
BY DEF Disconnected, PromiseInv, Types, SessionRecord

-----------------------------------------------------------------------------
(* The handlers and their entries                                           *)

\* A response is given once the session has forgotten the request.
LEMMA RespondTables ==
    ASSUME PromiseInv, NEW h \in Handlers, NEW response, Respond(h, response),
           \A g \in Generations : ~Holds(g, h)'
    PROVE  /\ handler' = [x \in Handlers |-> IF x = h THEN Responded(response) ELSE handler[x]]
           /\ handler'[h].phase = "responded" /\ EntryOK(h)'
<1>1. handler' = [x \in Handlers |-> IF x = h THEN Responded(response) ELSE handler[x]]
  BY DEF Respond, Responded, PromiseInv, Types
<1>2. handler'[h].phase = "responded"
  BY <1>1 DEF Responded
<1>3. EntryOK(h)'
  BY <1>2 DEF EntryOK, Working
<1>4. QED
  BY <1>1, <1>2, <1>3

\* Before its entry is made and after it is taken out, a handler has none.
LEMMA NoEntry ==
    ASSUME EntriesOK, NEW h \in Handlers,
           \/ handler[h].phase \in {"received", "admitted", "accepted"}
           \/ handler[h].response # None,
           NEW g \in Generations
    PROVE  ~Holds(g, h)
BY DEF EntriesOK, EntryOK, Working

LEMMA RefuseTables ==
    ASSUME UniqueIds, PromiseInv, PromiseInv', OneAtWork, EntriesOK, NEW h \in Handlers,
           RefuseOffline(h) \/ ExpireLease(h)
    PROVE  OneAtWork' /\ EntriesOK' /\ handler'[h].phase = "responded"
<1>1. PICK response : Respond(h, response)
  BY DEF RefuseOffline, ExpireLease
<1>2. \A g \in Generations : session'[g].pending = session[g].pending
  BY DisconnectedSame DEF RefuseOffline, ExpireLease
<1>3. \A x \in Handlers : \A g \in Generations : Holds(g, x)' <=> Holds(g, x)
  BY <1>2, EntriesSame
<1>4. \A g \in Generations : ~Holds(g, h)'
  BY <1>3, NoEntry DEF RefuseOffline, ExpireLease
<1>5. PICK t : handler' = [x \in Handlers |-> IF x = h THEN t ELSE handler[x]]
               /\ handler'[h].phase = "responded" /\ EntryOK(h)'
  BY <1>1, <1>4, RespondTables
<1>6. HandlerStep(h, t)
  BY <1>3, <1>5 DEF HandlerStep, RefuseOffline, ExpireLease, Over
<1>7. QED
  BY <1>5, <1>6, HandlerStepKeeps

\* Steps that leave every session's entries alone.
LEMMA RespondsAlone ==
    ASSUME UniqueIds, PromiseInv, PromiseInv', OneAtWork, EntriesOK, NEW h \in Handlers,
           NEW response, Respond(h, response), UNCHANGED <<tool, gameSession, session, game>>,
           \/ handler[h].phase \in {"received", "admitted", "accepted"}
           \/ handler[h].phase = "waiting" /\ handler[h].response # None
    PROVE  OneAtWork' /\ EntriesOK' /\ handler'[h].phase = "responded"
<1>1. \A x \in Handlers : \A g \in Generations : Holds(g, x)' <=> Holds(g, x)
  BY EntriesSame
<1>2. \A g \in Generations : ~Holds(g, h)'
  BY <1>1, NoEntry
<1>3. PICK t : handler' = [x \in Handlers |-> IF x = h THEN t ELSE handler[x]]
               /\ handler'[h].phase = "responded" /\ EntryOK(h)'
  BY <1>2, RespondTables
<1>4. HandlerStep(h, t)
  BY <1>1, <1>3 DEF HandlerStep, Over
<1>5. QED
  BY <1>3, <1>4, HandlerStepKeeps

\* A handler that goes on, in the session it has or is given.
LEMMA GoesOn ==
    ASSUME UniqueIds, PromiseInv, PromiseInv', OneAtWork, EntriesOK, NEW h \in Handlers, NEW t,
           handler' = [x \in Handlers |-> IF x = h THEN t ELSE handler[x]],
           UNCHANGED <<tool, gameSession, game>>, t.response = handler[h].response,
           \A x \in Handlers \ {h} : \A g \in Generations : Holds(g, x)' <=> Holds(g, x),
           \A g \in Generations : Holds(g, h)' <=> (g = t.session /\ t.phase = "added")
                                                  \/ Holds(g, h),
           \/ /\ handler[h].phase = "received" /\ t.phase = "admitted"
              /\ gameSession # None /\ t.session = gameSession
           \/ /\ t.session = handler[h].session
              /\ <<handler[h].phase, t.phase>> \in
                    {<<"admitted", "accepted">>, <<"accepted", "added">>,
                     <<"written", "waiting">>, <<"waiting", "timedOut">>}
    PROVE  OneAtWork' /\ EntriesOK'
<1>1. PICK s \in HandlerRecord : s = handler[h] /\ t = handler'[h]
  BY DEF PromiseInv, Types
<1>2. /\ \A g \in Generations : Holds(g, h) =>
            s.session = g /\ s.response = None /\ s.phase \in Working \ {"accepted"}
      /\ s.phase \in {"added", "written", "waiting"} /\ s.response = None
            => Holds(s.session, h)
      /\ s.phase \in {"none", "received", "admitted", "accepted"} => s.response = None
      /\ s.phase \in Working \cup {"admitted"} =>
            s.session \in Generations /\ s.session <= game.generation
      /\ gameSession # None => gameSession \in Generations /\ gameSession <= game.generation
  BY <1>1 DEF EntriesOK, EntryOK, SessionOf, PromiseInv, Types
<1>3. t.session \in Generations /\ t.session <= game.generation
  BY <1>1, <1>2 DEF Working
<1>4. t.phase \in {"none", "received", "admitted", "accepted"} => t.response = None
  BY <1>1, <1>2
<1>5. ASSUME NEW g \in Generations, Holds(g, h)'
      PROVE  t.session = g /\ t.response = None /\ t.phase \in Working \ {"accepted"}
  BY <1>1, <1>2, <1>5 DEF Working
<1>6. t.phase \in {"added", "written", "waiting"} /\ t.response = None => Holds(t.session, h)'
  BY <1>1, <1>2, <1>3
<1>7. EntryOK(h)'
  BY <1>1, <1>3, <1>4, <1>5, <1>6 DEF EntryOK, SessionOf
<1>8. HandlerStep(h, t)
  BY DEF HandlerStep, Over
<1>9. QED
  BY <1>7, <1>8, HandlerStepKeeps

LEMMA AdmitTables ==
    ASSUME UniqueIds, PromiseInv, PromiseInv', OneAtWork, EntriesOK, NEW h \in Handlers,
           AdmitRequest(h)
    PROVE  OneAtWork' /\ EntriesOK' /\ handler'[h].phase = "admitted"
<1>1. PICK t : t = [handler[h] EXCEPT !.phase = "admitted", !.session = gameSession]
  OBVIOUS
<1>2. t.phase = "admitted" /\ t.session = gameSession /\ t.response = handler[h].response
  BY <1>1 DEF PromiseInv, Types, HandlerRecord
<1>3. handler' = [x \in Handlers |-> IF x = h THEN t ELSE handler[x]]
  BY <1>1 DEF AdmitRequest, PromiseInv, Types
<1>4. \A x \in Handlers : \A g \in Generations : Holds(g, x)' <=> Holds(g, x)
  BY EntriesSame DEF AdmitRequest
<1>5. QED
  BY <1>2, <1>3, <1>4, GoesOn DEF AdmitRequest

LEMMA AdvanceTables ==
    ASSUME UniqueIds, PromiseInv, PromiseInv', OneAtWork, EntriesOK, NEW h \in Handlers,
           NEW phase, Advance(h, phase), UNCHANGED <<tool, gameSession, game>>,
           <<handler[h].phase, phase>> \in
               {<<"admitted", "accepted">>, <<"accepted", "added">>,
                <<"written", "waiting">>, <<"waiting", "timedOut">>},
           \A x \in Handlers \ {h} : \A g \in Generations : Holds(g, x)' <=> Holds(g, x),
           \A g \in Generations : Holds(g, h)' <=> (g = SessionOf(h) /\ phase = "added")
                                                  \/ Holds(g, h)
    PROVE  OneAtWork' /\ EntriesOK' /\ handler'[h].phase = phase
<1>1. PICK t : t = [handler[h] EXCEPT !.phase = phase]
  OBVIOUS
<1>2. t.phase = phase /\ t.session = handler[h].session /\ t.response = handler[h].response
  BY <1>1 DEF PromiseInv, Types, HandlerRecord
<1>3. handler' = [x \in Handlers |-> IF x = h THEN t ELSE handler[x]]
  BY <1>1 DEF Advance, PromiseInv, Types
<1>4. QED
  BY <1>2, <1>3, GoesOn DEF SessionOf

LEMMA BeginTables ==
    ASSUME UniqueIds, PromiseInv, PromiseInv', OneAtWork, EntriesOK, NEW h \in Handlers,
           Begin(h)
    PROVE  OneAtWork' /\ EntriesOK'
<1>1. \A x \in Handlers : \A g \in Generations : Holds(g, x)' <=> Holds(g, x)
  BY EntriesSame DEF Begin
<1>2. CASE Advance(h, "accepted")
  BY <1>1, <1>2, AdvanceTables DEF Begin
<1>3. ASSUME NEW response, Respond(h, response) PROVE OneAtWork' /\ EntriesOK'
  BY <1>3, RespondsAlone DEF Begin
<1>4. QED
  BY <1>2, <1>3 DEF Begin

LEMMA AddTables ==
    ASSUME UniqueIds, PromiseInv, PromiseInv', OneAtWork, EntriesOK, NEW h \in Handlers,
           AddPending(h)
    PROVE  OneAtWork' /\ EntriesOK'
<1>1. CASE /\ session' = [session EXCEPT ![SessionOf(h)].pending[Id(h)] = h]
           /\ Advance(h, "added")
  <2>1. handler[h].phase = "accepted" /\ UNCHANGED <<tool, gameSession, game>>
    BY DEF AddPending
  <2>2. /\ \A x \in Handlers \ {h} : \A g \in Generations : Holds(g, x)' <=> Holds(g, x)
        /\ \A g \in Generations : Holds(g, h)' <=> g = SessionOf(h) \/ Holds(g, h)
    BY <1>1, <2>1, EntryAlone DEF Working
  <2>3. QED
    BY <1>1, <2>1, <2>2, AdvanceTables
<1>2. ASSUME UNCHANGED session, NEW response, Respond(h, response)
      PROVE  OneAtWork' /\ EntriesOK'
  BY <1>2, RespondsAlone DEF AddPending
<1>3. QED
  BY <1>1, <1>2 DEF AddPending, Conclude

LEMMA WaitTables ==
    ASSUME UniqueIds, PromiseInv, PromiseInv', OneAtWork, EntriesOK, NEW h \in Handlers,
           FlushDone(h) \/ Timeout(h)
    PROVE  OneAtWork' /\ EntriesOK' /\ handler'[h].phase \in {"waiting", "timedOut"}
<1>1. \A x \in Handlers : \A g \in Generations : Holds(g, x)' <=> Holds(g, x)
  BY EntriesSame DEF FlushDone, Timeout
<1>2. CASE FlushDone(h)
  BY <1>1, <1>2, AdvanceTables DEF FlushDone
<1>3. CASE Timeout(h)
  BY <1>1, <1>3, AdvanceTables DEF Timeout
<1>4. QED
  BY <1>2, <1>3

LEMMA ResumeTables ==
    ASSUME UniqueIds, PromiseInv, PromiseInv', OneAtWork, EntriesOK, NEW h \in Handlers,
           Resume(h)
    PROVE  OneAtWork' /\ EntriesOK' /\ handler'[h].phase = "responded"
BY RespondsAlone DEF Resume, Conclude

LEMMA RemoveTables ==
    ASSUME UniqueIds, PromiseInv, PromiseInv', OneAtWork, EntriesOK, NEW h \in Handlers,
           WriteFails(h) \/ RemoveTimedOut(h)
    PROVE  OneAtWork' /\ EntriesOK' /\ handler'[h].phase = "responded"
<1>1. /\ handler[h].phase \in Working /\ RemovePending(h)
      /\ UNCHANGED <<tool, gameSession, game>>
  BY DEF WriteFails, RemoveTimedOut, Working
<1>2. PICK response : Respond(h, response)
  BY DEF WriteFails, RemoveTimedOut, Conclude
<1>3. h # None
  BY NoneAssumption DEF Handlers
<1>4. /\ \A x \in Handlers \ {h} : \A g \in Generations : Holds(g, x)' <=> Holds(g, x)
      /\ \A g \in Generations : Holds(g, h)' <=> IF g = SessionOf(h) THEN FALSE ELSE Holds(g, h)
  BY <1>1, <1>3, EntryAlone DEF RemovePending
<1>5. \A g \in Generations : ~Holds(g, h)'
  BY <1>4 DEF EntriesOK, EntryOK, SessionOf
<1>6. PICK t : handler' = [x \in Handlers |-> IF x = h THEN t ELSE handler[x]]
               /\ handler'[h].phase = "responded" /\ EntryOK(h)'
  BY <1>2, <1>5, RespondTables
<1>7. HandlerStep(h, t)
  BY <1>1, <1>4, <1>6 DEF HandlerStep, Over, Working
<1>8. QED
  BY <1>6, <1>7, HandlerStepKeeps

LEMMA HandlerTables ==
    ASSUME UniqueIds, PromiseInv, PromiseInv', OneAtWork, EntriesOK, NEW h \in Handlers,
           HandlerNext(h)
    PROVE  OneAtWork' /\ EntriesOK'
BY RefuseTables, AdmitTables, BeginTables, AddTables, WaitTables, ResumeTables, RemoveTables
   DEF HandlerNext

-----------------------------------------------------------------------------
(* The transport                                                            *)

LEMMA AttemptIs ==
    ASSUME PromiseInv, NEW c \in Calls
    PROVE  /\ Attempt(c) \in Handlers /\ CallOf(Attempt(c)) = c
           /\ tool[c].attempt = 1 => Attempt(c) = <<c, 1>>
           /\ tool[c].attempt = 2 => Attempt(c) # <<c, 1>>
<1>1. PICK a \in {1, 2} : a = tool[c].attempt
  BY DEF PromiseInv, Types, ToolRecord
<1>2. <<c, 2>> # <<c, 1>>
  <2>1. <<c, 2>>[2] # <<c, 1>>[2]
    OBVIOUS
  <2>2. QED
    BY <2>1
<1>3. QED
  BY <1>1, <1>2, HandlersOf DEF Attempt

\* A call tries again only when the broker is done with its first attempt.
LEMMA ToolGoes ==
    ASSUME PromiseInv, NEW c \in Calls, ToolNext(c)
    PROVE  /\ tool'[c].phase # "idle"
           /\ tool[c].phase # "idle" => tool'[c].sequence = tool[c].sequence
           /\ tool'[c].attempt # tool[c].attempt =>
                  tool[c].attempt = 1 /\ handler'[<<c, 1>>].phase \in Over
<1>1. PICK s \in ToolRecord : s = tool[c]
  BY DEF PromiseInv, Types
<1>3. ASSUME NEW r, Answer(c, r)
      PROVE  /\ tool'[c].phase # "idle" /\ tool'[c].attempt = tool[c].attempt
             /\ tool'[c].sequence = tool[c].sequence
  BY <1>1, <1>3 DEF Answer, PromiseInv, Types, ToolRecord
<1>4. ASSUME Retry(c), MayRetry(c)
      PROVE  /\ tool'[c].phase # "idle" /\ tool[c].attempt = 1
             /\ tool'[c].sequence = tool[c].sequence
  BY <1>1, <1>4 DEF Retry, MayRetry, PromiseInv, Types, ToolRecord
<1>5. ASSUME \E r : Answer(c, r) \/ (Retry(c) /\ MayRetry(c))
      PROVE  /\ tool'[c].phase # "idle" /\ tool'[c].sequence = tool[c].sequence
             /\ tool'[c].attempt # tool[c].attempt => tool[c].attempt = 1
  BY <1>3, <1>4, <1>5
<1>6. ASSUME NEW r, Finish(c, r) PROVE \E q : Answer(c, q) \/ (Retry(c) /\ MayRetry(c))
  BY <1>6 DEF Finish
<1>7. ASSUME NEW b, Throw(c, b) PROVE \E q : Answer(c, q) \/ (Retry(c) /\ MayRetry(c))
  BY <1>7 DEF Throw
<1>8. CASE StartCall(c)
  BY <1>1, <1>8 DEF StartCall, PromiseInv, Types, ToolRecord
<1>9. CASE Connect(c) \/ Cancel(c)
  BY <1>1, <1>9 DEF Connect, Cancel, PromiseInv, Types, ToolRecord
<1>10. CASE ConnectFails(c)
  <2>1. tool[c].attempt = 1 => handler'[<<c, 1>>].phase = "none"
    BY <1>10, AttemptIs DEF ConnectFails, brokerVars, PromiseInv, Attempts
  <2>2. QED
    BY <1>5, <1>7, <1>10, <2>1 DEF ConnectFails, Over
<1>11. CASE LoseConnection(c)
  <2>1. tool[c].attempt = 1 => handler'[<<c, 1>>].phase = "gone"
    BY <1>11, AttemptIs DEF LoseConnection, brokerVars
  <2>2. QED
    BY <1>5, <1>6, <1>7, <1>11, <2>1 DEF LoseConnection, Over
<1>12. CASE ReceiveResponse(c)
  <2>1. tool[c].attempt = 1 => handler'[<<c, 1>>].phase = "gone"
    BY <1>12, AttemptIs, GoneIs DEF ReceiveResponse, PromiseInv, Types
  <2>2. QED
    BY <1>5, <1>6, <1>12, <2>1 DEF ReceiveResponse, Over
<1>13. QED
  BY <1>8, <1>9, <1>10, <1>11, <1>12 DEF ToolNext

\* The handler of the attempt begins or is over; no other handler moves.
LEMMA ToolHandlers ==
    ASSUME PromiseInv, NEW c \in Calls, ToolNext(c)
    PROVE  /\ UNCHANGED <<gameSession, session, game>>
           /\ \A h \in Handlers :
                 \/ handler'[h] = handler[h]
                 \/ /\ h = Attempt(c) /\ handler[h].phase = "none"
                    /\ handler'[h].phase = "received"
                    /\ handler'[h].response = handler[h].response
                 \/ /\ h = Attempt(c) /\ handler[h].phase = "responded"
                    /\ handler'[h].phase = "gone"
<1>1. PICK h \in Handlers : h = Attempt(c)
  BY AttemptIs
<1>2. UNCHANGED <<gameSession, session, game>>
  BY DEF ToolNext, StartCall, Connect, ConnectFails, ReceiveResponse, LoseConnection, Cancel,
         brokerVars
<1>3. CASE Connect(c)
  <2>1. PICK s \in HandlerRecord : s = handler[h]
    BY DEF PromiseInv, Types
  <2>2. PICK t : t = [s EXCEPT !.phase = "received"]
    OBVIOUS
  <2>3. t.phase = "received" /\ t.response = s.response
    BY <2>2 DEF HandlerRecord
  <2>4. handler' = [x \in Handlers |-> IF x = h THEN t ELSE handler[x]]
    BY <1>1, <1>3, <2>1, <2>2 DEF Connect, PromiseInv, Types
  <2>5. handler[h].phase = "none"
    BY <1>1, <1>3 DEF Connect, PromiseInv, Attempts
  <2>6. QED
    BY <1>1, <1>2, <2>1, <2>3, <2>4, <2>5
<1>4. CASE ReceiveResponse(c)
  BY <1>1, <1>2, <1>4, GoneIs DEF ReceiveResponse, PromiseInv, Types
<1>5. CASE UNCHANGED handler
  BY <1>2, <1>5
<1>6. QED
  BY <1>3, <1>4, <1>5 DEF ToolNext, StartCall, ConnectFails, LoseConnection, Cancel, brokerVars

LEMMA ToolTables ==
    ASSUME PromiseInv, PromiseInv', OneAtWork, EntriesOK, NEW c \in Calls, ToolNext(c)
    PROVE  OneAtWork' /\ EntriesOK'
<1>1. \A x \in Handlers : \A g \in Generations : Holds(g, x)' <=> Holds(g, x)
  BY ToolHandlers, EntriesSame
<1>2. ASSUME NEW x \in Handlers PROVE EntryOK(x)'
  <2>1. CASE handler'[x] = handler[x]
    <3>1. game'.generation >= game.generation
      BY ToolHandlers, Constants DEF PromiseInv, Types, GameRecord
    <3>2. QED
      BY <1>1, <2>1, <3>1, EntryStays DEF PromiseInv, EntriesOK
  <2>2. CASE handler[x].phase \in {"none", "responded"} /\ handler'[x].phase \in {"received", "gone"}
             /\ (handler'[x].phase = "received" =>
                    handler[x].phase = "none" /\ handler'[x].response = handler[x].response)
    <3>1. \A g \in Generations : ~Holds(g, x)'
      BY <1>1, <2>2 DEF EntriesOK, EntryOK, Working
    <3>2. QED
      BY <2>2, <3>1 DEF EntriesOK, EntryOK, Working
  <2>3. QED
    BY <2>1, <2>2, ToolHandlers
<1>3. EntriesOK'
  BY <1>2, ToolHandlers DEF EntriesOK
<1>4. ASSUME NEW d \in Calls
      PROVE  /\ tool'[d].attempt = 2 => handler'[<<d, 1>>].phase \in Over
             /\ tool'[d].phase = "idle" => tool'[d].attempt = 1
  <2>1. PICK h \in Handlers : h = <<d, 1>> /\ CallOf(h) = d
    BY HandlersOf
  <2>2. CASE d = c
    <3>1. ASSUME tool'[c].attempt = 2, tool[c].attempt = 2 PROVE handler'[h].phase \in Over
      BY <2>1, <2>2, <3>1, AttemptIs, ToolHandlers DEF OneAtWork
    <3>2. QED
      BY <2>1, <2>2, <3>1, ToolGoes
  <2>3. CASE d # c
    BY <2>1, <2>3, AttemptIs, ToolHandlers, ToolReplies DEF OneAtWork
  <2>4. QED
    BY <2>2, <2>3
<1>5. QED
  BY <1>3, <1>4 DEF OneAtWork

-----------------------------------------------------------------------------
(* The sessions and the game                                                *)

\* No handler moves, and no session's entries change.
LEMMA FrameTables ==
    ASSUME PromiseInv, PromiseInv', OneAtWork, EntriesOK, UNCHANGED <<tool, handler>>,
           \A g \in Generations : session'[g].pending = session[g].pending,
           game'.generation >= game.generation,
           gameSession' # None => gameSession' <= game'.generation
    PROVE  OneAtWork' /\ EntriesOK'
<1>1. \A x \in Handlers : EntryOK(x)'
  BY EntriesSame, EntryStays DEF PromiseInv, EntriesOK
<1>2. QED
  BY <1>1 DEF EntriesOK, OneAtWork

LEMMA SessionFrames ==
    ASSUME PromiseInv, PromiseInv', OneAtWork, EntriesOK, NEW g \in Generations,
           Register(g) \/ Greet(g) \/ GreetFails(g)
    PROVE  OneAtWork' /\ EntriesOK'
<1>1. UNCHANGED <<tool, handler>> /\ game'.generation = game.generation
      /\ game.generation \in Int
  BY Constants DEF Register, Greet, GreetFails, PromiseInv, Types, GameRecord
<1>2. \A k \in Generations : session'[k].pending = session[k].pending
  BY DisconnectedSame DEF Register, Greet, GreetFails, PromiseInv, Types, SessionRecord
<1>3. gameSession' # None => gameSession' <= game'.generation
  BY <1>1 DEF Register, Greet, GreetFails, EntriesOK, Generations
<1>4. QED
  BY <1>1, <1>2, <1>3, FrameTables

LEMMA GameFrames ==
    ASSUME PromiseInv, PromiseInv', OneAtWork, EntriesOK,
           Dial \/ Drop \/ WriteResponseFails \/ Execute \/ GameCrash \/ LedgerClock
              \/ UNCHANGED vars
    PROVE  OneAtWork' /\ EntriesOK'
<1>1. UNCHANGED <<tool, handler, session, gameSession>>
  BY DEF Dial, Drop, WriteResponseFails, Execute, GameCrash, LedgerClock, vars, brokerVars
<1>2. game.generation \in Int /\ game'.generation >= game.generation
  <2>1. PICK e \in GameRecord : e = game /\ e.generation \in Int
    BY Constants DEF PromiseInv, Types, GameRecord
  <2>2. CASE Dial
    <3>1. PICK n : n = e.generation + 1
      OBVIOUS
    <3>2. game' = [e EXCEPT !.link = "hello", !.generation = n]
      BY <2>1, <2>2, <3>1 DEF Dial
    <3>3. game'.generation = n
      BY <2>1, <3>2 DEF GameRecord
    <3>4. QED
      BY <2>1, <3>1, <3>3
  <2>3. CASE Drop \/ WriteResponseFails \/ Execute \/ GameCrash
    <3>1. game'.generation = e.generation
      BY <2>1, <2>3 DEF Drop, WriteResponseFails, Execute, GameCrash, Hangup, GameRecord
    <3>2. QED
      BY <2>1, <3>1
  <2>4. CASE UNCHANGED game
    BY <2>1, <2>4
  <2>5. QED
    BY <2>2, <2>3, <2>4 DEF LedgerClock, vars
<1>3. gameSession' # None => gameSession' <= game'.generation
  BY <1>1, <1>2 DEF EntriesOK, PromiseInv, Types, GameRecord, Generations
<1>4. QED
  BY <1>1, <1>2, <1>3, FrameTables

\* Handlers are completed and their entries taken out in one step.
LEMMA CompleteTables ==
    ASSUME PromiseInv, PromiseInv', OneAtWork, EntriesOK, NEW g \in Generations, NEW hs,
           NEW response \in Response, handler' = Complete(hs, response),
           \A x \in Handlers \cap hs : Holds(g, x),
           \A x \in Handlers : \A k \in Generations :
               Holds(k, x)' <=> Holds(k, x) /\ x \notin hs,
           UNCHANGED tool, game'.generation = game.generation,
           gameSession' \in {gameSession, None}
    PROVE  OneAtWork' /\ EntriesOK'
<1>1. response # None
  BY NoneAssumption
<1>2. ASSUME NEW x \in Handlers PROVE EntryOK(x)' /\ handler'[x].phase = handler[x].phase
  <2>1. CASE x \notin hs
    <3>1. handler'[x] = handler[x]
      BY <2>1 DEF Complete
    <3>2. game'.generation >= game.generation
      BY Constants DEF PromiseInv, Types, GameRecord
    <3>3. QED
      BY <2>1, <3>1, <3>2, EntryStays DEF PromiseInv, EntriesOK
  <2>2. CASE x \in hs
    <3>1. /\ handler[x].session = g /\ handler[x].response = None
          /\ handler[x].phase \in Working \ {"accepted"}
      BY <2>2 DEF EntriesOK, EntryOK
    <3>2. PICK s \in HandlerRecord : s = handler[x]
      BY DEF PromiseInv, Types
    <3>3. handler'[x] = [s EXCEPT !.response = response]
      BY <2>2, <3>1, <3>2 DEF Complete
    <3>4. /\ handler'[x].response = response /\ handler'[x].session = handler[x].session
          /\ handler'[x].phase = handler[x].phase
      BY <3>2, <3>3 DEF HandlerRecord
    <3>5. \A k \in Generations : ~Holds(k, x)'
      BY <2>2
    <3>6. QED
      BY <1>1, <3>1, <3>4, <3>5 DEF EntriesOK, EntryOK, SessionOf, Working
  <2>3. QED
    BY <2>1, <2>2
<1>3. EntriesOK'
  BY <1>2 DEF EntriesOK
<1>4. OneAtWork'
  BY <1>2, HandlersOf DEF OneAtWork
<1>5. QED
  BY <1>3, <1>4

LEMMA EndTables ==
    ASSUME PromiseInv, PromiseInv', OneAtWork, EntriesOK, NEW g \in Generations, SessionEnd(g)
    PROVE  OneAtWork' /\ EntriesOK'
<1>1. PICK hs : hs = {session[g].pending[id] : id \in RequestIds}
  OBVIOUS
<1>2. PICK f \in Response : f = Failure("delivery_unknown")
  BY FailureIs DEF Ambiguous
<1>3. handler' = Complete(hs, f)
  BY <1>1, <1>2 DEF SessionEnd
<1>4. ASSUME NEW x \in Handlers PROVE x \in hs <=> Holds(g, x)
  <2>1. Id(x) \in RequestIds /\ x # None
    BY HandlerIs, NoneAssumption DEF Handlers
  <2>2. QED
    BY <1>1, <2>1 DEF Holds, PromiseInv, OwnEntries
<1>5. ASSUME NEW x \in Handlers, NEW k \in Generations
      PROVE  Holds(k, x)' <=> Holds(k, x) /\ x \notin hs
  <2>1. Id(x) \in RequestIds /\ x # None
    BY HandlerIs, NoneAssumption DEF Handlers
  <2>2. Holds(k, x)' <=> session'[k].pending[Id(x)] = x
    BY DEF Holds, Id, CallOf
  <2>3. CASE k = g
    BY <1>4, <2>1, <2>2, <2>3 DEF SessionEnd, PromiseInv, Types
  <2>4. CASE k # g
    <3>1. session'[k] = session[k]
      BY <2>4 DEF SessionEnd, PromiseInv, Types
    <3>2. Holds(k, x) => x \notin hs
      BY <1>4, <2>4 DEF EntriesOK, EntryOK
    <3>3. QED
      BY <2>2, <3>1, <3>2 DEF Holds
  <2>5. QED
    BY <2>3, <2>4
<1>6. QED
  BY <1>3, <1>4, <1>5, CompleteTables DEF SessionEnd

LEMMA WriteTables ==
    ASSUME PromiseInv, PromiseInv', OneAtWork, EntriesOK, WriteResponse
    PROVE  OneAtWork' /\ EntriesOK'
<1>1. PICK e \in Queued : e = Head(game.outbound)
  BY TailIs DEF WriteResponse, PromiseInv, Types, GameRecord
<1>2. PICK g \in Generations : g = game.generation
  BY DEF WriteResponse, PromiseInv, Types
<1>3. PICK id \in RequestIds : id = e.id
  BY DEF Queued
<1>4. PICK r \in Response : r = e.response
  BY DEF Queued
<1>5. PICK hs : hs = {session[g].pending[id]}
  OBVIOUS
<1>6. /\ handler' = Complete(hs, r)
      /\ session' = [session EXCEPT ![g].pending[id] = None]
      /\ UNCHANGED <<tool, gameSession>> /\ game'.generation = game.generation
  BY <1>1, <1>2, <1>3, <1>4, <1>5 DEF WriteResponse, PromiseInv, Types, GameRecord
<1>7. ASSUME NEW x \in Handlers PROVE x \in hs <=> Holds(g, x) /\ Id(x) = id
  <2>1. x # None
    BY NoneAssumption DEF Handlers
  <2>2. QED
    BY <1>5, <2>1 DEF Holds, PromiseInv, OwnEntries
<1>8. ASSUME NEW x \in Handlers, NEW k \in Generations
      PROVE  Holds(k, x)' <=> Holds(k, x) /\ x \notin hs
  <2>1. Id(x) \in RequestIds /\ x # None
    BY HandlerIs, NoneAssumption DEF Handlers
  <2>2. Holds(k, x)' <=> session'[k].pending[Id(x)] = x
    BY DEF Holds, Id, CallOf
  <2>3. session'[k].pending[Id(x)] = IF k = g /\ Id(x) = id THEN None
                                     ELSE session[k].pending[Id(x)]
    BY <1>6, <2>1 DEF PromiseInv, Types, SessionRecord
  <2>4. Holds(k, x) /\ x \in hs => k = g /\ Id(x) = id
    BY <1>7 DEF EntriesOK, EntryOK
  <2>5. QED
    BY <1>7, <2>1, <2>2, <2>3, <2>4 DEF Holds
<1>9. QED
  BY <1>6, <1>7, <1>8, CompleteTables

LEMMA ReadTables ==
    ASSUME UniqueIds, PromiseInv, PromiseInv', OneAtWork, EntriesOK, NEW h \in Handlers,
           ReadTooEarly(h) \/ ReadRequest(h)
    PROVE  OneAtWork' /\ EntriesOK'
<1>1. PICK s \in HandlerRecord : s = handler[h] /\ s.phase = "added"
  BY DEF ReadTooEarly, ReadRequest, Reading, PromiseInv, Types
<1>2. PICK t : t = [s EXCEPT !.phase = "written"]
  OBVIOUS
<1>3. t.phase = "written" /\ t.session = s.session /\ t.response = s.response
  BY <1>2 DEF HandlerRecord
<1>4. handler' = [x \in Handlers |-> IF x = h THEN t ELSE handler[x]]
  BY <1>1, <1>2 DEF ReadTooEarly, ReadRequest, Advance, PromiseInv, Types
<1>5. \A x \in Handlers : \A g \in Generations : Holds(g, x)' <=> Holds(g, x)
  BY EntriesSame DEF ReadTooEarly, ReadRequest
<1>6. UNCHANGED <<tool, gameSession>> /\ game'.generation = game.generation
  BY DEF ReadTooEarly, ReadRequest, Hangup, PromiseInv, Types, GameRecord
<1>7. EntryOK(h)'
  BY <1>1, <1>3, <1>4, <1>5, <1>6 DEF EntriesOK, EntryOK, SessionOf, Working
<1>8. HandlerStep(h, t)
  BY <1>1, <1>4, <1>5, <1>6 DEF HandlerStep, Over
<1>9. QED
  BY <1>7, <1>8, HandlerStepKeeps

LEMMA CrashTables ==
    ASSUME PromiseInv, PromiseInv', OneAtWork, EntriesOK, BrokerCrash
    PROVE  OneAtWork' /\ EntriesOK'
<1>1. ASSUME NEW h \in Handlers
      PROVE  /\ handler[h].phase = "none" => handler'[h] = handler[h]
             /\ handler[h].phase # "none" => handler'[h].phase = "gone"
             /\ handler'[h].phase \in Over
  BY GoneIs DEF BrokerCrash, Over
<1>2. ASSUME NEW h \in Handlers, NEW g \in Generations PROVE ~Holds(g, h)'
  <2>1. Id(h) \in RequestIds /\ h # None
    BY HandlerIs, NoneAssumption DEF Handlers
  <2>2. Holds(g, h)' <=> session'[g].pending[Id(h)] = h
    BY DEF Holds, Id, CallOf
  <2>3. CASE g > game.generation
    <3>1. ~Holds(g, h)
      <4>1. g \in Int /\ game.generation \in Int
        BY Constants DEF Generations, PromiseInv, Types, GameRecord
      <4>2. QED
        BY <2>3, <4>1 DEF EntriesOK, EntryOK, SessionOf
    <3>2. session'[g] = session[g]
      BY <2>3 DEF BrokerCrash
    <3>3. QED
      BY <2>2, <3>1, <3>2 DEF Holds
  <2>4. CASE ~(g > game.generation)
    BY <2>1, <2>2, <2>4 DEF BrokerCrash
  <2>5. QED
    BY <2>3, <2>4
<1>3. \A h \in Handlers : EntryOK(h)'
  BY <1>1, <1>2 DEF EntriesOK, EntryOK, Working, Over
<1>4. EntriesOK'
  BY <1>3 DEF EntriesOK, BrokerCrash
<1>5. OneAtWork'
  BY <1>1, HandlersOf DEF OneAtWork, BrokerCrash
<1>6. QED
  BY <1>4, <1>5

LEMMA TablesNext ==
    ASSUME UniqueIds, PromiseInv, OneAtWork, EntriesOK, [Next]_vars
    PROVE  OneAtWork' /\ EntriesOK'
<1>1. PromiseInv'
  BY PromiseNext
<1>2. QED
  BY <1>1, ToolTables, HandlerTables, SessionFrames, EndTables, GameFrames, WriteTables,
     ReadTables, CrashTables DEF Next, SessionNext, GameNext

LEMMA TablesInit == ASSUME Init PROVE OneAtWork /\ EntriesOK
<1>1. ASSUME NEW h \in Handlers, NEW g \in Generations PROVE ~Holds(g, h)
  <2>1. Id(h) \in RequestIds /\ h # None
    BY HandlerIs, NoneAssumption DEF Handlers
  <2>2. QED
    BY <2>1 DEF Init, Holds
<1>2. \A h \in Handlers : handler[h].phase = "none" /\ handler[h].response = None
  BY DEF Init, Idle
<1>3. EntriesOK
  BY <1>1, <1>2 DEF EntriesOK, EntryOK, Working, Init
<1>4. OneAtWork
  BY DEF OneAtWork, Init
<1>5. QED
  BY <1>3, <1>4

-----------------------------------------------------------------------------
(* The ledger's count of the requests at work                               *)

WorkStays ==
    \A h \in Handlers :
        /\ handler'[h].phase \in Working <=> handler[h].phase \in Working
        /\ handler[h].phase \in Working => Identity(h)' = Identity(h)

LEMMA RunningStays == ASSUME RunningOK, UNCHANGED running, WorkStays PROVE RunningOK'
<1>1. ASSUME NEW i, NEW h \in Handlers PROVE AtWork(h, i)' <=> AtWork(h, i)
  BY DEF WorkStays, AtWork
<1>2. ASSUME NEW i PROVE (\E h \in Handlers : AtWork(h, i))' <=> \E h \in Handlers : AtWork(h, i)
  BY <1>1 DEF Handlers
<1>3. QED
  BY <1>2 DEF RunningOK, Ledger!Identity

\* No other handler is at work for the identity of an active handler.
LEMMA NoOther ==
    ASSUME UniqueIds, PromiseInv, OneAtWork, NEW h \in Handlers, handler[h].phase \notin Over,
           NEW x \in Handlers, x # h
    PROVE  ~AtWork(x, Identity(h))
<1>1. SUFFICES ASSUME AtWork(x, Identity(h)) PROVE FALSE
  OBVIOUS
<1>2. Id(x) = Id(h)
  <2>1. Identity(x).id = Id(x) /\ Identity(h).id = Id(h)
    BY DEF Identity
  <2>2. QED
    BY <1>1, <2>1 DEF AtWork
<1>3. handler[x].phase \notin Over
  BY <1>1 DEF AtWork, Working, Over
<1>4. QED
  BY <1>2, <1>3, OneActive

\* One handler begins or ends its work, and the ledger counts it.
Counts(h, n) ==
    \A i \in Ledger!Identity : running'[i] = IF i = Identity(h) THEN n ELSE running[i]

LEMMA RunningMoves ==
    ASSUME UniqueIds, PromiseInv, OneAtWork, RunningOK, NEW h \in Handlers, NEW t,
           handler[h].phase \notin Over, UNCHANGED tool,
           handler' = [x \in Handlers |-> IF x = h THEN t ELSE handler[x]],
           running' \in [Ledger!Identity -> Nat],
           Counts(h, IF t.phase \in Working THEN 1 ELSE 0)
    PROVE  RunningOK'
<1>1. \A x \in Handlers : Identity(x)' = Identity(x)
  BY DEF Identity, CallOf, Id
<1>2. ASSUME NEW i \in Ledger!Identity
      PROVE  running'[i] = IF \E x \in Handlers : AtWork(x, i)' THEN 1 ELSE 0
  <2>1. ASSUME NEW x \in Handlers, x # h PROVE AtWork(x, i)' <=> AtWork(x, i)
    BY <1>1, <2>1 DEF AtWork
  <2>2. AtWork(h, i)' <=> t.phase \in Working /\ i = Identity(h)
    BY <1>1 DEF AtWork
  <2>3. CASE i = Identity(h)
    BY <2>1, <2>2, <2>3, NoOther DEF Counts
  <2>4. CASE i # Identity(h)
    <3>1. ~AtWork(h, i) /\ ~AtWork(h, i)'
      BY <2>2, <2>4 DEF AtWork
    <3>2. QED
      BY <2>1, <2>4, <3>1 DEF Counts, RunningOK
  <2>5. QED
    BY <2>3, <2>4
<1>3. QED
  BY <1>2 DEF RunningOK, Handlers, Ledger!Identity

LEMMA StartCounts ==
    ASSUME UniqueIds, PromiseInv, OneAtWork, RunningOK, NEW h \in Handlers,
           handler[h].phase = "admitted", Ledger!Start(Identity(h))
    PROVE  Counts(h, 1) /\ running' \in [Ledger!Identity -> Nat]
<1>1. PICK j : j = Identity(h)
  OBVIOUS
<1>2. running' = [running EXCEPT ![j] = @ + 1]
  BY <1>1 DEF Ledger!Start
<1>3. j \in Ledger!Identity => running[j] = 0
  BY <1>1, NoOther DEF RunningOK, AtWork, Working, Over
<1>4. PICK I : I = Ledger!Identity /\ running \in [I -> Nat]
  BY DEF RunningOK
<1>5. PICK n : n = running[j] + 1
  OBVIOUS
<1>6. running' = [running EXCEPT ![j] = n] /\ (j \in I => n = 1)
  BY <1>2, <1>3, <1>4, <1>5
<1>7. running' = [i \in I |-> IF i = j THEN n ELSE running[i]]
  BY <1>4, <1>6
<1>8. running' \in [I -> Nat]
  <2>1. \A i \in I : (IF i = j THEN n ELSE running[i]) \in Nat
    BY <1>4, <1>6
  <2>2. QED
    BY <1>7, <2>1
<1>9. \A i \in I : running'[i] = IF i = j THEN 1 ELSE running[i]
  BY <1>6, <1>7
<1>10. QED
  BY <1>1, <1>4, <1>8, <1>9 DEF Counts

LEMMA ReportCounts ==
    ASSUME RunningOK, NEW h \in Handlers, handler[h].phase \in Working,
           Ledger!Report(Identity(h))
    PROVE  Counts(h, 0) /\ running' \in [Ledger!Identity -> Nat]
<1>1. PICK j : j = Identity(h)
  OBVIOUS
<1>2. running' = [running EXCEPT ![j] = @ - 1]
  BY <1>1 DEF Ledger!Report
<1>3. j \in Ledger!Identity => running[j] = 1
  BY <1>1 DEF RunningOK, AtWork
<1>4. PICK I : I = Ledger!Identity /\ running \in [I -> Nat]
  BY DEF RunningOK
<1>5. PICK n : n = running[j] - 1
  OBVIOUS
<1>6. running' = [running EXCEPT ![j] = n] /\ (j \in I => n = 0)
  BY <1>2, <1>3, <1>4, <1>5
<1>7. running' = [i \in I |-> IF i = j THEN n ELSE running[i]]
  BY <1>4, <1>6
<1>8. running' \in [I -> Nat]
  <2>1. \A i \in I : (IF i = j THEN n ELSE running[i]) \in Nat
    BY <1>4, <1>6
  <2>2. QED
    BY <1>7, <2>1
<1>9. \A i \in I : running'[i] = IF i = j THEN 0 ELSE running[i]
  BY <1>6, <1>7
<1>10. QED
  BY <1>1, <1>4, <1>8, <1>9 DEF Counts

LEMMA ConcludeCounts ==
    ASSUME UniqueIds, PromiseInv, OneAtWork, RunningOK, NEW h \in Handlers, NEW response,
           handler[h].phase \in Working, Conclude(h, response), UNCHANGED tool
    PROVE  RunningOK'
<1>1. handler' = [x \in Handlers |-> IF x = h THEN Responded(response) ELSE handler[x]]
  BY DEF Conclude, Respond, Responded, PromiseInv, Types
<1>2. Ledger!Report(Identity(h))
  BY DEF Conclude, Ledger!MarkCompleted, Ledger!MarkConnectionLost
<1>3. Responded(response).phase \notin Working /\ handler[h].phase \notin Over
  BY DEF Responded, Working, Over
<1>4. QED
  BY <1>1, <1>2, <1>3, ReportCounts, RunningMoves

LEMMA BeginCounts ==
    ASSUME UniqueIds, PromiseInv, OneAtWork, RunningOK, NEW h \in Handlers, Begin(h)
    PROVE  RunningOK'
<1>1. handler[h].phase = "admitted" /\ UNCHANGED tool
  BY DEF Begin
<1>2. CASE Ledger!Disposition(Identity(h)) = "Accepted"
  <2>1. PICK t : t = [handler[h] EXCEPT !.phase = "accepted"]
    OBVIOUS
  <2>2. t.phase \in Working
    BY <2>1 DEF PromiseInv, Types, HandlerRecord, Working
  <2>3. handler' = [x \in Handlers |-> IF x = h THEN t ELSE handler[x]]
    BY <1>2, <2>1 DEF Begin, Advance, PromiseInv, Types
  <2>4. Ledger!Start(Identity(h))
    BY <1>2 DEF Begin, Ledger!TryBegin, Ledger!BeginNew, Ledger!BeginExisting, Ledger!Refuse
  <2>5. QED
    BY <1>1, <2>2, <2>3, <2>4, StartCounts, RunningMoves DEF Over
<1>3. CASE Ledger!Disposition(Identity(h)) # "Accepted"
  <2>1. UNCHANGED running
    BY <1>3 DEF Begin, Ledger!TryBegin, Ledger!BeginNew, Ledger!BeginExisting, Ledger!Refuse
  <2>2. PICK r : handler' = [x \in Handlers |-> IF x = h THEN Responded(r) ELSE handler[x]]
    BY <1>3 DEF Begin, Respond, Responded, PromiseInv, Types
  <2>3. WorkStays
    BY <1>1, <2>2 DEF WorkStays, Responded, Working, Identity, CallOf, Id
  <2>4. QED
    BY <2>1, <2>3, RunningStays
<1>4. QED
  BY <1>2, <1>3

LEMMA HandlerCounts ==
    ASSUME UniqueIds, PromiseInv, OneAtWork, RunningOK, NEW h \in Handlers, HandlerNext(h)
    PROVE  RunningOK'
<1>1. ASSUME UNCHANGED <<tool, running>>, NEW t,
             handler' = [x \in Handlers |-> IF x = h THEN t ELSE handler[x]],
             t.phase \in Working <=> handler[h].phase \in Working
      PROVE  RunningOK'
  <2>1. WorkStays
    BY <1>1 DEF WorkStays, Identity, CallOf, Id
  <2>2. QED
    BY <1>1, <2>1, RunningStays
<1>2. ASSUME NEW phase, Advance(h, phase), UNCHANGED <<tool, running>>,
             phase \in Working <=> handler[h].phase \in Working
      PROVE  RunningOK'
  <2>1. PICK t : t = [handler[h] EXCEPT !.phase = phase]
    OBVIOUS
  <2>2. t.phase = phase
    BY <2>1 DEF PromiseInv, Types, HandlerRecord
  <2>3. handler' = [x \in Handlers |-> IF x = h THEN t ELSE handler[x]]
    BY <1>2, <2>1 DEF Advance, PromiseInv, Types
  <2>4. QED
    BY <1>1, <1>2, <2>2, <2>3
<1>3. CASE AdmitRequest(h)
  <2>1. PICK t : t = [handler[h] EXCEPT !.phase = "admitted", !.session = gameSession]
    OBVIOUS
  <2>2. t.phase = "admitted"
    BY <2>1 DEF PromiseInv, Types, HandlerRecord
  <2>3. handler' = [x \in Handlers |-> IF x = h THEN t ELSE handler[x]]
    BY <1>3, <2>1 DEF AdmitRequest, PromiseInv, Types
  <2>4. QED
    BY <1>1, <1>3, <2>2, <2>3 DEF AdmitRequest, ledgerVars, Working
<1>4. CASE RefuseOffline(h) \/ ExpireLease(h)
  <2>1. PICK r : handler' = [x \in Handlers |-> IF x = h THEN Responded(r) ELSE handler[x]]
    BY <1>4 DEF RefuseOffline, ExpireLease, Respond, Responded, PromiseInv, Types
  <2>2. UNCHANGED <<tool, running>> /\ handler[h].phase = "received"
    BY <1>4 DEF RefuseOffline, ExpireLease, ledgerVars
  <2>3. QED
    BY <1>1, <2>1, <2>2 DEF Responded, Working
<1>5. CASE AddPending(h)
  <2>1. handler[h].phase = "accepted" /\ UNCHANGED tool
    BY <1>5 DEF AddPending
  <2>2. CASE Advance(h, "added") /\ UNCHANGED ledgerVars
    BY <1>2, <2>1, <2>2 DEF ledgerVars, Working
  <2>3. CASE Conclude(h, Failure("duplicate_request"))
    BY <2>1, <2>3, ConcludeCounts DEF Working
  <2>4. QED
    BY <1>5, <2>2, <2>3 DEF AddPending
<1>6. CASE FlushDone(h) \/ Timeout(h)
  BY <1>2, <1>6 DEF FlushDone, Timeout, ledgerVars, Working
<1>7. CASE WriteFails(h) \/ Resume(h) \/ RemoveTimedOut(h)
  BY <1>7, ConcludeCounts DEF WriteFails, Resume, RemoveTimedOut, Working
<1>8. QED
  BY <1>3, <1>4, <1>5, <1>6, <1>7, BeginCounts DEF HandlerNext

LEMMA ToolCounts ==
    ASSUME PromiseInv, OneAtWork, RunningOK, NEW c \in Calls, ToolNext(c)
    PROVE  RunningOK'
<1>1. UNCHANGED running
  BY DEF ToolNext, StartCall, Connect, ConnectFails, ReceiveResponse, LoseConnection, Cancel,
         brokerVars, ledgerVars
<1>2. ASSUME NEW h \in Handlers PROVE handler'[h].phase \in Working <=> handler[h].phase \in Working
  BY ToolHandlers DEF Working
<1>3. ASSUME NEW h \in Handlers, handler[h].phase \in Working PROVE Identity(h)' = Identity(h)
  <2>1. PICK d \in Calls : d = CallOf(h) /\ (h = <<d, 1>> \/ h = <<d, 2>>)
    BY HandlerIs
  <2>2. tool[d].phase # "idle"
    <3>1. SUFFICES ASSUME tool[d].phase = "idle" PROVE FALSE
      OBVIOUS
    <3>2. tool[d].attempt = 1
      BY <3>1 DEF OneAtWork
    <3>3. handler[<<d, 1>>].phase = "none" /\ handler[<<d, 2>>].phase = "none"
      BY <3>1, <3>2, AttemptIs DEF PromiseInv, Attempts
    <3>4. QED
      BY <1>3, <2>1, <3>3 DEF Working
  <2>3. tool'[d].sequence = tool[d].sequence
    BY <2>2, ToolGoes, ToolReplies
  <2>4. QED
    BY <2>1, <2>3 DEF Identity, CallOf, Id
<1>4. QED
  BY <1>1, <1>2, <1>3, RunningStays DEF WorkStays

\* The other steps keep the ledger, and every handler's phase.
LEMMA FrameCounts ==
    ASSUME RunningOK, UNCHANGED <<tool, running>>,
           \A h \in Handlers : handler'[h].phase \in Working <=> handler[h].phase \in Working
    PROVE  RunningOK'
<1>1. WorkStays
  BY DEF WorkStays, Identity, CallOf, Id
<1>2. QED
  BY <1>1, RunningStays

LEMMA CompletePhases ==
    ASSUME PromiseInv, NEW hs, NEW response, handler' = Complete(hs, response),
           NEW h \in Handlers
    PROVE  handler'[h].phase = handler[h].phase
<1>1. PICK s \in HandlerRecord : s = handler[h]
  BY DEF PromiseInv, Types
<1>2. handler'[h] \in {s, [s EXCEPT !.response = response]}
  BY <1>1 DEF Complete
<1>3. QED
  BY <1>1, <1>2 DEF HandlerRecord

LEMMA CrashCounts == ASSUME PromiseInv, BrokerCrash PROVE RunningOK'
<1>1. \A h \in Handlers : handler'[h].phase \notin Working
  BY GoneIs DEF BrokerCrash, Working
<1>2. \A i : ~(\E h \in Handlers : AtWork(h, i))'
  BY <1>1 DEF AtWork, Handlers
<1>3. running' = [i \in Ledger!Identity |-> 0]
  BY DEF BrokerCrash, Ledger!Restart, Ledger!NothingRunning
<1>4. QED
  BY <1>2, <1>3 DEF RunningOK, Ledger!Identity

LEMMA CountsNext ==
    ASSUME UniqueIds, PromiseInv, OneAtWork, RunningOK, [Next]_vars
    PROVE  RunningOK'
<1>1. ASSUME NEW g \in Generations, SessionNext(g) PROVE RunningOK'
  <2>1. UNCHANGED <<tool, running>>
    BY <1>1 DEF SessionNext, Register, Greet, GreetFails, SessionEnd, ledgerVars
  <2>2. \A h \in Handlers : handler'[h].phase = handler[h].phase
    BY <1>1, CompletePhases DEF SessionNext, Register, Greet, GreetFails, SessionEnd
  <2>3. QED
    BY <2>1, <2>2, FrameCounts
<1>2. CASE GameNext
  <2>1. UNCHANGED <<tool, running>>
    BY <1>2 DEF GameNext, Dial, Drop, WriteResponse, WriteResponseFails, Execute, ReadTooEarly,
                ReadRequest, brokerVars, ledgerVars
  <2>2. CASE WriteResponse
    BY <2>1, <2>2, CompletePhases, FrameCounts DEF WriteResponse
  <2>3. ASSUME NEW h \in Handlers, ReadTooEarly(h) \/ ReadRequest(h) PROVE RunningOK'
    <3>1. PICK t : t = [handler[h] EXCEPT !.phase = "written"]
      OBVIOUS
    <3>2. t.phase = "written"
      BY <3>1 DEF PromiseInv, Types, HandlerRecord
    <3>3. handler' = [x \in Handlers |-> IF x = h THEN t ELSE handler[x]]
      BY <2>3, <3>1 DEF ReadTooEarly, ReadRequest, Advance, PromiseInv, Types
    <3>4. handler[h].phase = "added"
      BY <2>3 DEF ReadTooEarly, ReadRequest, Reading
    <3>5. \A x \in Handlers : handler'[x].phase \in Working <=> handler[x].phase \in Working
      BY <3>2, <3>3, <3>4 DEF Working
    <3>6. QED
      BY <2>1, <3>5, FrameCounts
  <2>4. CASE UNCHANGED handler
    BY <2>1, <2>4, FrameCounts
  <2>5. QED
    BY <1>2, <2>2, <2>3, <2>4 DEF GameNext, Dial, Drop, WriteResponseFails, Execute, brokerVars
<1>3. CASE GameCrash \/ LedgerClock \/ UNCHANGED vars
  <2>1. UNCHANGED <<tool, running, handler>>
    BY <1>3 DEF GameCrash, LedgerClock, Ledger!Tick, vars, brokerVars, ledgerVars
  <2>2. QED
    BY <2>1, FrameCounts
<1>4. QED
  BY <1>1, <1>2, <1>3, ToolCounts, HandlerCounts, CrashCounts DEF Next

LEMMA CountsInit == ASSUME Init PROVE RunningOK
<1>1. \A h \in Handlers : handler[h].phase = "none"
  BY DEF Init, Idle
<1>2. \A i : ~\E h \in Handlers : AtWork(h, i)
  BY <1>1 DEF AtWork, Working
<1>3. running = [i \in Ledger!Identity |-> 0]
  BY DEF Init, Ledger!Init, Ledger!NothingRunning
<1>4. QED
  BY <1>2, <1>3 DEF RunningOK

-----------------------------------------------------------------------------
(* The theorems                                                             *)

\* Each handler's entry in its session and its count in the ledger agree with
\* what the handler does, in every reachable state.
LEMMA TablesInvariant == ASSUME UniqueIds PROVE Spec => []TablesInv
<1>1. Init => TablesInv
  BY TablesInit, CountsInit DEF TablesInv
<1>2. PromiseInv /\ TablesInv /\ [Next]_vars => TablesInv'
  BY TablesNext, CountsNext DEF TablesInv
<1>3. Spec => []PromiseInv
  BY PromiseInvariant
<1>4. QED
  BY <1>1, <1>2, <1>3, PTL DEF Spec

\* A handler that waits is found under its request id in its session until it
\* is completed, and a session holds only handlers still at work in it
\* (InvokeAsync, the session's reader, its end and the timer).
THEOREM EntriesFound == ASSUME UniqueIds PROVE Spec => []PendingMatchesHandlers
<1>1. TablesInv => PendingMatchesHandlers
  BY DEF TablesInv, EntriesOK, EntryOK, Holds, PendingMatchesHandlers
<1>2. Spec => []TablesInv
  BY TablesInvariant
<1>3. QED
  BY <1>1, <1>2, PTL

\* Every entry in progress in the ledger has exactly one handler that is yet to
\* report (InvokeAsync and the ledger's TryBegin, MarkCompleted and
\* MarkConnectionLost).
THEOREM EntriesHeld == ASSUME UniqueIds PROVE Spec => []HandlersHoldEntries
<1>1. ASSUME PromiseInv, TablesInv PROVE HandlersHoldEntries
  <2>1. SUFFICES ASSUME NEW i \in Ledger!Identity
                 PROVE  running[i] = Cardinality({h \in Handlers : AtWork(h, i)})
    BY DEF HandlersHoldEntries, AtWork
  <2>2. CASE \E h \in Handlers : AtWork(h, i)
    <3>1. PICK h \in Handlers : AtWork(h, i)
      BY <2>2
    <3>2. handler[h].phase \notin Over /\ i = Identity(h)
      BY <3>1 DEF AtWork, Working, Over
    <3>3. {x \in Handlers : AtWork(x, i)} = {h}
      BY <1>1, <3>1, <3>2, NoOther DEF TablesInv
    <3>4. running[i] = 1
      BY <1>1, <2>2 DEF TablesInv, RunningOK
    <3>5. QED
      BY <3>3, <3>4, FS_Singleton
  <2>3. CASE ~\E h \in Handlers : AtWork(h, i)
    <3>1. {x \in Handlers : AtWork(x, i)} = {}
      BY <2>3
    <3>2. running[i] = 0
      BY <1>1, <2>3 DEF TablesInv, RunningOK
    <3>3. QED
      BY <3>1, <3>2, FS_EmptySet
  <2>4. QED
    BY <2>2, <2>3
<1>2. Spec => []PromiseInv
  BY PromiseInvariant
<1>3. Spec => []TablesInv
  BY TablesInvariant
<1>4. QED
  BY <1>1, <1>2, <1>3, PTL

-----------------------------------------------------------------------------
(* Sequences: a client numbers its calls, and a call at work has the last one *)

StartedBy(k) == {c \in Calls : ClientOf[c] = k /\ tool[c].phase # "idle"}
NumberOK(c) ==
    /\ tool[c].phase = "idle" <=> tool[c].sequence = 0
    /\ tool[c].sequence <= sequence[ClientOf[c]]
    /\ Active(c) => tool[c].sequence = sequence[ClientOf[c]]
Numbered ==
    /\ \A c \in Calls : NumberOK(c)
    /\ \A c, d \in Calls :
          c # d /\ ClientOf[c] = ClientOf[d] /\ tool[c].sequence = tool[d].sequence
             => tool[c].sequence = 0
    /\ \A k \in Clients : sequence[k] <= Cardinality(StartedBy(k))

LEMMA Numbers ==
    ASSUME Types
    PROVE  /\ \A c \in Calls : ClientOf[c] \in Clients /\ tool[c].sequence \in Nat
           /\ \A k \in Clients : sequence[k] \in Nat /\ Cardinality(StartedBy(k)) \in Nat
                                  /\ IsFiniteSet(StartedBy(k))
                                  /\ Cardinality(StartedBy(k)) <= Cardinality(Calls)
           /\ Cardinality(Calls) \in Nat
<1>1. \A c \in Calls : ClientOf[c] \in Clients /\ tool[c].sequence \in Nat
  BY BridgeAssumption DEF BridgeAssumption, Types, ToolRecord
<1>2. Cardinality(Calls) \in Nat
  BY LedgerLimits, FS_CardinalityType DEF LedgerLimits
<1>3. ASSUME NEW k \in Clients
      PROVE  /\ sequence[k] \in Nat /\ Cardinality(StartedBy(k)) \in Nat
             /\ IsFiniteSet(StartedBy(k)) /\ Cardinality(StartedBy(k)) <= Cardinality(Calls)
  <2>1. StartedBy(k) \subseteq Calls
    BY DEF StartedBy
  <2>2. IsFiniteSet(StartedBy(k)) /\ Cardinality(StartedBy(k)) <= Cardinality(Calls)
    BY <2>1, LedgerLimits, FS_Subset DEF LedgerLimits
  <2>3. QED
    BY <2>2, FS_CardinalityType DEF Types
<1>4. QED
  BY <1>1, <1>2, <1>3

\* A step of the transport begins a call, or is one of a call at work.
LEMMA CallSteps ==
    ASSUME PromiseInv, NEW c \in Calls, ToolNext(c)
    PROVE  \/ StartCall(c)
           \/ /\ Active(c) /\ UNCHANGED sequence /\ tool'[c].phase # "idle"
              /\ tool'[c].sequence = tool[c].sequence
<1>1. tool'[c].phase # "idle" /\ (tool[c].phase # "idle" => tool'[c].sequence = tool[c].sequence)
  BY ToolGoes
<1>2. StartCall(c) \/ (Active(c) /\ UNCHANGED sequence)
  BY DEF ToolNext, Connect, ConnectFails, ReceiveResponse, LoseConnection, Cancel, Active
<1>3. Active(c) => tool[c].phase # "idle"
  BY DEF Active
<1>4. QED
  BY <1>1, <1>2, <1>3

LEMMA StartsNumbered ==
    ASSUME PromiseInv, PromiseInv', Numbered, NEW c \in Calls, StartCall(c) PROVE Numbered'
<1>1. PICK k \in Clients : k = ClientOf[c]
  BY Numbers DEF PromiseInv
<1>2. PICK n \in Nat : n = sequence[k] + 1
  BY Numbers DEF PromiseInv
<1>3. \A j \in Clients : sequence'[j] = IF j = k THEN n ELSE sequence[j]
  BY <1>1, <1>2 DEF StartCall, PromiseInv, Types
<1>4. /\ tool'[c].phase = "connecting" /\ tool'[c].sequence = n
      /\ \A d \in Calls : d # c => tool'[d] = tool[d]
  <2>1. PICK s \in ToolRecord : s = tool[c]
    BY DEF PromiseInv, Types
  <2>2. PICK t : t = [s EXCEPT !.phase = "connecting", !.sequence = n]
    OBVIOUS
  <2>3. t.phase = "connecting" /\ t.sequence = n
    BY <2>2 DEF ToolRecord
  <2>4. tool' = [tool EXCEPT ![c] = t]
    BY <1>1, <1>2, <2>1, <2>2 DEF StartCall
  <2>5. QED
    BY <2>3, <2>4 DEF PromiseInv, Types
<1>5. \A d \in Calls : ClientOf[d] = k => tool[d].sequence < n /\ ~Active(d)
  BY <1>1, <1>2, Numbers DEF Numbered, NumberOK, StartCall, PromiseInv
<1>6. ASSUME NEW d \in Calls PROVE NumberOK(d)'
  <2>1. CASE d = c
    BY <1>1, <1>2, <1>3, <1>4, <2>1, Numbers DEF NumberOK, PromiseInv
  <2>2. CASE d # c
    <3>1. tool'[d] = tool[d] /\ (Active(d)' <=> Active(d))
      BY <1>4, <2>2 DEF Active
    <3>2. QED
      BY <1>2, <1>3, <1>5, <3>1, Numbers DEF Numbered, NumberOK, PromiseInv
  <2>3. QED
    BY <2>1, <2>2
<1>7. ASSUME NEW d \in Calls, NEW e \in Calls, d # e, ClientOf[d] = ClientOf[e],
             tool'[d].sequence = tool'[e].sequence
      PROVE  tool'[d].sequence = 0
  BY <1>1, <1>4, <1>5, <1>7, Numbers DEF Numbered, PromiseInv
<1>8. ASSUME NEW j \in Clients PROVE sequence'[j] <= Cardinality(StartedBy(j))'
  <2>1. CASE j = k
    <3>1. PICK S : S = StartedBy(k) /\ IsFiniteSet(S) /\ Cardinality(S) \in Nat
      BY Numbers DEF PromiseInv
    <3>2. c \notin S /\ StartedBy(k)' = S \cup {c}
      BY <1>1, <1>4, <3>1 DEF StartedBy, StartCall
    <3>3. Cardinality(StartedBy(k)') = Cardinality(S) + 1
      BY <3>1, <3>2, FS_AddElement
    <3>4. sequence[k] <= Cardinality(S) /\ sequence[k] \in Nat
      BY <3>1, Numbers DEF Numbered, PromiseInv
    <3>5. QED
      BY <1>2, <1>3, <2>1, <3>1, <3>3, <3>4
  <2>2. CASE j # k
    <3>1. StartedBy(j)' = StartedBy(j)
      BY <1>1, <1>4, <2>2 DEF StartedBy
    <3>2. QED
      BY <1>3, <2>2, <3>1 DEF Numbered
  <2>3. QED
    BY <2>1, <2>2
<1>9. QED
  BY <1>6, <1>7, <1>8 DEF Numbered

LEMMA NumbersNext ==
    ASSUME PromiseInv, PromiseInv', Numbered, [Next]_vars PROVE Numbered'
<1>1. ASSUME UNCHANGED sequence,
             \A d \in Calls : /\ tool'[d].sequence = tool[d].sequence
                              /\ tool'[d].phase = "idle" <=> tool[d].phase = "idle"
                              /\ Active(d)' => Active(d)
      PROVE  Numbered'
  <2>1. \A k \in Clients : StartedBy(k)' = StartedBy(k)
    BY <1>1 DEF StartedBy
  <2>2. QED
    BY <1>1, <2>1 DEF Numbered, NumberOK
<1>2. CASE UNCHANGED <<tool, sequence>>
  BY <1>1, <1>2 DEF Active
<1>3. ASSUME NEW c \in Calls, ToolNext(c) PROVE Numbered'
  <2>1. CASE ~StartCall(c)
    <3>1. /\ Active(c) /\ UNCHANGED sequence /\ tool'[c].phase # "idle"
          /\ tool'[c].sequence = tool[c].sequence
      BY <1>3, <2>1, CallSteps
    <3>2. \A d \in Calls : d # c => tool'[d] = tool[d]
      BY <1>3, ToolReplies
    <3>3. QED
      BY <1>1, <3>1, <3>2 DEF Active
  <2>2. QED
    BY <2>1, StartsNumbered
<1>4. ASSUME Next, \A c \in Calls : ~ToolNext(c) PROVE UNCHANGED <<tool, sequence>>
  <2>1. ASSUME NEW h \in Handlers, HandlerNext(h) PROVE UNCHANGED <<tool, sequence>>
    BY <2>1 DEF HandlerNext, AdmitRequest, RefuseOffline, ExpireLease, Begin, AddPending,
         WriteFails, FlushDone, Resume, Timeout, RemoveTimedOut
  <2>2. ASSUME NEW g \in Generations, SessionNext(g) PROVE UNCHANGED <<tool, sequence>>
    BY <2>2 DEF SessionNext, Register, Greet, GreetFails, SessionEnd
  <2>3. GameNext => UNCHANGED <<tool, sequence>>
    BY DEF GameNext, Dial, Drop, WriteResponse, WriteResponseFails, Execute, ReadTooEarly,
         ReadRequest
  <2>4. GameCrash \/ BrokerCrash \/ LedgerClock => UNCHANGED <<tool, sequence>>
    BY DEF GameCrash, BrokerCrash, LedgerClock
  <2>5. QED
    BY <1>4, <2>1, <2>2, <2>3, <2>4 DEF Next
<1>5. QED
  BY <1>2, <1>3, <1>4 DEF vars

LEMMA NumbersInit == ASSUME Init PROVE Numbered
<1>1. \A c \in Calls : tool[c].phase = "idle" /\ tool[c].sequence = 0
  BY DEF Init
<1>2. \A k \in Clients : sequence[k] = 0
  BY DEF Init
<1>3. \A k \in Clients : StartedBy(k) = {}
  BY <1>1 DEF StartedBy
<1>4. \A k \in Clients : sequence[k] <= Cardinality(StartedBy(k))
  BY <1>2, <1>3, FS_EmptySet
<1>5. \A c \in Calls : sequence[ClientOf[c]] = 0
  BY <1>2, BridgeAssumption DEF BridgeAssumption
<1>6. QED
  BY <1>1, <1>4, <1>5 DEF Numbered, NumberOK, Active

-----------------------------------------------------------------------------
(* The ledger in the path: every step of the path is one of the ledger, or  *)
(* leaves it alone                                                          *)

Memory == INSTANCE RequestLedgerProofs WITH Responses <- Response

LEMMA MemoryParameters ==
    /\ Sequences \subseteq Nat \ {0} /\ NoResponse \notin Response /\ Never \notin Nat
    /\ MaximumEntries \in Nat \ {0} /\ MaximumLeaseEntries \in Nat \ {0}
    /\ Lifetime \in Nat /\ LeaseSequenceLifetime \in Nat /\ MaxTime \in Nat
<1>1. Cardinality(Calls) \in Nat
  BY LedgerLimits, FS_CardinalityType DEF LedgerLimits
<1>2. Sequences \subseteq Nat \ {0}
  BY <1>1 DEF Sequences
<1>3. QED
  BY <1>2, LedgerLimits DEF LedgerLimits

\* A handler that has a request speaks of an identity with a number.
LEMMA Identified ==
    ASSUME PromiseInv, OneAtWork, Numbered, NEW h \in Handlers, handler[h].phase # "none"
    PROVE  Identity(h) \in Ledger!Identity /\ Effect(h) \in Ledger!Effect
<1>1. PICK c \in Calls : c = CallOf(h) /\ (h = <<c, 1>> \/ h = <<c, 2>>)
  BY HandlerIs
<1>2. tool[c].phase # "idle"
  <2>1. SUFFICES ASSUME tool[c].phase = "idle" PROVE FALSE
    OBVIOUS
  <2>2. tool[c].attempt = 1
    BY <2>1 DEF OneAtWork
  <2>3. handler[<<c, 1>>].phase = "none" /\ handler[<<c, 2>>].phase = "none"
    BY <2>1, <2>2, AttemptIs DEF PromiseInv, Attempts
  <2>4. QED
    BY <1>1, <2>3
<1>3. tool[c].sequence \in Sequences
  <2>1. PICK n \in Nat : n = tool[c].sequence
    BY Numbers DEF PromiseInv
  <2>2. n # 0
    BY <1>2, <2>1 DEF Numbered, NumberOK
  <2>3. PICK k \in Clients, m \in Nat, l \in Nat :
            k = ClientOf[c] /\ m = sequence[k] /\ l = Cardinality(StartedBy(k))
    BY Numbers DEF PromiseInv
  <2>4. n <= m /\ m <= l
    BY <2>1, <2>3 DEF Numbered, NumberOK
  <2>5. l <= Cardinality(Calls) /\ Cardinality(Calls) \in Nat
    BY <2>3, Numbers DEF PromiseInv
  <2>6. QED
    BY <2>1, <2>2, <2>4, <2>5 DEF Sequences
<1>4. ClientOf[c] \in Clients /\ Id(h) \in RequestIds
  BY <1>1, HandlerIs, Numbers DEF PromiseInv
<1>5. PICK k \in Clients, n \in Sequences, id \in RequestIds :
          k = ClientOf[c] /\ n = tool[c].sequence /\ id = Id(h)
  BY <1>3, <1>4
<1>6. Identity(h) \in Ledger!Identity
  <2>1. Identity(h) = [client |-> k, sequence |-> n, id |-> id]
    BY <1>1, <1>5 DEF Identity
  <2>2. QED
    BY <2>1 DEF Ledger!Identity
<1>7. QED
  BY <1>6 DEF Effect, Ledger!Effect

LEMMA MemoryBegins ==
    ASSUME NEW i \in Ledger!Identity, NEW effect \in Ledger!Effect, Ledger!TryBegin(i, effect)
    PROVE  Memory!Next
<1>1. Ledger!IsFull(i) <=> Memory!IsFull(i)
  BY DEF Ledger!IsFull, Memory!IsFull, Ledger!Cardinality, Memory!Cardinality,
         Ledger!LiveIdentities, Memory!LiveIdentities, Ledger!LiveClients, Memory!LiveClients
<1>2. Memory!TryBegin(i, effect)
  BY <1>1 DEF Ledger!TryBegin, Memory!TryBegin, Ledger!BeginNew, Memory!BeginNew,
         Ledger!BeginExisting, Memory!BeginExisting, Ledger!Refuse, Memory!Refuse,
         Ledger!LiveIdentities, Memory!LiveIdentities, Ledger!Disposition, Memory!Disposition,
         Ledger!ExistingDisposition, Memory!ExistingDisposition, Ledger!IsStale, Memory!IsStale,
         Ledger!LiveClients, Memory!LiveClients,
         Ledger!With, Memory!With, Ledger!LiveRequests, Memory!LiveRequests,
         Ledger!LiveSequences, Memory!LiveSequences, Ledger!NewEntry, Memory!NewEntry,
         Ledger!HighMark, Memory!HighMark, Ledger!Start, Memory!Start,
         Ledger!RetriedEntry, Memory!RetriedEntry
<1>3. i \in Memory!Identity /\ effect \in Memory!Effect
  BY DEF Ledger!Identity, Memory!Identity, Ledger!Effect, Memory!Effect
<1>4. QED
  BY <1>2, <1>3 DEF Memory!Next

LEMMA MemoryConcludes ==
    ASSUME NEW i \in Ledger!Identity, NEW response \in Response,
           Ledger!MarkConnectionLost(i) \/ Ledger!MarkCompleted(i, response)
    PROVE  Memory!Next
<1>1. i \in Memory!Identity
  BY DEF Ledger!Identity, Memory!Identity
<1>2. CASE Ledger!MarkConnectionLost(i)
  <2>1. Memory!MarkConnectionLost(i)
    BY <1>2 DEF Ledger!MarkConnectionLost, Memory!MarkConnectionLost, Ledger!Report, Memory!Report,
         Ledger!InProgress, Memory!InProgress, Ledger!Conclude, Memory!Conclude,
         Ledger!LostState, Memory!LostState
  <2>2. QED
    BY <1>1, <2>1 DEF Memory!Next
<1>3. CASE Ledger!MarkCompleted(i, response)
  <2>1. Memory!MarkCompleted(i, response)
    BY <1>3 DEF Ledger!MarkCompleted, Memory!MarkCompleted, Ledger!Report, Memory!Report,
         Ledger!InProgress, Memory!InProgress, Ledger!Conclude, Memory!Conclude
  <2>2. QED
    BY <1>1, <2>1 DEF Memory!Next
<1>4. QED
  BY <1>2, <1>3

LEMMA HandlerRemembers ==
    ASSUME PromiseInv, OneAtWork, Numbered, NEW h \in Handlers, HandlerNext(h)
    PROVE  Memory!Next \/ UNCHANGED ledgerVars
<1>1. ASSUME NEW response \in Response, handler[h].phase # "none", Conclude(h, response)
      PROVE  Memory!Next
  BY <1>1, Identified, MemoryConcludes DEF Conclude
<1>2. CASE Begin(h)
  <2>1. handler[h].phase # "none" /\ Ledger!TryBegin(Identity(h), Effect(h))
    BY <1>2 DEF Begin
  <2>2. QED
    BY <2>1, Identified, MemoryBegins
<1>3. CASE AddPending(h)
  <2>1. Failure("duplicate_request") \in Response
    BY FailureIs DEF Refusals
  <2>2. QED
    BY <1>1, <1>3, <2>1 DEF AddPending
<1>4. CASE WriteFails(h) \/ RemoveTimedOut(h)
  <2>1. Failure("delivery_unknown") \in Response /\ Failure("game_timeout") \in Response
    BY FailureIs DEF Ambiguous
  <2>2. QED
    BY <1>1, <1>4, <2>1 DEF WriteFails, RemoveTimedOut
<1>5. CASE Resume(h)
  <2>1. handler[h].response \in Response
    BY <1>5 DEF Resume, PromiseInv, Types, HandlerRecord
  <2>2. QED
    BY <1>1, <1>5, <2>1 DEF Resume
<1>6. CASE AdmitRequest(h) \/ RefuseOffline(h) \/ ExpireLease(h) \/ FlushDone(h) \/ Timeout(h)
  BY <1>6 DEF AdmitRequest, RefuseOffline, ExpireLease, FlushDone, Timeout
<1>7. QED
  BY <1>2, <1>3, <1>4, <1>5, <1>6 DEF HandlerNext

LEMMA PathRemembers ==
    ASSUME PromiseInv, OneAtWork, Numbered, [Next]_vars
    PROVE  [Memory!Next]_(Memory!vars)
<1>1. UNCHANGED ledgerVars => UNCHANGED Memory!vars
  BY DEF ledgerVars, Memory!vars
<1>2. ASSUME NEW c \in Calls, ToolNext(c) PROVE UNCHANGED ledgerVars
  BY <1>2 DEF ToolNext, StartCall, Connect, ConnectFails, ReceiveResponse, LoseConnection, Cancel,
       brokerVars
<1>3. ASSUME NEW g \in Generations, SessionNext(g) PROVE UNCHANGED ledgerVars
  BY <1>3 DEF SessionNext, Register, Greet, GreetFails, SessionEnd
<1>4. CASE GameNext \/ GameCrash \/ UNCHANGED vars
  <2>1. UNCHANGED ledgerVars
    BY <1>4 DEF GameNext, Dial, Drop, WriteResponse, WriteResponseFails, Execute, ReadTooEarly,
         ReadRequest, GameCrash, vars, brokerVars
  <2>2. QED
    BY <1>1, <2>1
<1>5. CASE LedgerClock
  <2>1. Memory!Tick
    BY <1>5 DEF LedgerClock, Ledger!Tick, Memory!Tick
  <2>2. QED
    BY <2>1 DEF Memory!Next
<1>6. CASE BrokerCrash
  <2>1. Memory!Restart
    BY <1>6 DEF BrokerCrash, Ledger!Restart, Memory!Restart, Ledger!Empty, Memory!Empty,
         Ledger!NothingRunning, Memory!NothingRunning, Ledger!Identity, Memory!Identity
  <2>2. QED
    BY <2>1 DEF Memory!Next
<1>7. QED
  BY <1>1, <1>2, <1>3, <1>4, <1>5, <1>6, HandlerRemembers DEF Next

\* The path uses the ledger as the ledger's own specification says: whatever is
\* proved of RequestLedger holds of it here (HandleMcpRequestAsync reports once
\* for each request it began).
THEOREM LedgerServes == ASSUME UniqueIds PROVE Spec => Memory!Spec
<1>1. Init => Memory!Init
  BY DEF Init, Ledger!Init, Memory!Init, Ledger!Empty, Memory!Empty, Ledger!NothingRunning,
         Memory!NothingRunning, Ledger!Identity, Memory!Identity
<1>2. Init => Numbered
  BY NumbersInit
<1>3. PromiseInv /\ PromiseInv' /\ Numbered /\ [Next]_vars => Numbered'
  BY NumbersNext
<1>4. PromiseInv /\ TablesInv /\ Numbered /\ [Next]_vars => [Memory!Next]_(Memory!vars)
  BY PathRemembers DEF TablesInv
<1>5. Spec => []PromiseInv /\ []TablesInv
  BY PromiseInvariant, TablesInvariant
<1>6. QED
  BY <1>1, <1>2, <1>3, <1>4, <1>5, PTL DEF Spec, Memory!Spec

LEMMA NumbersInvariant == ASSUME UniqueIds PROVE Spec => []Numbered
<1>1. Init => Numbered
  BY NumbersInit
<1>2. PromiseInv /\ PromiseInv' /\ Numbered /\ [Next]_vars => Numbered'
  BY NumbersNext
<1>3. Spec => []PromiseInv
  BY PromiseInvariant
<1>4. QED
  BY <1>1, <1>2, <1>3, PTL DEF Spec

LEMMA LedgerHolds ==
    ASSUME UniqueIds PROVE Spec => []Memory!TypeOK /\ []Memory!HandlerMatchesEntry
<1>1. Spec => Memory!Spec
  BY LedgerServes
<1>2. Memory!Spec => []Memory!TypeOK
  BY Memory!TypeCorrect, MemoryParameters
<1>3. Memory!Spec => []Memory!HandlerMatchesEntry
  BY Memory!OneHandlerPerRequest, MemoryParameters
<1>4. QED
  BY <1>1, <1>2, <1>3, PTL

-----------------------------------------------------------------------------
(* Types of the whole path                                                  *)

\* A call is answered with something, when the broker is done with it.
AnsweredOK(c) ==
    tool[c].phase = "answered" =>
        tool[c].answer # None /\ handler[Attempt(c)].phase \in Over
Answered == \A c \in Calls : AnsweredOK(c)
Bounded ==
    /\ Len(game.inbound) <= QueueCapacity /\ Len(game.outbound) <= QueueCapacity
    /\ crashes \in 0 .. MaxCrashes

\* A handler never goes back.
Begun(h) == handler[h].phase \notin {"none", "received", "admitted"}
GoesForward(h) ==
    /\ Begun(h) => Begun(h)'
    /\ handler[h].phase \in Over =>
          \/ handler'[h].phase \in Over
          \/ \E c \in Calls : h = Attempt(c) /\ tool[c].phase = "connecting"
                              /\ tool'[c].phase = "waiting"

LEMMA HandlerGoes ==
    ASSUME PromiseInv, NEW h \in Handlers, HandlerNext(h) \/ ReadTooEarly(h) \/ ReadRequest(h)
    PROVE  /\ handler[h].phase \notin Over /\ UNCHANGED tool
           /\ Begun(h) => Begun(h)'
           /\ \A x \in Handlers : x # h => handler'[x] = handler[x]
<1>1. ASSUME NEW phase, Advance(h, phase)
      PROVE  handler'[h].phase = phase /\ \A x \in Handlers : x # h => handler'[x] = handler[x]
  <2>1. PICK t : t = [handler[h] EXCEPT !.phase = phase]
    OBVIOUS
  <2>2. t.phase = phase
    BY <2>1 DEF PromiseInv, Types, HandlerRecord
  <2>3. handler' = [handler EXCEPT ![h] = t]
    BY <1>1, <2>1 DEF Advance
  <2>4. QED
    BY <2>2, <2>3 DEF PromiseInv, Types
<1>2. ASSUME NEW response, Respond(h, response)
      PROVE  handler'[h].phase = "responded"
             /\ \A x \in Handlers : x # h => handler'[x] = handler[x]
  <2>1. handler' = [handler EXCEPT ![h] = Responded(response)]
    BY <1>2 DEF Respond, Responded
  <2>2. QED
    BY <2>1 DEF Responded, PromiseInv, Types
<1>3. ASSUME NEW response, Conclude(h, response)
      PROVE  handler'[h].phase = "responded"
             /\ \A x \in Handlers : x # h => handler'[x] = handler[x]
  BY <1>2, <1>3 DEF Conclude
<1>4. CASE AdmitRequest(h)
  <2>1. handler[h].phase = "received"
    BY <1>4 DEF AdmitRequest
  <2>2. \A x \in Handlers : x # h => handler'[x] = handler[x]
    BY <1>4 DEF AdmitRequest, PromiseInv, Types
  <2>3. QED
    BY <1>4, <2>1, <2>2 DEF AdmitRequest, Over, Begun
<1>5. CASE RefuseOffline(h) \/ ExpireLease(h)
  BY <1>2, <1>5 DEF RefuseOffline, ExpireLease, Over, Begun
<1>6. CASE Begin(h)
  BY <1>1, <1>2, <1>6 DEF Begin, Over, Begun
<1>7. CASE AddPending(h)
  BY <1>1, <1>3, <1>7 DEF AddPending, Over, Begun
<1>8. CASE WriteFails(h) \/ Resume(h) \/ RemoveTimedOut(h)
  BY <1>3, <1>8 DEF WriteFails, Resume, RemoveTimedOut, Over, Begun
<1>9. CASE FlushDone(h) \/ Timeout(h)
  BY <1>1, <1>9 DEF FlushDone, Timeout, Over, Begun
<1>10. CASE ReadTooEarly(h) \/ ReadRequest(h)
  BY <1>1, <1>10 DEF ReadTooEarly, ReadRequest, Reading, Over, Begun
<1>11. QED
  BY <1>4, <1>5, <1>6, <1>7, <1>8, <1>9, <1>10 DEF HandlerNext

LEMMA HandlersGo ==
    ASSUME PromiseInv, [Next]_vars, NEW h \in Handlers PROVE GoesForward(h)
<1>1. ASSUME UNCHANGED handler PROVE GoesForward(h)
  BY <1>1 DEF GoesForward, Begun
<1>2. ASSUME handler'[h].phase = handler[h].phase PROVE GoesForward(h)
  BY <1>2 DEF GoesForward, Begun
<1>3. ASSUME NEW c \in Calls, ToolNext(c) PROVE GoesForward(h)
  <2>1. CASE handler'[h] = handler[h]
    BY <1>2, <2>1
  <2>2. CASE handler[h].phase = "responded" /\ handler'[h].phase = "gone"
    BY <2>2 DEF GoesForward, Begun, Over
  <2>3. CASE h = Attempt(c) /\ handler[h].phase = "none" /\ handler'[h].phase = "received"
    <3>1. Connect(c)
      <4>1. handler'[h] # handler[h]
        BY <2>3
      <4>2. ~ReceiveResponse(c)
        BY <2>3 DEF ReceiveResponse
      <4>3. QED
        BY <1>3, <4>1, <4>2 DEF ToolNext, StartCall, ConnectFails, LoseConnection, Cancel,
             brokerVars
    <3>2. PICK s \in ToolRecord : s = tool[c]
      BY DEF PromiseInv, Types
    <3>3. PICK t : t = [s EXCEPT !.phase = "waiting"]
      OBVIOUS
    <3>4. t.phase = "waiting" /\ tool'[c] = t
      BY <3>1, <3>2, <3>3 DEF Connect, PromiseInv, Types, ToolRecord
    <3>5. QED
      BY <2>3, <3>1, <3>4 DEF GoesForward, Begun, Over, Connect
  <2>4. QED
    BY <1>3, <2>1, <2>2, <2>3, ToolHandlers
<1>4. ASSUME NEW x \in Handlers, HandlerNext(x) \/ ReadTooEarly(x) \/ ReadRequest(x)
      PROVE  GoesForward(h)
  <2>1. CASE x = h
    BY <1>4, <2>1, HandlerGoes DEF GoesForward
  <2>2. CASE x # h
    BY <1>2, <1>4, <2>2, HandlerGoes
  <2>3. QED
    BY <2>1, <2>2
<1>5. ASSUME NEW g \in Generations, SessionNext(g) PROVE GoesForward(h)
  BY <1>2, <1>5, CompletePhases DEF SessionNext, Register, Greet, GreetFails, SessionEnd
<1>6. CASE WriteResponse
  BY <1>2, <1>6, CompletePhases DEF WriteResponse
<1>7. CASE Dial \/ Drop \/ WriteResponseFails \/ Execute \/ GameCrash \/ LedgerClock
              \/ UNCHANGED vars
  BY <1>1, <1>7 DEF Dial, Drop, WriteResponseFails, Execute, GameCrash, LedgerClock, vars,
       brokerVars
<1>8. CASE BrokerCrash
  <2>1. handler'[h] = IF handler[h].phase = "none" THEN handler[h] ELSE Idle("gone")
    BY <1>8 DEF BrokerCrash
  <2>2. QED
    BY <2>1, GoneIs DEF GoesForward, Begun, Over
<1>9. QED
  BY <1>3, <1>4, <1>5, <1>6, <1>7, <1>8 DEF Next, GameNext

\* What a call is answered: its handler's response, or a failure of the path.
LEMMA AnswersHow ==
    ASSUME PromiseInv, NEW c \in Calls, ToolNext(c), tool'[c].phase = "answered"
    PROVE  /\ handler'[Attempt(c)].phase \in Over
           /\ tool'[c].attempt = tool[c].attempt
           /\ \/ /\ tool[c].phase = "waiting" /\ handler[Attempt(c)].phase = "responded"
                 /\ tool'[c].answer = handler[Attempt(c)].response
              \/ \E e \in {"broker_disconnected", "delivery_unknown", "bridge_unavailable"} :
                    tool'[c].answer = Failure(e)
<1>1. PICK s \in ToolRecord : s = tool[c]
  BY DEF PromiseInv, Types
<1>2. ASSUME NEW r, Answer(c, r) PROVE tool'[c].answer = r /\ tool'[c].attempt = tool[c].attempt
  BY <1>1, <1>2 DEF Answer, PromiseInv, Types, ToolRecord
<1>3. ~Retry(c)
  <2>1. SUFFICES ASSUME Retry(c) PROVE FALSE
    OBVIOUS
  <2>2. PICK t : t = [s EXCEPT !.phase = "connecting", !.attempt = 2]
    OBVIOUS
  <2>3. t.phase = "connecting"
    BY <2>2 DEF ToolRecord
  <2>4. tool'[c] = t
    BY <1>1, <2>1, <2>2 DEF Retry, PromiseInv, Types
  <2>5. QED
    BY <2>3, <2>4
<1>4. ASSUME NEW r, Finish(c, r)
      PROVE  /\ tool'[c].attempt = tool[c].attempt
             /\ tool'[c].answer \in {r, Failure("delivery_unknown")}
  BY <1>2, <1>3, <1>4 DEF Finish
<1>5. ASSUME NEW b, Throw(c, b)
      PROVE  /\ tool'[c].attempt = tool[c].attempt
             /\ tool'[c].answer \in {Failure("delivery_unknown"), Failure("bridge_unavailable")}
  BY <1>2, <1>3, <1>5 DEF Throw
<1>6. CASE StartCall(c) \/ Connect(c) \/ Cancel(c)
  <2>1. tool'[c].phase \in {"connecting", "waiting", "cancelled"}
    <3>1. CASE StartCall(c)
      BY <1>1, <3>1 DEF StartCall, PromiseInv, Types, ToolRecord
    <3>2. CASE Connect(c) \/ Cancel(c)
      BY <1>1, <3>2 DEF Connect, Cancel, PromiseInv, Types, ToolRecord
    <3>3. QED
      BY <1>6, <3>1, <3>2
  <2>2. QED
    BY <2>1
<1>7. CASE ConnectFails(c)
  <2>1. handler'[Attempt(c)].phase = "none"
    BY <1>7 DEF ConnectFails, brokerVars, PromiseInv, Attempts
  <2>2. QED
    BY <1>5, <1>7, <2>1 DEF ConnectFails, Over
<1>8. CASE LoseConnection(c)
  <2>1. handler'[Attempt(c)].phase = "gone"
    BY <1>8 DEF LoseConnection, brokerVars
  <2>2. QED
    BY <1>4, <1>5, <1>8, <2>1 DEF LoseConnection, Over
<1>9. CASE ReceiveResponse(c)
  <2>1. handler'[Attempt(c)].phase = "gone"
    BY <1>9, AttemptIs, GoneIs DEF ReceiveResponse, PromiseInv, Types
  <2>2. QED
    BY <1>4, <1>9, <2>1 DEF ReceiveResponse, Over
<1>10. QED
  BY <1>6, <1>7, <1>8, <1>9 DEF ToolNext

\* Who moves a call, and who leaves it alone.
LEMMA CallsMove ==
    ASSUME PromiseInv, [Next]_vars, NEW c \in Calls
    PROVE  ToolNext(c) \/ tool'[c] = tool[c]
<1>1. ASSUME NEW d \in Calls, ToolNext(d), d # c PROVE tool'[c] = tool[c]
  BY <1>1, ToolReplies
<1>2. ASSUME NEW h \in Handlers, HandlerNext(h) PROVE UNCHANGED tool
  BY <1>2, HandlerGoes
<1>3. ASSUME NEW g \in Generations, SessionNext(g) PROVE UNCHANGED tool
  BY <1>3 DEF SessionNext, Register, Greet, GreetFails, SessionEnd
<1>4. GameNext => UNCHANGED tool
  BY DEF GameNext, Dial, Drop, WriteResponse, WriteResponseFails, Execute, ReadTooEarly,
       ReadRequest
<1>5. GameCrash \/ BrokerCrash \/ LedgerClock \/ UNCHANGED vars => UNCHANGED tool
  BY DEF GameCrash, BrokerCrash, LedgerClock, vars
<1>6. QED
  BY <1>1, <1>2, <1>3, <1>4, <1>5 DEF Next

LEMMA AnsweredNext ==
    ASSUME PromiseInv, Answered, [Next]_vars PROVE Answered'
<1>1. SUFFICES ASSUME NEW c \in Calls, tool'[c].phase = "answered"
               PROVE  tool'[c].answer # None /\ handler'[Attempt(c)'].phase \in Over
  BY DEF Answered, AnsweredOK
<1>2. CASE ToolNext(c)
  <2>1. tool'[c].attempt = tool[c].attempt /\ handler'[Attempt(c)].phase \in Over
    BY <1>1, <1>2, AnswersHow
  <2>2. tool'[c].answer # None
    <3>1. CASE handler[Attempt(c)].phase = "responded"
               /\ tool'[c].answer = handler[Attempt(c)].response
      BY <3>1, AttemptIs DEF PromiseInv, HandlersTrue
    <3>2. CASE \E e \in {"broker_disconnected", "delivery_unknown", "bridge_unavailable"} :
                  tool'[c].answer = Failure(e)
      BY <3>2, FailureIs DEF Ambiguous, Refusals
    <3>3. QED
      BY <1>1, <1>2, <3>1, <3>2, AnswersHow
  <2>3. QED
    BY <2>1, <2>2 DEF Attempt
<1>3. CASE tool'[c] = tool[c]
  <2>1. PICK h \in Handlers : h = Attempt(c) /\ h = Attempt(c)' /\ CallOf(h) = c
    BY <1>3, AttemptIs DEF Attempt
  <2>2. handler[h].phase \in Over /\ tool[c].answer # None
    BY <1>1, <1>3, <2>1 DEF Answered, AnsweredOK
  <2>3. ASSUME NEW d \in Calls, h = Attempt(d), tool[d].phase = "connecting" PROVE FALSE
    BY <1>1, <1>3, <2>1, <2>3, AttemptIs
  <2>4. handler'[h].phase \in Over
    BY <2>2, <2>3, HandlersGo DEF GoesForward
  <2>5. QED
    BY <1>3, <2>1, <2>2, <2>4
<1>4. QED
  BY <1>2, <1>3, CallsMove

LEMMA EnqueuedFits ==
    ASSUME NEW S, NEW q \in Seq(S), NEW e, Len(q) <= QueueCapacity
    PROVE  Len(Enqueued(q, e)) <= QueueCapacity
BY BridgeAssumption DEF Enqueued, BridgeAssumption

LEMMA TailFits ==
    ASSUME NEW S, NEW q \in Seq(S), q # <<>>, Len(q) <= QueueCapacity
    PROVE  Len(Tail(q)) <= QueueCapacity
<1>1. Len(Tail(q)) = Len(q) - 1 /\ Len(q) \in Nat
  OBVIOUS
<1>2. QED
  BY <1>1, BridgeAssumption DEF BridgeAssumption

LEMMA BoundedNext ==
    ASSUME PromiseInv, Bounded, [Next]_vars PROVE Bounded'
<1>1. PICK i \in Seq(Handlers), o \in Seq(Queued) :
          /\ i = game.inbound /\ Len(i) <= QueueCapacity
          /\ o = game.outbound /\ Len(o) <= QueueCapacity
  BY DEF Bounded, PromiseInv, Types, GameRecord
<1>2. QueueCapacity \in Nat /\ MaxCrashes \in Nat
  BY BridgeAssumption DEF BridgeAssumption
<1>3. ASSUME NEW g, game' = g, UNCHANGED crashes,
             Len(g.inbound) <= QueueCapacity, Len(g.outbound) <= QueueCapacity
      PROVE  Bounded'
  BY <1>3 DEF Bounded
<1>4. CASE UNCHANGED <<game, crashes>>
  BY <1>4 DEF Bounded
<1>5. ASSUME NEW h \in Handlers, ReadTooEarly(h) \/ ReadRequest(h) PROVE Bounded'
  <2>1. CASE ReadTooEarly(h)
    BY <1>1, <2>1 DEF ReadTooEarly, Hangup, Bounded, PromiseInv, Types, GameRecord
  <2>2. CASE ReadRequest(h)
    <3>1. PICK j : j = Append(i, h)
      OBVIOUS
    <3>2. PICK p : p = Enqueued(o, Reply(h, Failure("busy")))
      OBVIOUS
    <3>3. CASE Len(i) < QueueCapacity /\ game' = [game EXCEPT !.inbound = j]
      <4>1. Len(j) <= QueueCapacity
        BY <1>1, <1>2, <3>1, <3>3
      <4>2. game'.inbound = j /\ game'.outbound = o
        BY <1>1, <3>3 DEF PromiseInv, Types, GameRecord
      <4>3. QED
        BY <1>1, <2>2, <4>1, <4>2 DEF Bounded, ReadRequest
    <3>4. CASE game' = [game EXCEPT !.outbound = p]
      <4>1. Len(p) <= QueueCapacity
        BY <1>1, <3>2, EnqueuedFits
      <4>2. game'.inbound = i /\ game'.outbound = p
        BY <1>1, <3>4 DEF PromiseInv, Types, GameRecord
      <4>3. QED
        BY <1>1, <2>2, <4>1, <4>2 DEF Bounded, ReadRequest
    <3>5. QED
      BY <1>1, <2>2, <3>1, <3>2, <3>3, <3>4 DEF ReadRequest
  <2>3. QED
    BY <1>5, <2>1, <2>2
<1>6. CASE Dial \/ Drop
  BY <1>1, <1>6 DEF Dial, Drop, Hangup, Bounded, PromiseInv, Types, GameRecord
<1>7. CASE WriteResponse \/ WriteResponseFails
  <2>1. o # <<>> /\ UNCHANGED crashes
    BY <1>1, <1>7 DEF WriteResponse, WriteResponseFails
  <2>2. PICK q : q = Tail(o) /\ Len(q) <= QueueCapacity
    BY <1>1, <2>1, TailFits
  <2>3. game' = [game EXCEPT !.outbound = q] \/ game' = [Hangup EXCEPT !.outbound = q]
    <3>1. Hangup.outbound = o
      BY <1>1 DEF Hangup, PromiseInv, Types, GameRecord
    <3>2. QED
      BY <1>1, <1>7, <2>2, <3>1 DEF WriteResponse, WriteResponseFails
  <2>4. game'.inbound = i /\ game'.outbound = q
    BY <1>1, <2>3 DEF Hangup, PromiseInv, Types, GameRecord
  <2>5. QED
    BY <1>1, <2>1, <2>2, <2>4 DEF Bounded
<1>8. CASE Execute
  <2>1. i # <<>> /\ UNCHANGED crashes
    BY <1>1, <1>8 DEF Execute
  <2>2. PICK j : j = Tail(i) /\ Len(j) <= QueueCapacity
    BY <1>1, <2>1, TailFits
  <2>3. PICK p : p = Enqueued(o, Reply(Head(i), Success(CallOf(Head(i)))))
    OBVIOUS
  <2>4. Len(p) <= QueueCapacity
    BY <1>1, <2>3, EnqueuedFits
  <2>5. game' = [game EXCEPT !.inbound = j, !.outbound = p]
    BY <1>1, <1>8, <2>2, <2>3 DEF Execute
  <2>6. game'.inbound = j /\ game'.outbound = p
    BY <2>5 DEF PromiseInv, Types, GameRecord
  <2>7. QED
    BY <2>1, <2>2, <2>4, <2>6 DEF Bounded
<1>9. CASE GameCrash
  <2>1. PICK q : q = <<>> /\ Len(q) <= QueueCapacity
    BY <1>2
  <2>2. game' = [Hangup EXCEPT !.inbound = q, !.outbound = q]
    BY <1>9, <2>1 DEF GameCrash
  <2>3. game'.inbound = q /\ game'.outbound = q
    BY <2>2 DEF Hangup, PromiseInv, Types, GameRecord
  <2>4. crashes' \in 0 .. MaxCrashes
    BY <1>2, <1>9 DEF GameCrash, Bounded
  <2>5. QED
    BY <2>1, <2>3, <2>4 DEF Bounded
<1>10. CASE BrokerCrash
  <2>1. crashes' \in 0 .. MaxCrashes /\ UNCHANGED game
    BY <1>2, <1>10 DEF BrokerCrash, Bounded
  <2>2. QED
    BY <2>1 DEF Bounded
<1>11. ASSUME NEW c \in Calls, ToolNext(c) PROVE UNCHANGED <<game, crashes>>
  BY <1>11 DEF ToolNext, StartCall, Connect, ConnectFails, ReceiveResponse, LoseConnection, Cancel
<1>12. ASSUME NEW h \in Handlers, HandlerNext(h) PROVE UNCHANGED <<game, crashes>>
  BY <1>12 DEF HandlerNext, AdmitRequest, RefuseOffline, ExpireLease, Begin, AddPending,
       WriteFails, FlushDone, Resume, Timeout, RemoveTimedOut
<1>13. ASSUME NEW g \in Generations, SessionNext(g) PROVE Bounded'
  <2>1. CASE Greet(g)
    <3>1. game' = [game EXCEPT !.link = "up"] /\ UNCHANGED crashes
      BY <2>1 DEF Greet
    <3>2. QED
      BY <1>1, <3>1 DEF Bounded, PromiseInv, Types, GameRecord
  <2>2. CASE Register(g) \/ GreetFails(g) \/ SessionEnd(g)
    BY <1>4, <2>2 DEF Register, GreetFails, SessionEnd
  <2>3. QED
    BY <1>13, <2>1, <2>2 DEF SessionNext
<1>14. QED
  BY <1>4, <1>5, <1>6, <1>7, <1>8, <1>9, <1>10, <1>11, <1>12, <1>13 DEF Next, GameNext,
     LedgerClock, vars

LEMMA PathInit == ASSUME Init PROVE Answered /\ Bounded
<1>1. Answered
  BY DEF Init, Answered, AnsweredOK
<1>2. QueueCapacity \in Nat /\ MaxCrashes \in Nat
  BY BridgeAssumption DEF BridgeAssumption
<1>3. Len(game.inbound) = 0 /\ Len(game.outbound) = 0 /\ crashes = 0
  BY DEF Init
<1>4. QED
  BY <1>1, <1>2, <1>3 DEF Bounded

PathInv == PromiseInv /\ TablesInv /\ Numbered /\ Answered /\ Bounded

LEMMA PathInvariant == ASSUME UniqueIds PROVE Spec => []PathInv
<1>1. Init => Answered /\ Bounded
  BY PathInit
<1>2. PromiseInv /\ Answered /\ Bounded /\ [Next]_vars => Answered' /\ Bounded'
  BY AnsweredNext, BoundedNext
<1>3. Spec => []PromiseInv /\ []TablesInv /\ []Numbered
  BY PromiseInvariant, TablesInvariant, NumbersInvariant
<1>4. PromiseInv /\ TablesInv /\ Numbered /\ Answered /\ Bounded => PathInv
  BY DEF PathInv
<1>5. QED
  BY <1>1, <1>2, <1>3, <1>4, PTL DEF Spec

\* Types of the whole path, in every reachable state: queues keep their
\* capacity (EnqueueResponse, Run), sequences number the calls (RequestAsync),
\* and the ledger's entries are well formed.
THEOREM PathTypes == ASSUME UniqueIds PROVE Spec => []TypeOK
<1>1. ASSUME PathInv, Memory!TypeOK PROVE TypeOK
  <2>1. PromiseInv /\ Types /\ EntriesOK
    BY <1>1 DEF PathInv, PromiseInv, TablesInv
  <2>2. ASSUME NEW n \in Nat, NEW k \in Clients, n <= sequence[k]
        PROVE  n \in {0} \cup Sequences
    <3>1. sequence[k] <= Cardinality(StartedBy(k))
      BY <1>1 DEF PathInv, Numbered
    <3>2. QED
      BY <2>1, <2>2, <3>1, Numbers DEF Sequences
  <2>3. ASSUME NEW c \in Calls PROVE ToolOK(tool[c])
    <3>1. tool[c].sequence \in {0} \cup Sequences
      BY <1>1, <2>1, <2>2, Numbers DEF PathInv, Numbered, NumberOK
    <3>2. tool[c].phase = "answered" <=> tool[c].answer # None
      BY <1>1 DEF PathInv, PromiseInv, Attempts, Answered, AnsweredOK
    <3>3. QED
      BY <2>1, <3>1, <3>2 DEF Types, ToolRecord, ToolOK
  <2>4. sequence \in [Clients -> {0} \cup Sequences]
    <3>1. \A k \in Clients : sequence[k] \in {0} \cup Sequences
      BY <2>1, <2>2 DEF Types
    <3>2. QED
      BY <2>1, <3>1 DEF Types
  <2>5. ASSUME NEW h \in Handlers PROVE HandlerOK(handler[h])
    <3>1. handler[h].phase \in Working => handler[h].session # None
      BY <2>1, NoneAssumption DEF EntriesOK, EntryOK, SessionOf
    <3>2. handler[h].phase = "responded" => handler[h].response # None
      BY <2>1 DEF PromiseInv, HandlersTrue
    <3>3. QED
      BY <2>1, <3>1, <3>2 DEF Types, HandlerRecord, HandlerOK
  <2>6. \A g \in Generations : SessionOK(session[g])
    BY <2>1 DEF Types, SessionRecord, SessionOK
  <2>7. Ledger!TypeOK
    BY <1>1 DEF Ledger!TypeOK, Memory!TypeOK, Ledger!Identity, Memory!Identity, Ledger!EntryOK,
         Memory!EntryOK, Ledger!Entry, Memory!Entry, Ledger!Effect, Memory!Effect,
         Ledger!RequestState, Memory!RequestState
  <2>8. /\ game.link \in {"down", "hello", "up"} /\ game.generation \in 0 .. MaxGeneration
        /\ game.inbound \in Seq(Handlers) /\ game.outbound \in Seq(Queued)
        /\ gameSession \in Generations \cup {None} /\ ran \in [Calls -> Nat]
    BY <2>1 DEF Types, GameRecord
  <2>9. QED
    BY <1>1, <2>3, <2>4, <2>5, <2>6, <2>7, <2>8 DEF TypeOK, PathInv, Bounded
<1>2. Spec => []PathInv
  BY PathInvariant
<1>3. Spec => []Memory!TypeOK
  BY LedgerHolds
<1>4. QED
  BY <1>1, <1>2, <1>3, PTL

-----------------------------------------------------------------------------
(* Attempts do not collide                                                  *)

\* The high mark of a client is that of a request begun; the ledger still knows
\* this request while nothing that was concluded can have expired.
Marked(k, h) ==
    /\ Begun(h) /\ Identity(h).client = k
    /\ Identity(h).sequence = highestSequences[k].highest
    /\ now < Lifetime => Identity(h) \in DOMAIN requests
MarksOK == \A k \in DOMAIN highestSequences : \E h \in Handlers : Marked(k, h)
ExpiresLate(i) == requests[i].expiresAt = Never \/ requests[i].expiresAt >= Lifetime
EntriesLast == \A i \in DOMAIN requests : ExpiresLate(i)

\* Only a second attempt that comes late is told that its sequence is stale,
\* and nobody that his request is in progress or a duplicate.
Collisions == {"request_in_progress", "duplicate_request", "request_sequence_stale"}
Clean(r) == r.error \notin Collisions
Forgotten(h) == now >= Lifetime /\ Identity(h) \notin DOMAIN requests
Late(h) == tool[CallOf(h)].phase = "cancelled" \/ (h = <<CallOf(h), 2>> /\ Forgotten(h))
HandlerClean(h) ==
    handler[h].response # None =>
        \/ Clean(handler[h].response)
        \/ handler[h].phase = "responded" /\ Late(h)
           /\ handler[h].response.error = "request_sequence_stale"
AnswerClean(c) ==
    tool[c].answer # None =>
        \/ Clean(tool[c].answer)
        \/ tool[c].attempt = 2 /\ Forgotten(<<c, 2>>)
           /\ tool[c].answer.error = "request_sequence_stale"
LedgerClean ==
    \A i \in DOMAIN requests : requests[i].state = "Completed" => Clean(requests[i].response)
QueueClean == \A n \in DOMAIN game.outbound : Clean(game.outbound[n].response)
HandlersClean == \A h \in Handlers : HandlerClean(h)
AnswersClean == \A c \in Calls : AnswerClean(c)
Apart ==
    /\ MarksOK /\ EntriesLast /\ LedgerClean /\ QueueClean
    /\ HandlersClean /\ AnswersClean
Known == PathInv /\ Memory!TypeOK /\ Memory!HandlerMatchesEntry

LEMMA Times ==
    ASSUME Known
    PROVE  /\ PromiseInv /\ OneAtWork /\ EntriesOK /\ RunningOK /\ Numbered /\ Answered
           /\ now \in Nat /\ Lifetime \in Nat /\ Never \notin Nat
           /\ \A i \in DOMAIN requests :
                 requests[i] \in Memory!Entry
                 /\ (requests[i].state = "InProgress" <=> requests[i].expiresAt = Never)
BY LedgerLimits DEF Known, PathInv, TablesInv, Memory!TypeOK, Memory!EntryOK, LedgerLimits

LEMMA TimeGoes == ASSUME Known, [Next]_vars PROVE now' \in Nat /\ now' >= now
<1>1. [Memory!Next]_(Memory!vars) /\ now \in Nat
  BY Times, PathRemembers
<1>2. now' = now \/ now' = now + 1
  BY <1>1 DEF Memory!Next, Memory!vars, Memory!TryBegin, Memory!MarkCompleted,
     Memory!MarkConnectionLost, Memory!Report, Memory!Tick, Memory!Restart
<1>3. QED
  BY <1>1, <1>2

LEMMA CleanFailures ==
    ASSUME NEW e \in (Ambiguous \cup Refusals) \ Collisions
    PROVE  Failure(e) \in Response /\ Failure(e) # None /\ Clean(Failure(e))
BY FailureIs DEF Clean

LEMMA CleanSuccess == ASSUME NEW c \in Calls PROVE Clean(Success(c))
BY SuccessIs DEF Clean, Collisions

-----------------------------------------------------------------------------
\* What a conclusion and a beginning do to the ledger's tables.
LEMMA Concluded ==
    ASSUME NEW i, NEW state, NEW response, requests' = Ledger!Conclude(i, state, response),
           Known
    PROVE  /\ DOMAIN requests' = DOMAIN requests
           /\ \A j \in DOMAIN requests :
                 \/ requests'[j] = requests[j]
                 \/ /\ requests'[j].state = state /\ requests'[j].response = response
                    /\ requests'[j].expiresAt = now + Lifetime
<1>1. CASE ~Ledger!InProgress(i)
  BY <1>1 DEF Ledger!Conclude
<1>2. CASE Ledger!InProgress(i)
  <2>1. i \in DOMAIN requests /\ requests[i] \in Memory!Entry
    BY <1>2, Times DEF Ledger!InProgress
  <2>2. PICK e : e = [requests[i] EXCEPT !.state = state, !.response = response,
                                         !.expiresAt = now + Lifetime]
    OBVIOUS
  <2>3. e.state = state /\ e.response = response /\ e.expiresAt = now + Lifetime
    BY <2>1, <2>2 DEF Memory!Entry
  <2>4. /\ DOMAIN requests' = DOMAIN requests
        /\ \A j \in DOMAIN requests : requests'[j] = IF j = i THEN e ELSE requests[j]
    BY <1>2, <2>1, <2>2 DEF Ledger!Conclude
  <2>5. QED
    BY <2>3, <2>4
<1>3. QED
  BY <1>1, <1>2

LEMMA ConcludeCleans ==
    ASSUME Known, EntriesLast, LedgerClean, NEW h, NEW response, Clean(response),
           Conclude(h, response)
    PROVE  /\ EntriesLast' /\ LedgerClean' /\ DOMAIN requests' = DOMAIN requests
           /\ UNCHANGED highestSequences
<1>1. PICK i : i = Identity(h)
  OBVIOUS
<1>2. UNCHANGED highestSequences
  BY DEF Conclude, Ledger!MarkCompleted, Ledger!MarkConnectionLost, Ledger!Report
<1>3. \/ requests' = requests
      \/ requests' = Ledger!Conclude(i, Ledger!LostState(i), NoResponse)
      \/ requests' = Ledger!Conclude(i, "Completed", response)
  BY <1>1 DEF Conclude, Ledger!MarkCompleted, Ledger!MarkConnectionLost
<1>4. now + Lifetime >= Lifetime
  BY Times
<1>5. CASE requests' = requests
  BY <1>2, <1>5 DEF EntriesLast, ExpiresLate, LedgerClean
<1>6. CASE requests' = Ledger!Conclude(i, Ledger!LostState(i), NoResponse)
  <2>1. Ledger!LostState(i) # "Completed"
    BY DEF Ledger!LostState
  <2>2. QED
    BY <1>2, <1>4, <1>6, <2>1, Concluded DEF EntriesLast, ExpiresLate, LedgerClean
<1>7. CASE requests' = Ledger!Conclude(i, "Completed", response)
  BY <1>2, <1>4, <1>7, Concluded DEF EntriesLast, ExpiresLate, LedgerClean
<1>8. QED
  BY <1>3, <1>5, <1>6, <1>7

LEMMA BeginCleans ==
    ASSUME Known, EntriesLast, LedgerClean, NEW i, NEW effect, Ledger!TryBegin(i, effect)
    PROVE  /\ EntriesLast' /\ LedgerClean' /\ UNCHANGED now
           /\ now < Lifetime => DOMAIN requests \subseteq DOMAIN requests'
           /\ \A k \in DOMAIN highestSequences' :
                 \/ /\ k \in DOMAIN highestSequences
                    /\ highestSequences'[k] = highestSequences[k]
                 \/ /\ k = i.client /\ highestSequences'[k].highest = i.sequence
                    /\ i \in DOMAIN requests' /\ Ledger!Disposition(i) = "Accepted"
<1>1. Ledger!LiveIdentities \subseteq DOMAIN requests
      /\ Ledger!LiveClients \subseteq DOMAIN highestSequences
  BY DEF Ledger!LiveIdentities, Ledger!LiveClients
<1>2. now < Lifetime => DOMAIN requests \subseteq Ledger!LiveIdentities
  BY Times DEF Ledger!LiveIdentities, EntriesLast, ExpiresLate, Memory!Entry
<1>3. UNCHANGED now
  BY DEF Ledger!TryBegin
<1>4. CASE Ledger!BeginNew(i, effect)
  <2>1. PICK e : e = Ledger!NewEntry(effect)
    OBVIOUS
  <2>2. e.state = "InProgress" /\ e.expiresAt = Never
    BY <2>1 DEF Ledger!NewEntry
  <2>3. /\ DOMAIN requests' = Ledger!LiveIdentities \cup {i}
        /\ \A j \in DOMAIN requests' : requests'[j] = IF j = i THEN e ELSE requests[j]
    BY <1>4, <2>1 DEF Ledger!BeginNew, Ledger!With, Ledger!LiveRequests
  <2>4. PICK m : m = Ledger!HighMark(i)
    OBVIOUS
  <2>5. /\ DOMAIN highestSequences' = Ledger!LiveClients \cup {i.client}
        /\ \A k \in DOMAIN highestSequences' :
              highestSequences'[k] = IF k = i.client THEN m ELSE highestSequences[k]
    BY <1>4, <2>4 DEF Ledger!BeginNew, Ledger!With, Ledger!LiveSequences
  <2>6. EntriesLast' /\ LedgerClean'
    BY <1>1, <2>2, <2>3 DEF EntriesLast, ExpiresLate, LedgerClean
  <2>7. Ledger!Disposition(i) = "Accepted"
    BY <1>4 DEF Ledger!BeginNew
  <2>8. m.highest = i.sequence
    BY <2>4 DEF Ledger!HighMark
  <2>9. QED
    BY <1>1, <1>2, <1>3, <2>3, <2>5, <2>6, <2>7, <2>8
<1>5. CASE Ledger!BeginExisting(i)
  <2>1. i \in DOMAIN requests /\ requests[i] \in Memory!Entry
    BY <1>1, <1>5, Times DEF Ledger!BeginExisting
  <2>2. PICK e : e = Ledger!RetriedEntry(i)
    OBVIOUS
  <2>3. e.state = "InProgress" /\ e.expiresAt = Never
    BY <2>1, <2>2 DEF Ledger!RetriedEntry, Memory!Entry
  <2>4. /\ DOMAIN requests' = Ledger!LiveIdentities \cup {i}
        /\ \A j \in DOMAIN requests' : requests'[j] = IF j = i THEN e ELSE requests[j]
    BY <1>5, <2>2 DEF Ledger!BeginExisting, Ledger!With, Ledger!LiveRequests
  <2>5. /\ DOMAIN highestSequences' = Ledger!LiveClients
        /\ \A k \in DOMAIN highestSequences' : highestSequences'[k] = highestSequences[k]
    BY <1>5 DEF Ledger!BeginExisting, Ledger!LiveSequences
  <2>6. EntriesLast' /\ LedgerClean'
    BY <1>1, <2>3, <2>4 DEF EntriesLast, ExpiresLate, LedgerClean
  <2>7. QED
    BY <1>1, <1>2, <1>3, <2>4, <2>5, <2>6
<1>6. CASE Ledger!Refuse(i)
  <2>1. /\ DOMAIN requests' = Ledger!LiveIdentities
        /\ \A j \in DOMAIN requests' : requests'[j] = requests[j]
        /\ DOMAIN highestSequences' = Ledger!LiveClients
        /\ \A k \in DOMAIN highestSequences' : highestSequences'[k] = highestSequences[k]
    BY <1>6 DEF Ledger!Refuse, Ledger!LiveRequests, Ledger!LiveSequences
  <2>2. EntriesLast' /\ LedgerClean'
    BY <1>1, <2>1 DEF EntriesLast, ExpiresLate, LedgerClean
  <2>3. QED
    BY <1>1, <1>2, <1>3, <2>1, <2>2
<1>7. QED
  BY <1>4, <1>5, <1>6 DEF Ledger!TryBegin

-----------------------------------------------------------------------------
\* A handler that is not over speaks for the attempt its call is at, and its
\* call waits for it unless the caller has cancelled.
LEMMA ActiveAttempt ==
    ASSUME Known, NEW h \in Handlers, handler[h].phase \notin Over, NEW c \in Calls,
           c = CallOf(h)
    PROVE  /\ h = Attempt(c) /\ tool[c].phase \in {"waiting", "cancelled"}
           /\ tool[c].attempt = 1 => h = <<c, 1>> /\ handler[<<c, 2>>].phase = "none"
           /\ tool[c].attempt = 2 => h = <<c, 2>>
<1>1. PICK s \in ToolRecord : s = tool[c]
  BY Times DEF PromiseInv, Types
<1>2. h = <<c, 1>> \/ h = <<c, 2>>
  BY HandlerIs
<1>3. CASE s.attempt = 1
  <2>1. handler[<<c, 2>>].phase = "none" /\ Attempt(c) = <<c, 1>>
    BY <1>1, <1>3, Times, AttemptIs DEF PromiseInv, Attempts
  <2>2. h = Attempt(c) /\ h = <<c, 1>>
    BY <1>2, <2>1 DEF Over
  <2>3. s.phase \in {"waiting", "cancelled"}
    <3>1. s.phase \notin {"idle", "connecting"}
      BY <1>1, <2>2, Times DEF PromiseInv, Attempts, Over
    <3>2. s.phase # "answered"
      BY <1>1, <2>2, Times DEF Answered, AnsweredOK
    <3>3. QED
      BY <3>1, <3>2 DEF ToolRecord
  <2>4. QED
    BY <1>1, <1>3, <2>1, <2>2, <2>3
<1>4. CASE s.attempt = 2
  <2>1. handler[<<c, 1>>].phase \in Over
    BY <1>1, <1>4, Times DEF OneAtWork
  <2>2. h = <<c, 2>> /\ Attempt(c) = <<c, 2>>
    BY <1>1, <1>2, <1>4, <2>1 DEF Attempt
  <2>3. s.phase \in {"waiting", "cancelled"}
    <3>1. s.phase \notin {"idle", "connecting"}
      BY <1>1, <2>2, Times DEF PromiseInv, Attempts, Over
    <3>2. s.phase # "answered"
      BY <1>1, <2>2, Times DEF Answered, AnsweredOK
    <3>3. QED
      BY <3>1, <3>2 DEF ToolRecord
  <2>4. QED
    BY <1>1, <1>4, <2>2, <2>3
<1>5. QED
  BY <1>1, <1>3, <1>4 DEF ToolRecord

\* Another handler that has begun, of the call with the last sequence of its
\* client, is the first attempt of the same call.
LEMMA SameSequence ==
    ASSUME Known, NEW h \in Handlers, handler[h].phase = "admitted",
           tool[CallOf(h)].phase # "cancelled",
           NEW x \in Handlers, Begun(x), Identity(x).client = Identity(h).client,
           Identity(x).sequence >= Identity(h).sequence
    PROVE  Identity(x) = Identity(h) /\ h = <<CallOf(h), 2>>
<1>1. PICK c \in Calls, d \in Calls : c = CallOf(h) /\ d = CallOf(x)
  BY HandlerIs
<1>2. /\ h = Attempt(c) /\ tool[c].phase = "waiting"
      /\ tool[c].attempt = 1 => h = <<c, 1>> /\ handler[<<c, 2>>].phase = "none"
      /\ tool[c].attempt = 2 => h = <<c, 2>>
  BY <1>1, ActiveAttempt DEF Over
<1>3. PICK k \in Clients, m \in Nat, n \in Nat, l \in Nat :
          /\ k = ClientOf[c] /\ m = tool[c].sequence /\ n = tool[d].sequence /\ l = sequence[k]
  BY Numbers, Times DEF PromiseInv
<1>4. ClientOf[d] = k /\ n >= m
  <2>1. Identity(h).client = ClientOf[c] /\ Identity(x).client = ClientOf[d]
    BY <1>1 DEF Identity
  <2>2. Identity(h).sequence = tool[c].sequence /\ Identity(x).sequence = tool[d].sequence
    BY <1>1 DEF Identity
  <2>3. QED
    BY <1>3, <2>1, <2>2
<1>5. m = l /\ n <= l /\ m # 0
  BY <1>2, <1>3, <1>4, Times DEF Numbered, NumberOK, Active
<1>6. n = m
  BY <1>4, <1>5
<1>7. c = d
  BY <1>3, <1>4, <1>5, <1>6, Times DEF Numbered
<1>8. Identity(x) = Identity(h)
  BY <1>1, <1>7 DEF Identity, Id
<1>9. x # h
  BY DEF Begun
<1>10. x = <<c, 1>> \/ x = <<c, 2>>
  BY <1>1, <1>7, HandlerIs
<1>11. tool[c].attempt \in {1, 2}
  BY Times DEF PromiseInv, Types, ToolRecord
<1>12. h = <<c, 2>>
  BY <1>2, <1>9, <1>10, <1>11 DEF Begun
<1>13. QED
  BY <1>1, <1>8, <1>12

\* A request that begins is never found in progress, and found stale only late.
LEMMA BeginsApart ==
    ASSUME UniqueIds, Known, Apart, NEW h \in Handlers, handler[h].phase = "admitted",
           Ledger!Disposition(Identity(h)) # "Accepted"
    PROVE  \/ Clean(Refusal(Identity(h)))
           \/ /\ Refusal(Identity(h)) = Failure("request_sequence_stale")
              /\ Identity(h) \notin Ledger!LiveIdentities
              /\ tool[CallOf(h)].phase # "cancelled" =>
                    h = <<CallOf(h), 2>> /\ now >= Lifetime
<1>1. PICK i \in Ledger!Identity : i = Identity(h)
  BY Identified, Times
<1>2. CASE i \in Ledger!LiveIdentities
  <2>1. i \in DOMAIN requests /\ requests[i] \in Memory!Entry
    BY <1>2, Times DEF Ledger!LiveIdentities
  <2>2. requests[i].state # "InProgress"
    <3>1. SUFFICES ASSUME requests[i].state = "InProgress" PROVE FALSE
      OBVIOUS
    <3>2. running[i] = 1
      BY <1>1, <2>1, <3>1 DEF Known, Memory!HandlerMatchesEntry, Memory!InProgress,
         Memory!Identity, Ledger!Identity
    <3>3. PICK x \in Handlers : AtWork(x, i)
      BY <1>1, <3>2, Times DEF RunningOK
    <3>4. x # h
      BY <3>3 DEF AtWork, Working
    <3>5. QED
      BY <1>1, <3>3, <3>4, NoOther, Times DEF Over
  <2>3. PICK r \in {"Retryable", "Completed", "DeliveryUnknown"} : r = requests[i].state
    BY <2>1, <2>2 DEF Memory!Entry, Memory!RequestState
  <2>4. Ledger!Disposition(i) = Ledger!ExistingDisposition[r]
    BY <1>2, <2>3 DEF Ledger!Disposition
  <2>5. CASE r = "Completed"
    <3>1. Ledger!Disposition(i) = "ReplayCompleted"
      BY <2>4, <2>5 DEF Ledger!ExistingDisposition
    <3>2. Refusal(i) = requests[i].response
      BY <3>1 DEF Refusal
    <3>3. QED
      BY <1>1, <2>1, <2>3, <2>5, <3>2 DEF Apart, LedgerClean
  <2>6. CASE r = "DeliveryUnknown"
    <3>1. Ledger!Disposition(i) = "DeliveryUnknown"
      BY <2>4, <2>6 DEF Ledger!ExistingDisposition
    <3>2. Refusal(i) = Failure("delivery_unknown")
      BY <3>1 DEF Refusal
    <3>3. QED
      BY <1>1, <3>2, CleanFailures DEF Ambiguous, Collisions
  <2>7. CASE r = "Retryable"
    BY <1>1, <2>4, <2>7 DEF Ledger!ExistingDisposition
  <2>8. QED
    BY <2>3, <2>5, <2>6, <2>7
<1>3. CASE i \notin Ledger!LiveIdentities /\ Ledger!IsStale(i)
  <2>1. Ledger!Disposition(i) = "StaleSequence"
    BY <1>3 DEF Ledger!Disposition
  <2>2. Refusal(i) = Failure("request_sequence_stale")
    BY <2>1 DEF Refusal
  <2>3. ASSUME tool[CallOf(h)].phase # "cancelled"
        PROVE  h = <<CallOf(h), 2>> /\ now >= Lifetime
    <3>2. i.client \in DOMAIN highestSequences /\ i.sequence <= highestSequences[i.client].highest
      BY <1>3 DEF Ledger!IsStale, Ledger!LiveClients
    <3>3. PICK k : k = i.client
      OBVIOUS
    <3>4. PICK x \in Handlers : Marked(k, x)
      BY <3>2, <3>3 DEF Apart, MarksOK
    <3>5. i.sequence \in Nat /\ highestSequences[k].highest \in Nat
      BY <1>1, <3>2, <3>3, MemoryParameters DEF Known, Memory!TypeOK, Ledger!Identity
    <3>6. Identity(x) = Identity(h) /\ h = <<CallOf(h), 2>>
      BY <1>1, <2>3, <3>2, <3>3, <3>4, <3>5, SameSequence DEF Marked
    <3>7. ~(now < Lifetime)
      <4>1. SUFFICES ASSUME now < Lifetime PROVE FALSE
        OBVIOUS
      <4>2. i \in DOMAIN requests
        BY <1>1, <3>4, <3>6, <4>1 DEF Marked
      <4>3. requests[i].expiresAt = Never \/ requests[i].expiresAt >= Lifetime
        BY <4>2 DEF Apart, EntriesLast, ExpiresLate
      <4>4. requests[i].expiresAt = Never \/ requests[i].expiresAt \in Nat
        BY <4>2, Times DEF Memory!Entry
      <4>5. QED
        BY <1>3, <4>1, <4>2, <4>3, <4>4, Times DEF Ledger!LiveIdentities
    <3>8. QED
      BY <3>6, <3>7, Times
  <2>4. QED
    BY <1>1, <1>3, <2>2, <2>3
<1>4. CASE i \notin Ledger!LiveIdentities /\ ~Ledger!IsStale(i)
  <2>1. Ledger!Disposition(i) = "Busy"
    BY <1>1, <1>4 DEF Ledger!Disposition
  <2>2. Refusal(i) = Failure("busy")
    BY <2>1 DEF Refusal
  <2>3. QED
    BY <1>1, <2>2, CleanFailures DEF Refusals, Collisions
<1>5. QED
  BY <1>2, <1>3, <1>4

-----------------------------------------------------------------------------
\* What is kept from step to step: the identity of a request, a cancellation.
LEMMA NumberStays ==
    ASSUME PromiseInv, [Next]_vars, NEW h \in Handlers, tool[CallOf(h)].phase # "idle"
    PROVE  Identity(h)' = Identity(h)
<1>1. PICK c \in Calls : c = CallOf(h)
  BY HandlerIs
<1>2. tool'[c].sequence = tool[c].sequence
  BY <1>1, CallsMove, ToolGoes
<1>3. QED
  BY <1>1, <1>2 DEF Identity, CallOf, Id

LEMMA IdentityStays ==
    ASSUME Known, [Next]_vars, NEW h \in Handlers, handler[h].phase # "none"
    PROVE  Identity(h)' = Identity(h)
<1>1. PICK c \in Calls : c = CallOf(h) /\ (h = <<c, 1>> \/ h = <<c, 2>>)
  BY HandlerIs
<1>2. tool[c].phase # "idle"
  <2>1. SUFFICES ASSUME tool[c].phase = "idle" PROVE FALSE
    OBVIOUS
  <2>2. tool[c].attempt = 1
    BY <2>1, Times DEF OneAtWork
  <2>3. handler[<<c, 1>>].phase = "none" /\ handler[<<c, 2>>].phase = "none"
    BY <2>1, <2>2, AttemptIs, Times DEF PromiseInv, Attempts
  <2>4. QED
    BY <1>1, <2>3
<1>3. QED
  BY <1>1, <1>2, NumberStays, Times

LEMMA CancelledStays ==
    ASSUME PromiseInv, [Next]_vars, NEW c \in Calls, tool[c].phase = "cancelled"
    PROVE  tool'[c] = tool[c]
<1>1. ~ToolNext(c)
  BY DEF ToolNext, StartCall, Connect, ConnectFails, ReceiveResponse, LoseConnection, Cancel, Active
<1>2. QED
  BY <1>1, CallsMove

\* An entry comes into the ledger by a handler that begins.
LEMMA EntriesCome ==
    ASSUME Known, [Next]_vars, NEW i \in DOMAIN requests', i \notin DOMAIN requests
    PROVE  \E x \in Handlers : handler[x].phase = "admitted" /\ Identity(x) = i
<1>1. requests' # requests
  OBVIOUS
<1>2. ASSUME NEW c \in Calls, ToolNext(c) PROVE FALSE
  BY <1>1, <1>2 DEF ToolNext, StartCall, Connect, ConnectFails, ReceiveResponse, LoseConnection,
     Cancel, brokerVars, ledgerVars
<1>3. ASSUME NEW g \in Generations, SessionNext(g) PROVE FALSE
  BY <1>1, <1>3 DEF SessionNext, Register, Greet, GreetFails, SessionEnd, ledgerVars
<1>4. CASE GameNext \/ GameCrash \/ LedgerClock \/ UNCHANGED vars
  BY <1>1, <1>4 DEF GameNext, Dial, Drop, WriteResponse, WriteResponseFails, Execute, ReadTooEarly,
     ReadRequest, GameCrash, LedgerClock, Ledger!Tick, vars, brokerVars, ledgerVars
<1>5. CASE BrokerCrash
  <2>1. DOMAIN requests' = {}
    BY <1>5 DEF BrokerCrash, Ledger!Restart, Ledger!Empty
  <2>2. QED
    BY <2>1
<1>6. ASSUME NEW x, NEW response, Conclude(x, response) PROVE FALSE
  <2>1. PICK j : j = Identity(x)
    OBVIOUS
  <2>2. \/ requests' = requests
        \/ requests' = Ledger!Conclude(j, Ledger!LostState(j), NoResponse)
        \/ requests' = Ledger!Conclude(j, "Completed", response)
    BY <1>6, <2>1 DEF Conclude, Ledger!MarkCompleted, Ledger!MarkConnectionLost
  <2>3. QED
    BY <1>1, <2>2, Concluded
<1>7. ASSUME NEW x \in Handlers, Begin(x)
      PROVE  handler[x].phase = "admitted" /\ Identity(x) = i
  <2>1. PICK j : j = Identity(x)
    OBVIOUS
  <2>2. DOMAIN requests' \subseteq Ledger!LiveIdentities \cup {j}
    BY <1>7, <2>1 DEF Begin, Ledger!TryBegin, Ledger!BeginNew, Ledger!BeginExisting, Ledger!Refuse,
       Ledger!With, Ledger!LiveRequests
  <2>3. QED
    BY <1>7, <2>1, <2>2 DEF Begin, Ledger!LiveIdentities
<1>8. ASSUME NEW x \in Handlers, HandlerNext(x) PROVE Begin(x)
  BY <1>1, <1>6, <1>8 DEF HandlerNext, AdmitRequest, RefuseOffline, ExpireLease, AddPending,
     WriteFails, FlushDone, Resume, Timeout, RemoveTimedOut, ledgerVars
<1>9. QED
  BY <1>2, <1>3, <1>4, <1>5, <1>7, <1>8 DEF Next

\* The ledger does not get to know again what nobody begins.
LEMMA ForgottenStays ==
    ASSUME UniqueIds, Known, [Next]_vars, NEW c \in Calls, NEW h \in Handlers, h = <<c, 2>>,
           Forgotten(h), tool[c].phase = "answered" \/ handler[h].phase = "responded"
    PROVE  Forgotten(h)'
<1>1. CallOf(h) = c
  BY HandlersOf
<1>2. now' >= Lifetime
  BY Times, TimeGoes DEF Forgotten
<1>3. Identity(h)' = Identity(h)
  BY <1>1, IdentityStays, NumberStays, Times
<1>4. ASSUME NEW x \in Handlers, handler[x].phase = "admitted", Identity(x) = Identity(h)
      PROVE  FALSE
  <2>1. Id(x) = Id(h)
    <3>1. Identity(x).id = Id(x) /\ Identity(h).id = Id(h)
      BY DEF Identity
    <3>2. QED
      BY <1>4, <3>1
  <2>2. CallOf(x) = c
    BY <1>1, <2>1, SameCall
  <2>3. /\ tool[c].phase \in {"waiting", "cancelled"}
        /\ tool[c].attempt = 1 => handler[h].phase = "none"
        /\ tool[c].attempt = 2 => x = h
    BY <1>4, <2>2, ActiveAttempt DEF Over
  <2>4. tool[c].attempt \in {1, 2}
    BY Times DEF PromiseInv, Types, ToolRecord
  <2>5. QED
    BY <1>4, <2>3, <2>4
<1>5. Identity(h) \notin DOMAIN requests'
  BY <1>4, EntriesCome DEF Forgotten
<1>6. QED
  BY <1>2, <1>3, <1>5 DEF Forgotten

LEMMA LateStays ==
    ASSUME UniqueIds, Known, [Next]_vars, NEW h \in Handlers, Late(h),
           handler[h].phase = "responded"
    PROVE  Late(h)'
<1>1. PICK c \in Calls : c = CallOf(h)
  BY HandlerIs
<1>2. CASE tool[c].phase = "cancelled"
  <2>1. tool'[c].phase = "cancelled"
    BY <1>2, CancelledStays, Times
  <2>2. QED
    BY <1>1, <2>1 DEF Late, CallOf
<1>3. CASE h = <<c, 2>> /\ Forgotten(h)
  <2>1. Forgotten(h)'
    BY <1>3, ForgottenStays
  <2>2. QED
    BY <1>1, <1>3, <2>1 DEF Late, CallOf
<1>4. QED
  BY <1>1, <1>2, <1>3 DEF Late

\* The high marks, when no client's mark moves.
LEMMA MarksStay ==
    ASSUME Known, [Next]_vars, MarksOK,
           now < Lifetime => DOMAIN requests \subseteq DOMAIN requests',
           NEW k \in DOMAIN highestSequences, highestSequences'[k] = highestSequences[k]
    PROVE  \E h \in Handlers : Marked(k, h)'
<1>1. PICK h \in Handlers : Marked(k, h)
  BY DEF MarksOK
<1>2. handler[h].phase # "none" /\ Begun(h)'
  BY <1>1, HandlersGo, Times DEF Marked, Begun, GoesForward
<1>3. Identity(h)' = Identity(h)
  BY <1>2, IdentityStays
<1>4. now' < Lifetime => now < Lifetime
  BY Times, TimeGoes
<1>5. Marked(k, h)'
  BY <1>1, <1>2, <1>3, <1>4 DEF Marked
<1>6. QED
  BY <1>5

LEMMA MarksKept ==
    ASSUME Known, [Next]_vars, MarksOK, DOMAIN requests' = DOMAIN requests,
           UNCHANGED highestSequences
    PROVE  MarksOK'
BY MarksStay DEF MarksOK, Handlers

\* The responses, when what a handler has is what it had, or clean.
Hears(h) ==
    \/ handler'[h].response = None
    \/ /\ handler'[h].response = handler[h].response
       /\ handler[h].phase = "responded" => handler'[h].phase = "responded"
    \/ Clean(handler'[h].response)

LEMMA HearsClean ==
    ASSUME UniqueIds, Known, [Next]_vars, NEW h \in Handlers, HandlerClean(h), Hears(h)
    PROVE  HandlerClean(h)'
<1>1. PICK r : r = handler'[h].response
  OBVIOUS
<1>2. CASE r = None \/ Clean(r)
  BY <1>1, <1>2 DEF HandlerClean, Clean, Collisions
<1>3. CASE /\ r = handler[h].response
           /\ handler[h].phase = "responded" => handler'[h].phase = "responded"
  BY <1>1, <1>3, LateStays DEF HandlerClean, Clean, Collisions
<1>4. QED
  BY <1>1, <1>2, <1>3 DEF Hears

LEMMA AnswersStayClean ==
    ASSUME UniqueIds, Known, PromiseInv', [Next]_vars, HandlersClean, AnswersClean
    PROVE  AnswersClean'
<1>1. SUFFICES ASSUME NEW c \in Calls PROVE AnswerClean(c)'
  BY DEF AnswersClean
<1>2. ASSUME Forgotten(<<c, 2>>),
             tool[c].phase = "answered" \/ handler[<<c, 2>>].phase = "responded"
      PROVE  Forgotten(<<c, 2>>)'
  <2>1. PICK h \in Handlers : h = <<c, 2>>
    BY HandlersOf
  <2>2. Forgotten(h)'
    BY <1>2, <2>1, ForgottenStays
  <2>3. QED
    BY <2>1, <2>2
<1>3. CASE tool'[c] = tool[c]
  <2>1. tool[c].answer # None => tool[c].phase = "answered"
    BY Times DEF PromiseInv, Attempts
  <2>2. QED
    BY <1>2, <1>3, <2>1 DEF AnswersClean, AnswerClean, Clean, Collisions
<1>4. CASE tool'[c].phase # "answered"
  BY <1>4 DEF PromiseInv, Attempts, AnswerClean
<1>5. CASE ToolNext(c) /\ tool'[c].phase = "answered"
  <2>1. PICK r : r = tool'[c].answer
    OBVIOUS
  <2>2. CASE \E e \in {"broker_disconnected", "delivery_unknown", "bridge_unavailable"} :
                r = Failure(e)
    <3>1. Clean(r)
      BY <2>2, CleanFailures DEF Ambiguous, Refusals, Collisions
    <3>2. QED
      BY <2>1, <3>1 DEF AnswerClean, Clean, Collisions
  <2>3. CASE /\ tool[c].phase = "waiting" /\ handler[Attempt(c)].phase = "responded"
             /\ r = handler[Attempt(c)].response
    <3>1. PICK h \in Handlers : h = Attempt(c) /\ CallOf(h) = c
      BY AttemptIs, Times
    <3>2. r # None
      BY <2>3, <3>1, Times DEF PromiseInv, HandlersTrue
    <3>3. Clean(r) \/ (Late(h) /\ r.error = "request_sequence_stale")
      BY <2>3, <3>1, <3>2 DEF HandlersClean, HandlerClean
    <3>4. CASE Clean(r)
      BY <2>1, <3>4 DEF AnswerClean, Clean, Collisions
    <3>5. CASE Late(h) /\ r.error = "request_sequence_stale"
      <4>1. h = <<c, 2>> /\ Forgotten(h)
        BY <2>3, <3>1, <3>5 DEF Late
      <4>2. tool[c].attempt = 2
        <5>1. tool[c].attempt = 1 => handler[<<c, 2>>].phase = "none"
          BY Times DEF PromiseInv, Attempts
        <5>2. QED
          BY <2>3, <3>1, <4>1, <5>1, Times DEF PromiseInv, Types, ToolRecord
      <4>3. tool'[c].attempt = 2
        BY <1>5, <4>2, AnswersHow, Times
      <4>4. Forgotten(<<c, 2>>)'
        BY <1>2, <2>3, <3>1, <4>1
      <4>5. QED
        BY <2>1, <3>5, <4>3, <4>4 DEF AnswerClean
    <3>6. QED
      BY <3>3, <3>4, <3>5
  <2>4. QED
    BY <1>5, <2>1, <2>2, <2>3, AnswersHow, Times
<1>6. QED
  BY <1>3, <1>4, <1>5, CallsMove, Times

-----------------------------------------------------------------------------
\* The steps of a handler.
LEMMA EntriesStay ==
    ASSUME Known, [Next]_vars, MarksOK, EntriesLast, LedgerClean,
           UNCHANGED ledgerVars
    PROVE  MarksOK' /\ EntriesLast' /\ LedgerClean'
<1>1. requests' = requests /\ highestSequences' = highestSequences
  BY DEF ledgerVars
<1>2. EntriesLast' /\ LedgerClean'
  BY <1>1 DEF EntriesLast, ExpiresLate, LedgerClean
<1>3. MarksOK'
  BY <1>1, MarksKept
<1>4. QED
  BY <1>2, <1>3

LEMMA Moves ==
    ASSUME PromiseInv, NEW h \in Handlers, NEW phase, Advance(h, phase)
    PROVE  /\ handler'[h].phase = phase /\ handler'[h].response = handler[h].response
           /\ \A x \in Handlers : x # h => handler'[x] = handler[x]
<1>1. PICK t : t = [handler[h] EXCEPT !.phase = phase]
  OBVIOUS
<1>2. t.phase = phase /\ t.response = handler[h].response
  BY <1>1 DEF PromiseInv, Types, HandlerRecord
<1>3. handler' = [handler EXCEPT ![h] = t]
  BY <1>1 DEF Advance
<1>4. QED
  BY <1>2, <1>3 DEF PromiseInv, Types

LEMMA Speaks ==
    ASSUME PromiseInv, NEW h \in Handlers, NEW response, Respond(h, response)
    PROVE  /\ handler'[h].phase = "responded" /\ handler'[h].response = response
           /\ \A x \in Handlers : x # h => handler'[x] = handler[x]
<1>1. handler' = [handler EXCEPT ![h] = Responded(response)]
  BY DEF Respond, Responded
<1>2. QED
  BY <1>1 DEF Responded, PromiseInv, Types

\* One handler moves, and stays clean.
LEMMA OneMoves ==
    ASSUME UniqueIds, Known, [Next]_vars, HandlersClean, NEW h \in Handlers, HandlerClean(h)',
           \A x \in Handlers : x # h => handler'[x] = handler[x]
    PROVE  HandlersClean'
<1>1. ASSUME NEW x \in Handlers, x # h PROVE HandlerClean(x)'
  <2>1. Hears(x)
    BY <1>1 DEF Hears
  <2>2. QED
    BY <2>1, HearsClean DEF HandlersClean
<1>2. QED
  BY <1>1 DEF HandlersClean, Handlers

\* A handler that concludes with a clean response.
LEMMA ConcludesApart ==
    ASSUME UniqueIds, Known, [Next]_vars, Apart, NEW h \in Handlers, NEW response, Clean(response),
           Conclude(h, response)
    PROVE  MarksOK' /\ EntriesLast' /\ LedgerClean' /\ HandlersClean'
<1>1. EntriesLast' /\ LedgerClean' /\ DOMAIN requests' = DOMAIN requests
      /\ UNCHANGED highestSequences
  BY ConcludeCleans DEF Apart
<1>2. MarksOK'
  BY <1>1, MarksKept DEF Apart
<1>3. HandlersClean'
  <2>1. handler'[h].response = response /\ \A x \in Handlers : x # h => handler'[x] = handler[x]
    BY Speaks, Times DEF Conclude
  <2>2. Hears(h)
    BY <2>1 DEF Hears
  <2>3. QED
    BY <2>1, <2>2, OneMoves, HearsClean DEF Apart, HandlersClean
<1>4. QED
  BY <1>1, <1>2, <1>3

LEMMA BeginApart ==
    ASSUME UniqueIds, Known, [Next]_vars, Apart, NEW h \in Handlers, Begin(h)
    PROVE  MarksOK' /\ EntriesLast' /\ LedgerClean' /\ HandlersClean'
<1>1. PICK i : i = Identity(h)
  OBVIOUS
<1>2. handler[h].phase = "admitted" /\ Ledger!TryBegin(i, Effect(h)) /\ UNCHANGED tool
  BY <1>1 DEF Begin
<1>3. /\ EntriesLast' /\ LedgerClean' /\ UNCHANGED now
      /\ now < Lifetime => DOMAIN requests \subseteq DOMAIN requests'
      /\ \A k \in DOMAIN highestSequences' :
            \/ k \in DOMAIN highestSequences /\ highestSequences'[k] = highestSequences[k]
            \/ /\ k = i.client /\ highestSequences'[k].highest = i.sequence
               /\ i \in DOMAIN requests' /\ Ledger!Disposition(i) = "Accepted"
  BY <1>2, BeginCleans DEF Apart
<1>4. ASSUME NEW k \in DOMAIN highestSequences', k = i.client,
             highestSequences'[k].highest = i.sequence, i \in DOMAIN requests',
             Ledger!Disposition(i) = "Accepted"
      PROVE  Marked(k, h)'
  <2>1. Advance(h, "accepted")
    BY <1>1, <1>4 DEF Begin
  <2>2. Begun(h)'
    BY <2>1, Moves, Times DEF Begun
  <2>3. Identity(h)' = i
    BY <1>1, <1>2 DEF Identity, CallOf, Id
  <2>4. QED
    BY <1>4, <2>2, <2>3 DEF Marked
<1>5. MarksOK'
  <2>1. ASSUME NEW k \in DOMAIN highestSequences' PROVE \E x \in Handlers : Marked(k, x)'
    BY <1>3, <1>4, MarksStay DEF Apart
  <2>2. QED
    BY <2>1 DEF MarksOK, Handlers
<1>6. CASE Ledger!Disposition(i) = "Accepted"
  <2>1. Advance(h, "accepted")
    BY <1>1, <1>6 DEF Begin
  <2>2. handler'[h].response = handler[h].response
        /\ \A x \in Handlers : x # h => handler'[x] = handler[x]
    BY <2>1, Moves, Times
  <2>3. Hears(h)
    BY <1>2, <2>2 DEF Hears
  <2>4. QED
    BY <1>3, <1>5, <2>2, <2>3, OneMoves, HearsClean DEF Apart, HandlersClean
<1>7. CASE Ledger!Disposition(i) # "Accepted"
  <2>1. PICK r : r = Refusal(i)
    OBVIOUS
  <2>2. Respond(h, r)
    BY <1>1, <1>7, <2>1 DEF Begin
  <2>3. /\ handler'[h].phase = "responded" /\ handler'[h].response = r
        /\ \A x \in Handlers : x # h => handler'[x] = handler[x]
    BY <2>2, Speaks, Times
  <2>4. \/ Clean(r)
        \/ /\ r = Failure("request_sequence_stale") /\ i \notin Ledger!LiveIdentities
           /\ tool[CallOf(h)].phase # "cancelled" => h = <<CallOf(h), 2>> /\ now >= Lifetime
    BY <1>1, <1>2, <1>7, <2>1, BeginsApart
  <2>5. HandlerClean(h)'
    <3>1. CASE Clean(r)
      BY <2>3, <3>1 DEF HandlerClean, Clean, Collisions
    <3>2. CASE /\ r = Failure("request_sequence_stale") /\ i \notin Ledger!LiveIdentities
               /\ tool[CallOf(h)].phase # "cancelled" => h = <<CallOf(h), 2>> /\ now >= Lifetime
      <4>1. DOMAIN requests' = Ledger!LiveIdentities
        BY <1>2, <1>7 DEF Ledger!TryBegin, Ledger!BeginNew, Ledger!BeginExisting, Ledger!Refuse,
           Ledger!LiveRequests
      <4>2. Identity(h)' = i
        BY <1>1, <1>2 DEF Identity, CallOf, Id
      <4>3. Late(h)'
        BY <1>2, <1>3, <3>2, <4>1, <4>2 DEF Late, Forgotten, CallOf
      <4>4. QED
        BY <2>3, <3>2, <4>3, FailureIs DEF HandlerClean, Refusals
    <3>3. QED
      BY <2>4, <3>1, <3>2
  <2>6. QED
    BY <1>3, <1>5, <2>3, <2>5, OneMoves DEF Apart
<1>8. QED
  BY <1>6, <1>7

\* No entry is in the way of an accepted request.
LEMMA AddsApart ==
    ASSUME UniqueIds, Known, NEW h \in Handlers, handler[h].phase = "accepted"
    PROVE  session[SessionOf(h)].pending[Id(h)] = None
<1>1. PICK g \in Generations : g = SessionOf(h)
  BY Times DEF EntriesOK, EntryOK, Working
<1>2. PICK x : x = session[g].pending[Id(h)]
  OBVIOUS
<1>3. SUFFICES ASSUME x # None PROVE FALSE
  BY <1>1, <1>2
<1>4. x \in Handlers /\ Id(x) = Id(h)
  BY <1>2, <1>3, HandlerIs, Times DEF PromiseInv, Types, SessionRecord, OwnEntries
<1>5. handler[x].phase \in Working \ {"accepted"}
  BY <1>2, <1>4, Times DEF EntriesOK, EntryOK, Holds
<1>6. x = h
  BY <1>4, <1>5, OneActive, Times DEF Over, Working
<1>7. QED
  BY <1>5, <1>6

LEMMA HandlerApart ==
    ASSUME UniqueIds, Known, [Next]_vars, Apart, NEW h \in Handlers, HandlerNext(h)
    PROVE  MarksOK' /\ EntriesLast' /\ LedgerClean' /\ HandlersClean'
<1>1. ASSUME UNCHANGED ledgerVars, NEW phase, Advance(h, phase),
             handler[h].phase # "responded"
      PROVE  MarksOK' /\ EntriesLast' /\ LedgerClean' /\ HandlersClean'
  <2>1. handler'[h].response = handler[h].response
        /\ \A x \in Handlers : x # h => handler'[x] = handler[x]
    BY <1>1, Moves, Times
  <2>2. Hears(h)
    BY <1>1, <2>1 DEF Hears
  <2>3. QED
    BY <1>1, <2>1, <2>2, EntriesStay, OneMoves, HearsClean DEF Apart, HandlersClean
<1>2. CASE AdmitRequest(h)
  <2>1. PICK t : t = [handler[h] EXCEPT !.phase = "admitted", !.session = gameSession]
    OBVIOUS
  <2>2. t.response = handler[h].response
    BY <2>1, Times DEF PromiseInv, Types, HandlerRecord
  <2>3. handler' = [handler EXCEPT ![h] = t] /\ handler[h].phase = "received"
    BY <1>2, <2>1 DEF AdmitRequest
  <2>4. handler'[h] = t /\ \A x \in Handlers : x # h => handler'[x] = handler[x]
    BY <2>3, Times DEF PromiseInv, Types
  <2>5. Hears(h)
    BY <2>2, <2>3, <2>4 DEF Hears
  <2>6. QED
    BY <1>2, <2>4, <2>5, EntriesStay, OneMoves, HearsClean DEF Apart, HandlersClean, AdmitRequest
<1>3. CASE RefuseOffline(h) \/ ExpireLease(h)
  <2>1. Respond(h, Failure("game_offline")) /\ UNCHANGED ledgerVars
    BY <1>3 DEF RefuseOffline, ExpireLease
  <2>2. handler'[h].response = Failure("game_offline")
        /\ \A x \in Handlers : x # h => handler'[x] = handler[x]
    BY <2>1, Speaks, Times
  <2>3. Hears(h)
    BY <2>2, CleanFailures DEF Hears, Refusals, Collisions
  <2>4. QED
    BY <2>1, <2>2, <2>3, EntriesStay, OneMoves, HearsClean DEF Apart, HandlersClean
<1>4. CASE AddPending(h)
  <2>1. handler[h].phase = "accepted"
    BY <1>4 DEF AddPending
  <2>2. Advance(h, "added") /\ UNCHANGED ledgerVars
    BY <1>4, <2>1, AddsApart DEF AddPending
  <2>3. QED
    BY <1>1, <2>1, <2>2
<1>5. CASE FlushDone(h) \/ Timeout(h)
  BY <1>1, <1>5 DEF FlushDone, Timeout
<1>6. CASE WriteFails(h) \/ RemoveTimedOut(h)
  <2>1. Clean(Failure("delivery_unknown")) /\ Clean(Failure("game_timeout"))
    BY CleanFailures DEF Ambiguous, Collisions
  <2>2. QED
    BY <1>6, <2>1, ConcludesApart DEF WriteFails, RemoveTimedOut
<1>7. CASE Resume(h)
  <2>1. PICK r : r = handler[h].response
    OBVIOUS
  <2>2. Conclude(h, r) /\ r # None /\ handler[h].phase = "waiting"
    BY <1>7, <2>1 DEF Resume
  <2>3. Clean(r)
    BY <2>1, <2>2 DEF Apart, HandlersClean, HandlerClean
  <2>4. QED
    BY <2>2, <2>3, ConcludesApart
<1>8. QED
  BY <1>2, <1>3, <1>4, <1>5, <1>6, <1>7, BeginApart DEF HandlerNext

-----------------------------------------------------------------------------
\* The steps of the transport, of the sessions and of the game.
LEMMA AllHear ==
    ASSUME UniqueIds, Known, [Next]_vars, HandlersClean, \A h \in Handlers : Hears(h)
    PROVE  HandlersClean'
BY HearsClean DEF HandlersClean, Handlers

LEMMA ToolApart ==
    ASSUME UniqueIds, Known, [Next]_vars, Apart, NEW c \in Calls, ToolNext(c)
    PROVE  MarksOK' /\ EntriesLast' /\ LedgerClean' /\ HandlersClean'
<1>1. UNCHANGED ledgerVars
  BY DEF ToolNext, StartCall, Connect, ConnectFails, ReceiveResponse, LoseConnection, Cancel,
         brokerVars
<1>2. ASSUME NEW h \in Handlers PROVE Hears(h)
  <2>1. CASE handler'[h] = handler[h]
    BY <2>1 DEF Hears
  <2>2. CASE handler[h].phase = "none" /\ handler'[h].response = handler[h].response
    BY <2>2 DEF Hears
  <2>3. CASE h = Attempt(c) /\ handler[h].phase = "responded" /\ handler'[h].phase = "gone"
    <3>1. handler'[h] # handler[h]
      BY <2>3
    <3>2. handler' # handler
      BY <3>1
    <3>3. ~Connect(c)
      BY <2>3, Times DEF Connect, PromiseInv, Attempts
    <3>4. ReceiveResponse(c)
      BY <3>2, <3>3 DEF ToolNext, StartCall, ConnectFails, LoseConnection, Cancel, brokerVars
    <3>5. handler'[h] = Idle("gone")
      BY <2>3, <3>4, Times DEF ReceiveResponse, PromiseInv, Types
    <3>6. QED
      BY <3>5, GoneIs DEF Hears
  <2>4. QED
    BY <2>1, <2>2, <2>3, ToolHandlers, Times
<1>3. QED
  BY <1>1, <1>2, EntriesStay, AllHear DEF Apart

LEMMA SessionApart ==
    ASSUME UniqueIds, Known, [Next]_vars, Apart, NEW g \in Generations, SessionNext(g)
    PROVE  MarksOK' /\ EntriesLast' /\ LedgerClean' /\ HandlersClean'
<1>1. UNCHANGED ledgerVars
  BY DEF SessionNext, Register, Greet, GreetFails, SessionEnd
<1>2. ASSUME NEW h \in Handlers PROVE Hears(h)
  <2>1. CASE handler' = handler
    BY <2>1 DEF Hears
  <2>2. CASE SessionEnd(g)
    <3>1. PICK hs, r : /\ hs = {session[g].pending[id] : id \in RequestIds}
                       /\ r = Failure("delivery_unknown")
      OBVIOUS
    <3>2. r \in Response /\ Clean(r)
      BY <3>1, CleanFailures DEF Ambiguous, Collisions
    <3>3. handler' = Complete(hs, r)
      BY <2>2, <3>1 DEF SessionEnd
    <3>4. QED
      BY <3>2, <3>3, CompleteIs, Times DEF Hears, PromiseInv
  <2>3. QED
    BY <2>1, <2>2 DEF SessionNext, Register, Greet, GreetFails
<1>3. QED
  BY <1>1, <1>2, EntriesStay, AllHear DEF Apart

LEMMA WriteApart ==
    ASSUME UniqueIds, Known, [Next]_vars, Apart, WriteResponse
    PROVE  HandlersClean'
<1>1. PICK o \in Seq(Queued) : o = game.outbound /\ o # <<>>
  BY Times DEF WriteResponse, PromiseInv, Types, GameRecord
<1>2. PICK n : n = 1 /\ n \in DOMAIN o /\ Head(o) = o[n]
  BY <1>1
<1>3. PICK r \in Response : r = Head(o).response
  <2>1. PICK e \in Queued : e = Head(o)
    BY <1>1, TailIs
  <2>2. QED
    BY <2>1 DEF Queued
<1>4. Clean(r)
  BY <1>1, <1>2, <1>3 DEF Apart, QueueClean
<1>5. PICK hs : handler' = Complete(hs, r)
  BY <1>1, <1>3 DEF WriteResponse
<1>6. \A h \in Handlers : Hears(h)
  BY <1>4, <1>5, CompleteIs, Times DEF Hears, PromiseInv
<1>7. QED
  BY <1>6, AllHear DEF Apart

LEMMA GameApart ==
    ASSUME UniqueIds, Known, [Next]_vars, Apart, GameNext
    PROVE  MarksOK' /\ EntriesLast' /\ LedgerClean' /\ HandlersClean'
<1>1. UNCHANGED ledgerVars
  BY DEF GameNext, Dial, Drop, WriteResponse, WriteResponseFails, Execute, ReadTooEarly,
         ReadRequest, brokerVars
<1>2. HandlersClean'
  <2>1. CASE handler' = handler
    BY <2>1, AllHear DEF Apart, Hears
  <2>2. ASSUME NEW h \in Handlers, ReadTooEarly(h) \/ ReadRequest(h) PROVE HandlersClean'
    <3>1. Advance(h, "written") /\ handler[h].phase = "added"
      BY <2>2 DEF ReadTooEarly, ReadRequest, Reading
    <3>2. handler'[h].response = handler[h].response
          /\ \A x \in Handlers : x # h => handler'[x] = handler[x]
      BY <3>1, Moves, Times
    <3>3. Hears(h)
      BY <3>1, <3>2 DEF Hears
    <3>4. QED
      BY <3>2, <3>3, OneMoves, HearsClean DEF Apart, HandlersClean
  <2>3. CASE WriteResponse
    BY <2>3, WriteApart
  <2>4. QED
    BY <2>1, <2>2, <2>3 DEF GameNext, Dial, Drop, WriteResponseFails, Execute, brokerVars
<1>3. QED
  BY <1>1, <1>2, EntriesStay DEF Apart

LEMMA CrashApart ==
    ASSUME UniqueIds, Known, [Next]_vars, Apart, BrokerCrash
    PROVE  MarksOK' /\ EntriesLast' /\ LedgerClean' /\ HandlersClean'
<1>1. DOMAIN requests' = {} /\ DOMAIN highestSequences' = {}
  BY DEF BrokerCrash, Ledger!Restart, Ledger!Empty
<1>2. MarksOK' /\ EntriesLast' /\ LedgerClean'
  BY <1>1 DEF MarksOK, EntriesLast, LedgerClean
<1>3. ASSUME NEW h \in Handlers PROVE Hears(h)
  <2>1. handler'[h] = IF handler[h].phase = "none" THEN handler[h] ELSE Idle("gone")
    BY DEF BrokerCrash
  <2>2. QED
    BY <2>1, GoneIs DEF Hears
<1>4. QED
  BY <1>2, <1>3, AllHear DEF Apart

\* The queue of the game.
LEMMA QueueStaysClean ==
    ASSUME Known, QueueClean, [Next]_vars PROVE QueueClean'
<1>1. PICK o \in Seq(Queued) : o = game.outbound
  BY Times DEF PromiseInv, Types, GameRecord
<1>2. CASE game'.outbound = o
  BY <1>1, <1>2 DEF QueueClean
<1>3. CASE o # <<>> /\ game'.outbound = Tail(o)
  BY <1>1, <1>3 DEF QueueClean
<1>4. CASE game'.outbound = <<>>
  BY <1>4 DEF QueueClean
<1>5. ASSUME NEW h \in Handlers, NEW r \in Response, Clean(r),
             game'.outbound = Enqueued(o, Reply(h, r))
      PROVE  QueueClean'
  <2>1. PICK e \in Queued : e = Reply(h, r) /\ e.response = r
    <3>1. PICK id \in RequestIds : id = Id(h)
      BY HandlerIs
    <3>2. PICK e : e = [id |-> id, response |-> r]
      OBVIOUS
    <3>3. e \in Queued /\ e.response = r /\ e = Reply(h, r)
      BY <3>1, <3>2 DEF Reply, Queued
    <3>4. QED
      BY <3>3
  <2>2. PICK q : q = Enqueued(o, e)
    OBVIOUS
  <2>3. \A n \in DOMAIN q : (n \in DOMAIN o /\ q[n] = o[n]) \/ q[n] = e
    BY <2>2, EnqueuedIs
  <2>4. QED
    BY <1>1, <1>5, <2>1, <2>2, <2>3 DEF QueueClean
<1>6. ASSUME NEW c \in Calls, ToolNext(c) PROVE game' = game
  BY <1>6 DEF ToolNext, StartCall, Connect, ConnectFails, ReceiveResponse, LoseConnection, Cancel
<1>7. ASSUME NEW h \in Handlers, HandlerNext(h) PROVE game' = game
  BY <1>7 DEF HandlerNext, AdmitRequest, RefuseOffline, ExpireLease, Begin, AddPending,
       WriteFails, FlushDone, Resume, Timeout, RemoveTimedOut
<1>8. ASSUME NEW g \in Generations, SessionNext(g) PROVE game'.outbound = o
  BY <1>1, <1>8, Times DEF SessionNext, Register, Greet, GreetFails, SessionEnd, PromiseInv, Types,
     GameRecord
<1>9. CASE Dial \/ Drop
  BY <1>1, <1>2, <1>9, Times DEF Dial, Drop, Hangup, PromiseInv, Types, GameRecord
<1>10. CASE WriteResponse
  BY <1>1, <1>3, <1>10, Times DEF WriteResponse, PromiseInv, Types, GameRecord
<1>11. CASE WriteResponseFails
  <2>1. Hangup.outbound = o
    BY <1>1, Times DEF Hangup, PromiseInv, Types, GameRecord
  <2>2. PICK q : q = Tail(o)
    OBVIOUS
  <2>3. game' = [Hangup EXCEPT !.outbound = q] /\ o # <<>>
    BY <1>1, <1>11, <2>1, <2>2 DEF WriteResponseFails
  <2>4. game'.outbound = q
    BY <2>3, Times DEF Hangup, PromiseInv, Types, GameRecord
  <2>5. QED
    BY <1>3, <2>2, <2>3, <2>4
<1>12. CASE Execute
  <2>1. PICK i \in Seq(Handlers) : i = game.inbound /\ i # <<>>
    BY <1>12, Times DEF Execute, PromiseInv, Types, GameRecord
  <2>2. PICK h \in Handlers : h = Head(i)
    BY <2>1
  <2>3. PICK r \in Response : r = Success(CallOf(h)) /\ Clean(r)
    BY HandlerIs, SuccessIs, CleanSuccess
  <2>4. PICK j, q : j = Tail(i) /\ q = Enqueued(o, Reply(h, r))
    OBVIOUS
  <2>5. game' = [game EXCEPT !.inbound = j, !.outbound = q]
    BY <1>1, <1>12, <2>1, <2>2, <2>3, <2>4 DEF Execute
  <2>6. game'.outbound = q
    BY <2>5, Times DEF PromiseInv, Types, GameRecord
  <2>7. QED
    BY <1>5, <2>3, <2>4, <2>6
<1>13. ASSUME NEW h \in Handlers, ReadTooEarly(h) \/ ReadRequest(h) PROVE QueueClean'
  <2>1. PICK r \in Response : r = Failure("busy") /\ Clean(r)
    BY CleanFailures DEF Refusals, Collisions
  <2>2. PICK j, q : j = Append(game.inbound, h) /\ q = Enqueued(o, Reply(h, r))
    OBVIOUS
  <2>3. \/ game' = Hangup
        \/ game' = [game EXCEPT !.inbound = j]
        \/ game' = [game EXCEPT !.outbound = q]
    BY <1>1, <1>13, <2>1, <2>2 DEF ReadTooEarly, ReadRequest
  <2>4. game'.outbound \in {o, q}
    BY <1>1, <2>3, Times DEF Hangup, PromiseInv, Types, GameRecord
  <2>5. QED
    BY <1>2, <1>5, <2>1, <2>2, <2>4
<1>14. CASE GameCrash
  <2>1. PICK q : q = <<>>
    OBVIOUS
  <2>2. game' = [Hangup EXCEPT !.inbound = q, !.outbound = q]
    BY <1>14, <2>1 DEF GameCrash
  <2>3. game'.outbound = q
    BY <2>2, Times DEF Hangup, PromiseInv, Types, GameRecord
  <2>4. QED
    BY <1>4, <2>1, <2>3
<1>15. CASE BrokerCrash \/ LedgerClock \/ UNCHANGED vars
  BY <1>1, <1>2, <1>15 DEF BrokerCrash, LedgerClock, vars
<1>16. QED
  BY <1>1, <1>2, <1>6, <1>7, <1>8, <1>9, <1>10, <1>11, <1>12, <1>13, <1>14, <1>15
     DEF Next, GameNext

LEMMA ApartNext ==
    ASSUME UniqueIds, Known, PromiseInv', Apart, [Next]_vars PROVE Apart'
<1>1. QueueClean' /\ AnswersClean'
  BY QueueStaysClean, AnswersStayClean DEF Apart
<1>2. CASE LedgerClock
  <2>1. /\ requests' = requests /\ highestSequences' = highestSequences /\ handler' = handler
    BY <1>2 DEF LedgerClock, Ledger!Tick
  <2>2. EntriesLast' /\ LedgerClean' /\ MarksOK'
    BY <2>1, MarksKept DEF Apart, EntriesLast, ExpiresLate, LedgerClean
  <2>3. HandlersClean'
    BY <2>1, AllHear DEF Apart, Hears
  <2>4. QED
    BY <1>1, <2>2, <2>3 DEF Apart
<1>3. CASE GameCrash \/ UNCHANGED vars
  <2>1. UNCHANGED ledgerVars /\ handler' = handler
    BY <1>3 DEF GameCrash, vars, brokerVars
  <2>2. QED
    BY <1>1, <2>1, EntriesStay, AllHear DEF Apart, Hears
<1>4. QED
  BY <1>1, <1>2, <1>3, ToolApart, HandlerApart, SessionApart, GameApart, CrashApart DEF Next, Apart

LEMMA ApartInit == ASSUME Init PROVE Apart
<1>1. DOMAIN requests = {} /\ DOMAIN highestSequences = {}
  BY DEF Init, Ledger!Init, Ledger!Empty
<1>2. DOMAIN game.outbound = {}
  BY DEF Init
<1>3. \A h \in Handlers : handler[h].response = None
  BY DEF Init, Idle
<1>4. \A c \in Calls : tool[c].answer = None
  BY DEF Init
<1>5. QED
  BY <1>1, <1>2, <1>3, <1>4 DEF Apart, MarksOK, EntriesLast, LedgerClean, QueueClean,
     HandlersClean, HandlerClean, AnswersClean, AnswerClean

\* In every reachable state, no call is answered that its request is still in
\* progress or a duplicate, and only a second attempt that comes when the ledger
\* has forgotten the outcome of the first that its sequence is stale:
\* RequestAsync's retry meets no other trace of its first attempt, whatever was
\* lost, timed out or crashed in between.
THEOREM AttemptsKeepApart == ASSUME UniqueIds PROVE Spec => []AttemptsDoNotCollide
<1>1. Init => Apart
  BY ApartInit
<1>2. Known /\ PromiseInv' /\ Apart /\ [Next]_vars => Apart'
  BY ApartNext
<1>3. Known /\ Apart => AttemptsDoNotCollide
  <2>1. SUFFICES ASSUME Known, Apart, NEW c \in Calls, tool[c].phase = "answered"
                 PROVE  /\ tool[c].answer.error \notin {"request_in_progress", "duplicate_request"}
                        /\ tool[c].answer.error = "request_sequence_stale" =>
                              /\ tool[c].attempt = 2 /\ now >= Lifetime
                              /\ Identity(Attempt(c)) \notin DOMAIN requests
    BY DEF AttemptsDoNotCollide
  <2>2. tool[c].answer # None
    BY <2>1, Times DEF Answered, AnsweredOK
  <2>3. tool[c].attempt = 2 => Attempt(c) = <<c, 2>>
    BY DEF Attempt
  <2>4. QED
    BY <2>1, <2>2, <2>3 DEF Apart, AnswersClean, AnswerClean, Clean, Collisions, Forgotten
<1>4. PathInv /\ Memory!TypeOK /\ Memory!HandlerMatchesEntry => Known
  BY DEF Known
<1>5. Spec => []PathInv /\ []PromiseInv
  BY PathInvariant, PromiseInvariant
<1>6. Spec => []Memory!TypeOK /\ []Memory!HandlerMatchesEntry
  BY LedgerHolds
<1>7. QED
  BY <1>1, <1>2, <1>3, <1>4, <1>5, <1>6, PTL DEF Spec
=============================================================================
