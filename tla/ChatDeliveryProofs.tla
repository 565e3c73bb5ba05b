------------------------ MODULE ChatDeliveryProofs ------------------------
(* Proofs about ChatDelivery for any number of chats and connections and    *)
(* any capacities, crashes of both sides included: the types with what      *)
(* belongs together, among it that one flusher at a time is inside the      *)
(* gate; that the count of chats is right; that no accepted chat is lost;   *)
(* and that what a game process shows, it shows once, acceptance first and  *)
(* outcomes in the order of acceptance.                                     *)
EXTENDS ChatDelivery, SequenceTheorems, TLAPS

-----------------------------------------------------------------------------
(* Queues                                                                   *)

LEMMA Capacities ==
    /\ QueueCapacity \in Nat \ {0} /\ SessionEventCapacity \in Nat \ {0}
    /\ ChatQueueCapacity \in Nat \ {0} /\ DeliveredCapacity \in Nat \ {0}
    /\ PendingEventCapacities \subseteq Nat \ {0}
    /\ MaxGeneration \in Nat
    /\ Connections \in [PendingEventCapacities -> 0 .. MaxGeneration]
BY ChatAssumption DEF ChatAssumption

LEMMA PutOK ==
    ASSUME NEW S, NEW q \in Seq(S), NEW e \in S, Len(q) <= QueueCapacity
    PROVE  Put(q, e) \in Seq(S) /\ Len(Put(q, e)) <= QueueCapacity
BY Capacities DEF Put

LEMMA TailOK ==
    ASSUME NEW S, NEW q \in Seq(S), q # <<>>
    PROVE  Tail(q) \in Seq(S) /\ Head(q) \in S /\ Len(Tail(q)) = Len(q) - 1 /\ Len(q) > 0
OBVIOUS

LEMMA RememberOK ==
    ASSUME NEW ids \in Seq(Chats), NEW c \in Chats, Len(ids) <= DeliveredCapacity
    PROVE  Remember(ids, c) \in Seq(Chats) /\ Len(Remember(ids, c)) <= DeliveredCapacity
<1>1. Append(ids, c) \in Seq(Chats) /\ Len(Append(ids, c)) = Len(ids) + 1 /\ Len(ids) \in Nat
  OBVIOUS
<1>2. Append(ids, c) # <<>>
  BY <1>1
<1>3. Tail(Append(ids, c)) \in Seq(Chats) /\ Len(Tail(Append(ids, c))) = Len(ids)
  BY <1>1, <1>2, TailOK
<1>4. QED
  BY <1>1, <1>3, Capacities DEF Remember

\* A frame that waits for the game, or that the game has to write.
LEMMA HeadOK ==
    ASSUME GameOK
    PROVE  /\ game.inbound # <<>> =>
                 /\ Head(game.inbound).chat \in Chats
                 /\ Tail(game.inbound) \in Seq(FramesIn) /\ Len(Tail(game.inbound)) <= QueueCapacity
           /\ game.outbound # <<>> =>
                 /\ Head(game.outbound).chat \in Chats
                 /\ Tail(game.outbound) \in Seq(FramesOut) /\ Len(Tail(game.outbound)) <= QueueCapacity
<1>1. game.inbound \in Seq(FramesIn) /\ game.outbound \in Seq(FramesOut)
      /\ Len(game.inbound) <= QueueCapacity /\ Len(game.outbound) <= QueueCapacity
  BY DEF GameOK, Games
<1>2. \A f \in FramesIn \cup FramesOut : f.chat \in Chats
  BY DEF FramesIn, FramesOut
<1>3. QED
  BY <1>1, <1>2, TailOK, Capacities

-----------------------------------------------------------------------------
(* Types: the game                                                          *)

\* The parts of TypeOK that a step of the game leaves alone.
LEMMA BrokerUnchanged ==
    ASSUME TypeOK, UNCHANGED brokerVars PROVE SessionsOK' /\ WorkOK' /\ EventsOK' /\ FlushersOK'
BY DEF TypeOK, brokerVars, SessionsOK, SessionOK, WorkOK, EventsOK, FlushersOK, FlushOK

LEMMA AskOK == ASSUME TypeOK, NEW c \in Chats, Ask(c) PROVE TypeOK'
<1> DEFINE written == Append(game.outbound, Frame("ask", c))
<1>1. Frame("ask", c) \in FramesOut
  BY DEF Frame, FramesOut
<1>2. written \in Seq(FramesOut) /\ Len(written) <= QueueCapacity
  BY <1>1, Capacities DEF TypeOK, GameOK, Games, Ask
<1>3. GameOK'
  BY <1>2 DEF TypeOK, GameOK, Games, Ask
<1>4. QED
  BY <1>3, BrokerUnchanged DEF Ask, TypeOK

LEMMA ShowNoticeOK == ASSUME TypeOK, ShowNotice PROVE TypeOK'
<1>1. GameOK'
  BY HeadOK DEF TypeOK, GameOK, Games, ShowNotice
<1>2. QED
  BY <1>1, BrokerUnchanged DEF ShowNotice, TypeOK

LEMMA DeliverChatEventOK == ASSUME TypeOK, DeliverChatEvent PROVE TypeOK'
<1> DEFINE c == Head(game.inbound).chat
           answered == Put(game.outbound, Frame("ok", c))
<1>1. c \in Chats /\ Tail(game.inbound) \in Seq(FramesIn) /\ Len(Tail(game.inbound)) <= QueueCapacity
  BY HeadOK DEF TypeOK, DeliverChatEvent
<1>2. Frame("ok", c) \in FramesOut
  BY <1>1 DEF Frame, FramesOut
<1>3. answered \in Seq(FramesOut) /\ Len(answered) <= QueueCapacity
  BY <1>2, PutOK DEF TypeOK, GameOK, Games
<1>4. Remember(game.deliveredIds, c) \in Seq(Chats)
      /\ Len(Remember(game.deliveredIds, c)) <= DeliveredCapacity
  BY <1>1, RememberOK DEF TypeOK, GameOK, Games
<1>5. GameOK'
  BY <1>1, <1>3, <1>4 DEF TypeOK, GameOK, Games, DeliverChatEvent
<1>6. QED
  BY <1>5, BrokerUnchanged DEF DeliverChatEvent, TypeOK

LEMMA LinkOK ==
    ASSUME TypeOK, Dial \/ NoticeClosed \/ Drop \/ WriteFails PROVE TypeOK'
<1>1. GameOK'
  <2>1. CASE Dial
    <3>1. game.generation + 1 \in 0 .. MaxGeneration /\ game.generation + 1 # 0
      BY <2>1, Capacities DEF Dial, TypeOK, GameOK, Games, EventsOK
    <3>2. QED
      BY <2>1, <3>1 DEF Dial, TypeOK, GameOK, Games
  <2>2. CASE NoticeClosed \/ Drop
    BY <2>2 DEF NoticeClosed, Drop, Hangup, TypeOK, GameOK, Games
  <2>3. CASE WriteFails
    BY <2>3, HeadOK DEF WriteFails, Hangup, TypeOK, GameOK, Games
  <2>4. QED
    BY <2>1, <2>2, <2>3
<1>2. UNCHANGED brokerVars
  BY DEF Dial, NoticeClosed, Drop, WriteFails
<1>3. QED
  BY <1>1, <1>2, BrokerUnchanged DEF TypeOK

LEMMA GameCrashOK == ASSUME TypeOK, GameCrash PROVE TypeOK'
<1>1. /\ Len(<<>>) <= QueueCapacity /\ Len(<<>>) <= DeliveredCapacity
      /\ <<>> \in Seq(FramesIn) /\ <<>> \in Seq(FramesOut) /\ <<>> \in Seq(Chats)
  BY Capacities
<1>2. GameOK'
  BY <1>1 DEF TypeOK, GameOK, Games, GameCrash, Hangup
<1>3. QED
  BY <1>2, BrokerUnchanged DEF GameCrash, TypeOK

-----------------------------------------------------------------------------
(* Types: sessions, their event processors, and the work of the chat worker *)

\* The parts that a step leaves alone.
LEMMA GameUnchanged == ASSUME GameOK, UNCHANGED game PROVE GameOK'
BY DEF GameOK
LEMMA SessionsUnchanged == ASSUME SessionsOK, UNCHANGED <<session, gameSession>> PROVE SessionsOK'
BY DEF SessionsOK, SessionOK
LEMMA WorkUnchanged ==
    ASSUME WorkOK, UNCHANGED <<chatQueue, acknowledged, worker, accepted>> PROVE WorkOK'
BY DEF WorkOK
LEMMA EventsUnchanged ==
    ASSUME EventsOK, UNCHANGED <<pendingGameEvents, pendingEventCapacity>> PROVE EventsOK'
BY DEF EventsOK
LEMMA FlushersUnchanged ==
    ASSUME FlushersOK, UNCHANGED <<flush, gate>>,
           worker.phase = "flushing" => worker'.phase = "flushing",
           \A g \in Generations : session[g].reader # "none" => session'[g].reader # "none"
    PROVE  FlushersOK'
<1>1. ASSUME NEW f \in Flushers PROVE FlushOK(f)'
  <2>1. f = Worker \/ f \in Generations
    BY DEF Flushers, Worker
  <2>2. FlushOK(f)
    BY DEF FlushersOK
  <2>3. QED
    BY <2>1, <2>2 DEF FlushOK
<1>2. QED
  BY <1>1 DEF FlushersOK

LEMMA SessionChanged ==
    ASSUME SessionsOK, NEW g \in Generations, NEW s \in Sessions, SessionOK(s),
           session' = [session EXCEPT ![g] = s], gameSession' \in Generations \cup {None}
    PROVE  SessionsOK'
BY DEF SessionsOK

\* The steps of a session that leave its handlers and flushers alone.
LEMMA SessionStepOK ==
    ASSUME TypeOK, NEW g \in Generations, NEW s \in Sessions, SessionOK(s),
           session' = [session EXCEPT ![g] = s], gameSession' \in Generations \cup {None},
           session[g].reader # "none" => s.reader # "none",
           GameOK', WorkOK', worker.phase = "flushing" => worker'.phase = "flushing",
           UNCHANGED <<pendingGameEvents, pendingEventCapacity, flush, gate>>
    PROVE  TypeOK'
<1>1. SessionsOK'
  BY SessionChanged DEF TypeOK
<1>2. \A k \in Generations : session[k].reader # "none" => session'[k].reader # "none"
  BY DEF TypeOK, SessionsOK
<1>3. QED
  BY <1>1, <1>2, EventsUnchanged, FlushersUnchanged DEF TypeOK

LEMMA ReceiveOK ==
    ASSUME GameOK, NEW frame \in FramesIn, game' = Receive(frame) PROVE GameOK'
<1> DEFINE queued == Append(game.inbound, frame)
           refused == Put(game.outbound, Frame("busy", frame.chat))
<1>1. Len(game.inbound) < QueueCapacity => queued \in Seq(FramesIn) /\ Len(queued) <= QueueCapacity
  BY Capacities DEF GameOK, Games
<1>2. Frame("busy", frame.chat) \in FramesOut
  BY DEF Frame, FramesIn, FramesOut
<1>3. refused \in Seq(FramesOut) /\ Len(refused) <= QueueCapacity
  BY <1>2, PutOK DEF GameOK, Games
<1>4. QED
  BY <1>1, <1>3 DEF Receive, Hangup, GameOK, Games

LEMMA WriteEventOK == ASSUME TypeOK, WriteEvent PROVE TypeOK'
<1> DEFINE g == game.generation
           events == Append(session[g].events, Head(game.outbound).chat)
           s == [session[g] EXCEPT !.events = events]
<1>1. g \in Generations /\ session[g] \in Sessions /\ SessionOK(session[g])
  <2>1. session[g].pipe = "open"
    BY DEF WriteEvent, Readable
  <2>2. g \in 0 .. MaxGeneration
    BY DEF TypeOK, GameOK, Games
  <2>3. g # 0
    BY DEF WriteEvent, TypeOK, GameOK
  <2>4. QED
    BY <2>2, <2>3, Capacities DEF Generations, TypeOK, SessionsOK
<1>2. events \in Seq(Chats) /\ Len(events) <= SessionEventCapacity
  BY <1>1, HeadOK, Capacities DEF WriteEvent, TypeOK, Sessions
<1>3. s \in Sessions /\ SessionOK(s) /\ s.reader = session[g].reader
  BY <1>1, <1>2 DEF Sessions, SessionOK
<1>4. GameOK'
  BY HeadOK DEF WriteEvent, TypeOK, GameOK, Games
<1>5. QED
  BY <1>1, <1>3, <1>4, SessionStepOK, WorkUnchanged DEF WriteEvent, gameVars, TypeOK, SessionsOK

LEMMA ReadNoticeOK == ASSUME TypeOK, NEW g \in Generations, ReadNotice(g) PROVE TypeOK'
<1> DEFINE frame == Frame(session[g].notice, session[g].chat)
           s == [session[g] EXCEPT !.processor = "written"]
<1>1. session[g] \in Sessions /\ SessionOK(session[g]) /\ session[g].processor = "writing"
  BY DEF TypeOK, SessionsOK, ReadNotice
<1>2. frame \in FramesIn
  BY <1>1 DEF Sessions, SessionOK, Frame, FramesIn
<1>3. s \in Sessions /\ SessionOK(s) /\ s.reader = session[g].reader
  BY <1>1 DEF Sessions, SessionOK
<1>4. GameOK'
  BY <1>2, ReceiveOK DEF ReadNotice, TypeOK
<1>5. QED
  BY <1>3, <1>4, SessionStepOK, WorkUnchanged DEF ReadNotice, gameVars, TypeOK, SessionsOK

LEMMA GreetFailsOK == ASSUME TypeOK, NEW g \in Generations, GreetFails(g) PROVE TypeOK'
<1> DEFINE s == [session[g] EXCEPT !.pipe = "disposed"]
<1>1. s \in Sessions /\ SessionOK(s) /\ s.reader = session[g].reader
  BY DEF TypeOK, SessionsOK, Sessions, SessionOK
<1>2. QED
  BY <1>1, SessionStepOK, GameUnchanged, WorkUnchanged
  DEF GreetFails, Disconnected, chatVars, gameVars, TypeOK, SessionsOK

LEMMA ReaderStopsOK == ASSUME TypeOK, NEW g \in Generations, ReaderStops(g) PROVE TypeOK'
<1> DEFINE s == [session[g] EXCEPT !.reader = "draining"]
<1>1. s \in Sessions /\ SessionOK(s) /\ s.reader # "none"
  BY DEF TypeOK, SessionsOK, Sessions, SessionOK
<1>2. QED
  BY <1>1, SessionStepOK, GameUnchanged, WorkUnchanged
  DEF ReaderStops, chatVars, gameVars, TypeOK, SessionsOK

LEMMA TakeEventOK == ASSUME TypeOK, NEW g \in Generations, TakeEvent(g) PROVE TypeOK'
<1> DEFINE c == Head(session[g].events)
           s == [session[g] EXCEPT !.events = Tail(@),
                                   !.processor = IF gameSession = g THEN "checked" ELSE "idle",
                                   !.chat = IF gameSession = g THEN c ELSE None]
<1>1. session[g] \in Sessions /\ SessionOK(session[g])
  BY DEF TypeOK, SessionsOK
<1>2. session[g].events \in Seq(Chats) /\ session[g].events # <<>>
      /\ Len(session[g].events) <= SessionEventCapacity
  BY <1>1 DEF TakeEvent, Sessions, SessionOK
<1>3. Tail(session[g].events) \in Seq(Chats) /\ c \in Chats
      /\ Len(Tail(session[g].events)) <= SessionEventCapacity
  BY <1>2, TailOK, Capacities
<1>4. session[g].processor = "idle"
  BY DEF TakeEvent
<1>5. s \in Sessions /\ SessionOK(s) /\ s.reader = session[g].reader
  BY <1>1, <1>3, <1>4, NoneAssumption DEF Sessions, SessionOK
<1>6. session' = [session EXCEPT ![g] = s]
  BY DEF TakeEvent, TypeOK, SessionsOK
<1> HIDE DEF s
<1>7. GameOK' /\ WorkOK'
  BY GameUnchanged, WorkUnchanged DEF TakeEvent, chatVars, TypeOK
<1>8. QED
  BY <1>5, <1>6, <1>7, SessionStepOK DEF TakeEvent, chatVars, gameVars, TypeOK, SessionsOK

\* Notify, of a session that has checked a chat.
LEMMA NotifiedOK ==
    ASSUME TypeOK, NEW g \in Generations, session[g].processor = "checked", NEW notice \in Notices
    PROVE  LET s == [session[g] EXCEPT !.processor = "writing", !.notice = notice] IN
           /\ s \in Sessions /\ SessionOK(s) /\ s.reader = session[g].reader
           /\ session[g].chat \in Chats
BY NoneAssumption DEF TypeOK, SessionsOK, Sessions, SessionOK, Notices

LEMMA QueueChatOK == ASSUME TypeOK, NEW g \in Generations, QueueChat(g) PROVE TypeOK'
<1> DEFINE c == session[g].chat
           s == [session[g] EXCEPT !.processor = "writing", !.notice = "accepted"]
<1>1. s \in Sessions /\ SessionOK(s) /\ s.reader = session[g].reader /\ c \in Chats
  BY NotifiedOK DEF QueueChat, Notices
<1>2. Append(chatQueue, c) \in Seq(Chats) /\ Len(Append(chatQueue, c)) <= ChatQueueCapacity
      /\ Append(accepted, c) \in Seq(Chats)
  BY <1>1, Capacities DEF QueueChat, TypeOK, WorkOK
<1>3. WorkOK'
  BY <1>2 DEF QueueChat, TypeOK, WorkOK
<1>4. QED
  BY <1>1, <1>3, SessionStepOK, GameUnchanged DEF QueueChat, Notify, gameVars, TypeOK, SessionsOK

LEMMA RefuseChatOK == ASSUME TypeOK, NEW g \in Generations, RefuseChat(g) PROVE TypeOK'
<1> DEFINE s == [session[g] EXCEPT !.processor = "writing", !.notice = "refused"]
<1>1. s \in Sessions /\ SessionOK(s) /\ s.reader = session[g].reader
  BY NotifiedOK DEF RefuseChat, Notices
<1>2. QED
  BY <1>1, SessionStepOK, GameUnchanged, WorkUnchanged
  DEF RefuseChat, Notify, chatVars, gameVars, TypeOK, SessionsOK

LEMMA NoticeOK ==
    ASSUME TypeOK, NEW g \in Generations, NoticeSent(g) \/ NoticeFails(g) PROVE TypeOK'
<1>1. PICK processor \in {"idle", "stopped"} :
          session[g].processor \in {"writing", "written"} /\ NoticeEnds(g, processor)
  BY DEF NoticeSent, NoticeFails
<1> DEFINE s == [session[g] EXCEPT !.processor = processor, !.chat = None, !.notice = None]
<1>2. s \in Sessions /\ SessionOK(s) /\ s.reader = session[g].reader /\ session[g].chat \in Chats
  BY <1>1 DEF TypeOK, SessionsOK, Sessions, SessionOK
<1>3. session' = [session EXCEPT ![g] = s]
  BY <1>1 DEF NoticeEnds, TypeOK, SessionsOK
<1>4. WorkOK'
  BY <1>1, <1>2 DEF NoticeEnds, Acknowledge, TypeOK, WorkOK
<1>5. QED
  BY <1>1, <1>2, <1>3, <1>4, SessionStepOK, GameUnchanged DEF NoticeEnds, gameVars, TypeOK, SessionsOK

-----------------------------------------------------------------------------
(* Types: the flushers                                                      *)

\* The causes of the flushers are still there.
Caused ==
    \A f \in Flushers : flush[f].phase # "idle" =>
        IF f = Worker THEN worker'.phase = "flushing" ELSE session'[f].reader # "none"

LEMMA StillCaused ==
    ASSUME FlushersOK, worker.phase = "flushing" => worker'.phase = "flushing",
           \A g \in Generations : session[g].reader # "none" => session'[g].reader # "none"
    PROVE  Caused
BY DEF FlushersOK, FlushOK, Caused, Flushers, Worker

\* One flusher takes a step, into the gate or out of it perhaps.
LEMMA FlusherChanged ==
    ASSUME FlushersOK, NEW f \in Flushers, NEW r \in Flushes, flush' = [flush EXCEPT ![f] = r],
           \/ gate' = gate
           \/ gate = None /\ gate' = f
           \/ gate = f /\ gate' = None,
           r.session # None <=> r.phase # "idle",
           r.event # None <=> r.phase \in {"added", "written", "waiting"},
           r.response # None => r.event # None,
           gate' = f <=> r.phase \notin {"idle", "gate"},
           \A k \in Flushers \ {f} : flush[k].phase # "idle" =>
              IF k = Worker THEN worker'.phase = "flushing" ELSE session'[k].reader # "none",
           r.phase # "idle" => IF f = Worker THEN worker'.phase = "flushing"
                               ELSE session'[f].reader # "none"
    PROVE  FlushersOK'
<1>1. flush' \in [Flushers -> Flushes] /\ gate' \in Flushers \cup {None}
  BY DEF FlushersOK
<1>2. FlushOK(f)'
  BY DEF FlushersOK, FlushOK
<1>3. ASSUME NEW k \in Flushers, k # f PROVE FlushOK(k)'
  <2>1. flush'[k] = flush[k] /\ FlushOK(k)
    BY <1>3 DEF FlushersOK
  <2>2. gate' = k <=> gate = k
    BY <1>3, NoneAssumption
  <2>3. QED
    BY <1>3, <2>1, <2>2 DEF FlushOK
<1>4. QED
  BY <1>1, <1>2, <1>3 DEF FlushersOK

\* The reader of a session, or its end, completes deliveries.
LEMMA CompleteOK ==
    ASSUME FlushersOK, Caused, NEW g \in Generations, NEW cs \in SUBSET Chats,
           NEW response \in Responses, flush' = Complete(g, cs, response), UNCHANGED gate
    PROVE  FlushersOK'
<1>1. flush' \in [Flushers -> Flushes]
  BY DEF FlushersOK, Flushes, Complete
<1>2. ASSUME NEW f \in Flushers PROVE FlushOK(f)'
  <2>1. FlushOK(f) /\ flush[f] \in Flushes
    BY DEF FlushersOK
  <2>2. CASE flush[f].session = g /\ flush[f].event \in cs /\ flush[f].response = None
    <3>1. flush'[f] = [flush[f] EXCEPT !.response = response] /\ flush[f].event # None
      BY <2>2, NoneAssumption DEF Complete
    <3>2. QED
      BY <2>1, <3>1 DEF FlushOK, Flushes, Caused
  <2>3. CASE ~(flush[f].session = g /\ flush[f].event \in cs /\ flush[f].response = None)
    <3>1. flush'[f] = flush[f]
      BY <2>3 DEF Complete
    <3>2. QED
      BY <2>1, <3>1 DEF FlushOK, Caused
  <2>4. QED
    BY <2>2, <2>3
<1>3. QED
  BY <1>1, <1>2 DEF FlushersOK

LEMMA WriteResponseOK == ASSUME TypeOK, WriteResponse PROVE TypeOK'
<1> DEFINE g == game.generation
           frame == Head(game.outbound)
           s == [session[g] EXCEPT !.pending = @ \ {frame.chat}]
<1>1. g \in Generations
  BY Capacities DEF WriteResponse, TypeOK, GameOK, Games, Generations
<1>2. s \in Sessions /\ SessionOK(s) /\ s.reader = session[g].reader
      /\ session[g].pending \in SUBSET Chats
  <2>1. session[g] \in Sessions /\ SessionOK(session[g])
    BY <1>1 DEF TypeOK, SessionsOK
  <2>2. session[g].pending \ {frame.chat} \in SUBSET Chats
    BY <2>1 DEF Sessions
  <2>3. QED
    BY <2>1, <2>2 DEF Sessions, SessionOK
<1>3. session' = [session EXCEPT ![g] = s]
  BY DEF WriteResponse, TypeOK, SessionsOK
<1>4. SessionsOK'
  BY <1>1, <1>2, <1>3, SessionChanged DEF WriteResponse, TypeOK, SessionsOK
<1>5. \A k \in Generations : session'[k].reader = session[k].reader
  BY <1>1, <1>2, <1>3 DEF TypeOK, SessionsOK
<1>6. Caused
  BY <1>5, StillCaused DEF WriteResponse, TypeOK
<1>7. FlushersOK'
  BY <1>1, <1>2, <1>6, CompleteOK DEF WriteResponse, Responses, TypeOK
<1>8. GameOK'
  BY HeadOK DEF WriteResponse, TypeOK, GameOK, Games
<1>9. QED
  BY <1>4, <1>7, <1>8, WorkUnchanged, EventsUnchanged DEF WriteResponse, gameVars, TypeOK

LEMMA EndedOK ==
    EndedSession \in Sessions /\ SessionOK(EndedSession) /\ EndedSession.reader = "ended"
<1>1. <<>> \in Seq(Chats) /\ Len(<<>>) <= SessionEventCapacity
  BY Capacities
<1>2. NoSession \in Sessions /\ SessionOK(NoSession)
  BY <1>1 DEF NoSession, Sessions, SessionOK
<1>3. EndedSession \in Sessions /\ EndedSession.reader = "ended"
  BY <1>2 DEF EndedSession, Sessions
<1>4. SessionOK(EndedSession)
  BY <1>2 DEF EndedSession, Sessions, SessionOK
<1>5. QED
  BY <1>3, <1>4

LEMMA SessionEndOK == ASSUME TypeOK, NEW g \in Generations, SessionEnd(g) PROVE TypeOK'
<1>1. EndedSession \in Sessions /\ SessionOK(EndedSession) /\ EndedSession.reader = "ended"
  BY EndedOK
<1>2. session' = [session EXCEPT ![g] = EndedSession]
      /\ gameSession' \in Generations \cup {None}
  BY DEF SessionEnd, TypeOK, SessionsOK
<1>3. SessionsOK'
  BY <1>1, <1>2, SessionChanged DEF TypeOK
<1>4. Caused
  BY <1>1, <1>2, StillCaused DEF SessionEnd, chatVars, TypeOK, SessionsOK
<1>5. session[g].pending \in SUBSET Chats
  BY DEF TypeOK, SessionsOK, Sessions
<1>6. FlushersOK'
  BY <1>4, <1>5, CompleteOK DEF SessionEnd, Responses, TypeOK
<1>7. QED
  BY <1>3, <1>6, GameUnchanged, WorkUnchanged, EventsUnchanged
  DEF SessionEnd, chatVars, gameVars, TypeOK

LEMMA GreetOK == ASSUME TypeOK, NEW g \in Generations, Greet(g) PROVE TypeOK'
<1> DEFINE s == [session[g] EXCEPT !.reader = "running"]
           r == [flush[g] EXCEPT !.phase = "gate", !.session = g]
<1>1. s \in Sessions /\ SessionOK(s) /\ s.reader # "none"
  BY DEF TypeOK, SessionsOK, Sessions, SessionOK
<1>2. session' = [session EXCEPT ![g] = s]
  BY DEF Greet, TypeOK, SessionsOK
<1>3. SessionsOK'
  BY <1>1, <1>2, SessionChanged DEF Greet, TypeOK, SessionsOK
<1>4. Caused
  BY <1>1, <1>2, StillCaused DEF Greet, chatVars, TypeOK, SessionsOK
<1>5. g \in Flushers /\ g # Worker /\ g # None
  BY Capacities, NoneAssumption DEF Flushers, Generations, Worker
<1>6. FlushOK(g) /\ flush[g] \in Flushes /\ flush[g].phase = "idle"
  BY <1>5 DEF Greet, TypeOK, FlushersOK, FlushOK
<1>7. r \in Flushes /\ r.session = g /\ r.phase = "gate" /\ r.event = None /\ r.response = None
  BY <1>6 DEF Flushes, FlushOK
<1>8. flush' = [flush EXCEPT ![g] = r]
  BY <1>5 DEF Greet, TypeOK, FlushersOK
<1>9. session'[g].reader # "none" /\ gate' = gate /\ gate # g
  BY <1>1, <1>2, <1>6 DEF Greet, TypeOK, SessionsOK, FlushOK
<1> HIDE DEF r
<1>10. FlushersOK'
  BY <1>4, <1>5, <1>7, <1>8, <1>9, FlusherChanged DEF TypeOK, Caused
<1>11. GameOK'
  BY <1>5 DEF Greet, TypeOK, GameOK, Games, Worker
<1>12. QED
  BY <1>3, <1>10, <1>11, WorkUnchanged, EventsUnchanged DEF Greet, chatVars, gameVars, TypeOK

LEMMA RegisterOK == ASSUME TypeOK, NEW g \in Generations, Register(g) PROVE TypeOK'
<1>1. ASSUME NEW k \in Generations
      PROVE  /\ session'[k] \in Sessions /\ SessionOK(session'[k])
             /\ session'[k].reader = session[k].reader
  <2>1. session[k] \in Sessions /\ SessionOK(session[k])
    BY DEF TypeOK, SessionsOK
  <2>2. PICK pipe \in {"none", "open", "disposed"} : session'[k] = [session[k] EXCEPT !.pipe = pipe]
    <3>1. session[k] = [session[k] EXCEPT !.pipe = session[k].pipe]
      BY <2>1 DEF Sessions
    <3>2. session[k].pipe \in {"none", "open", "disposed"}
      BY <2>1 DEF Sessions
    <3>3. QED
      BY <3>1, <3>2 DEF Register
  <2>3. QED
    BY <2>1, <2>2 DEF Sessions, SessionOK
<1>2. SessionsOK'
  <2>1. session' \in [Generations -> Sessions]
    BY <1>1 DEF Register
  <2>2. QED
    BY <1>1, <2>1 DEF Register, SessionsOK, SessionOK
<1>3. FlushersOK'
  BY <1>1, FlushersUnchanged DEF Register, chatVars, TypeOK
<1>4. QED
  BY <1>2, <1>3, GameUnchanged, WorkUnchanged, EventsUnchanged
  DEF Register, chatVars, gameVars, TypeOK

\* A step of a flusher that leaves the sessions alone, or changes one of them.
LEMMA FlusherStepOK ==
    ASSUME TypeOK, NEW f \in Flushers, NEW r \in Flushes, flush' = [flush EXCEPT ![f] = r],
           flush[f].phase # "idle",
           \/ gate' = gate
           \/ gate = None /\ gate' = f
           \/ gate = f /\ gate' = None,
           r.session # None <=> r.phase # "idle",
           r.event # None <=> r.phase \in {"added", "written", "waiting"},
           r.response # None => r.event # None,
           gate' = f <=> r.phase \notin {"idle", "gate"},
           GameOK', SessionsOK',
           \A g \in Generations : session'[g].reader = session[g].reader,
           EventsOK', UNCHANGED <<chatQueue, acknowledged, worker, accepted>>
    PROVE  TypeOK'
<1>1. Caused
  BY StillCaused DEF TypeOK
<1>2. FlushersOK'
  BY <1>1, FlusherChanged DEF TypeOK, Caused
<1>3. QED
  BY <1>2, WorkUnchanged DEF TypeOK

\* The session of a flusher at work, with other deliveries pending.
LEMMA SessionOfOK ==
    ASSUME TypeOK, NEW f \in Flushers, flush[f].phase # "idle",
           NEW pending \in SUBSET Chats, NEW pipe \in {"disposed", session[SessionOf(f)].pipe}
    PROVE  LET g == SessionOf(f)
               s == [session[g] EXCEPT !.pending = pending, !.pipe = pipe]
           IN  /\ g \in Generations
               /\ s \in Sessions /\ SessionOK(s) /\ s.reader = session[g].reader
               /\ session[g].pending \in SUBSET Chats
<1>1. SessionOf(f) \in Generations
  BY DEF SessionOf, TypeOK, FlushersOK, FlushOK, Flushes
<1>2. session[SessionOf(f)] \in Sessions /\ SessionOK(session[SessionOf(f)])
  BY <1>1 DEF TypeOK, SessionsOK
<1>3. QED
  BY <1>1, <1>2 DEF Sessions, SessionOK

\* ... and the parts of TypeOK that this touches.
LEMMA FlushedSessionOK ==
    ASSUME TypeOK, NEW f \in Flushers, flush[f].phase # "idle",
           NEW pending \in SUBSET Chats, NEW pipe \in {"disposed", session[SessionOf(f)].pipe},
           session' = [session EXCEPT
                         ![SessionOf(f)] = [session[SessionOf(f)] EXCEPT
                                              !.pending = pending, !.pipe = pipe]],
           UNCHANGED gameSession
    PROVE  /\ SessionsOK'
           /\ \A g \in Generations : session'[g].reader = session[g].reader
<1> DEFINE g == SessionOf(f)
           s == [session[g] EXCEPT !.pending = pending, !.pipe = pipe]
<1>1. g \in Generations /\ s \in Sessions /\ SessionOK(s) /\ s.reader = session[g].reader
  BY SessionOfOK
<1> HIDE DEF g, s
<1>2. session' = [session EXCEPT ![g] = s]
  BY DEF g, s
<1>3. QED
  BY <1>1, <1>2, SessionChanged DEF TypeOK, SessionsOK

LEMMA FlusherIn ==
    ASSUME TypeOK, NEW f \in Flushers
    PROVE  flush[f] \in Flushes /\ FlushOK(f) /\ f # None
BY NoneAssumption DEF TypeOK, FlushersOK

LEMMA EnterGateOK == ASSUME TypeOK, NEW f \in Flushers, EnterGate(f) PROVE TypeOK'
<1> DEFINE r == [flush[f] EXCEPT !.phase = "peek"]
<1>1. flush[f] \in Flushes /\ FlushOK(f) /\ flush[f].phase = "gate"
  BY FlusherIn DEF EnterGate
<1>2. r \in Flushes /\ r.session # None /\ r.phase = "peek" /\ r.event = None /\ r.response = None
  BY <1>1 DEF Flushes, FlushOK
<1>3. flush' = [flush EXCEPT ![f] = r]
  BY DEF EnterGate, Step, TypeOK, FlushersOK
<1> HIDE DEF r
<1>4. GameOK' /\ SessionsOK' /\ EventsOK'
  BY GameUnchanged, SessionsUnchanged, EventsUnchanged DEF EnterGate, gameVars, TypeOK
<1>5. gate = None /\ gate' = f
  BY DEF EnterGate
<1>6. QED
  BY <1>1, <1>2, <1>3, <1>4, <1>5, FlusherStepOK DEF EnterGate, chatVars

\* What a flusher that leaves does to itself and the gate.
LEMMA LeaveOK ==
    ASSUME TypeOK, NEW f \in Flushers, flush[f].phase \notin {"idle", "gate"}, Leave(f),
           GameOK', SessionsOK',
           \A g \in Generations : session'[g].reader = session[g].reader,
           EventsOK', UNCHANGED chatVars
    PROVE  TypeOK'
<1>1. NoFlush \in Flushes /\ NoFlush.session = None /\ NoFlush.phase = "idle"
      /\ NoFlush.event = None /\ NoFlush.response = None
  BY DEF NoFlush, Flushes
<1>2. gate = f /\ f # None
  BY FlusherIn DEF FlushOK
<1>3. QED
  BY <1>1, <1>2, FlusherStepOK DEF Leave, chatVars

LEMMA LeaveEmptyOK == ASSUME TypeOK, NEW f \in Flushers, LeaveEmpty(f) PROVE TypeOK'
<1>1. GameOK' /\ SessionsOK' /\ EventsOK'
  BY GameUnchanged, SessionsUnchanged, EventsUnchanged DEF LeaveEmpty, gameVars, TypeOK
<1>2. QED
  BY <1>1, LeaveOK DEF LeaveEmpty

LEMMA PeekEventOK == ASSUME TypeOK, NEW f \in Flushers, PeekEvent(f) PROVE TypeOK'
<1> DEFINE c == Head(pendingGameEvents)
           g == SessionOf(f)
           pending == session[g].pending \cup {c}
           r == [flush[f] EXCEPT !.phase = "added", !.event = c]
<1>1. flush[f] \in Flushes /\ FlushOK(f) /\ flush[f].phase = "peek"
  BY FlusherIn DEF PeekEvent
<1>2. c \in Chats /\ c # None
  BY TailOK, NoneAssumption DEF PeekEvent, TypeOK, EventsOK
<1>3. pending \in SUBSET Chats
  BY <1>1, <1>2, SessionOfOK
<1>4. session' = [session EXCEPT ![g] = [session[g] EXCEPT !.pending = pending,
                                                          !.pipe = session[g].pipe]]
  <2>1. session[g] \in Sessions
    BY <1>1, SessionOfOK DEF TypeOK, SessionsOK
  <2>2. [session[g] EXCEPT !.pending = pending, !.pipe = session[g].pipe]
        = [session[g] EXCEPT !.pending = pending]
    BY <2>1 DEF Sessions
  <2>3. QED
    BY <2>2 DEF PeekEvent
<1>5. SessionsOK' /\ \A k \in Generations : session'[k].reader = session[k].reader
  BY <1>1, <1>3, <1>4, FlushedSessionOK DEF PeekEvent
<1>6. r \in Flushes /\ r.session # None /\ r.phase = "added" /\ r.event # None
      /\ r.response = None /\ gate = f
  BY <1>1, <1>2 DEF Flushes, FlushOK
<1>7. flush' = [flush EXCEPT ![f] = r]
  BY DEF PeekEvent, TypeOK, FlushersOK
<1> HIDE DEF r
<1>8. GameOK' /\ EventsOK'
  BY GameUnchanged, EventsUnchanged DEF PeekEvent, gameVars, TypeOK
<1>9. QED
  BY <1>1, <1>5, <1>6, <1>7, <1>8, FlusherStepOK DEF PeekEvent, chatVars

LEMMA DeliveryWriteFailsOK ==
    ASSUME TypeOK, NEW f \in Flushers, DeliveryWriteFails(f) PROVE TypeOK'
<1> DEFINE g == SessionOf(f)
           pending == session[g].pending \ {flush[f].event}
<1>1. flush[f].phase \notin {"idle", "gate"}
  BY DEF DeliveryWriteFails
<1>2. g \in Generations /\ session[g].pending \in SUBSET Chats /\ session[g] \in Sessions
  BY <1>1, SessionOfOK DEF TypeOK, SessionsOK
<1>3. session' = [session EXCEPT ![g] = [session[g] EXCEPT !.pending = pending,
                                                          !.pipe = session[g].pipe]]
  <2>1. [session[g] EXCEPT !.pending = pending, !.pipe = session[g].pipe]
        = [session[g] EXCEPT !.pending = pending]
    BY <1>2 DEF Sessions
  <2>2. QED
    BY <2>1 DEF DeliveryWriteFails, RemovePending
<1>4. SessionsOK' /\ \A k \in Generations : session'[k].reader = session[k].reader
  BY <1>1, <1>2, <1>3, FlushedSessionOK DEF DeliveryWriteFails
<1>5. GameOK' /\ EventsOK'
  BY GameUnchanged, EventsUnchanged DEF DeliveryWriteFails, gameVars, TypeOK
<1>6. QED
  BY <1>1, <1>4, <1>5, LeaveOK DEF DeliveryWriteFails

LEMMA DeliveryRefusedOK ==
    ASSUME TypeOK, NEW f \in Flushers, DeliveryRefused(f) PROVE TypeOK'
<1> DEFINE g == SessionOf(f)
<1>1. flush[f].phase \notin {"idle", "gate"}
  BY DEF DeliveryRefused
<1>2. g \in Generations /\ session[g].pending \in SUBSET Chats /\ session[g] \in Sessions
  BY <1>1, SessionOfOK DEF TypeOK, SessionsOK
<1>3. session' = [session EXCEPT ![g] = [session[g] EXCEPT !.pending = session[g].pending,
                                                          !.pipe = "disposed"]]
  <2>1. [session[g] EXCEPT !.pending = session[g].pending, !.pipe = "disposed"]
        = [session[g] EXCEPT !.pipe = "disposed"]
    BY <1>2 DEF Sessions
  <2>2. QED
    BY <2>1 DEF DeliveryRefused, Disconnected
<1>4. SessionsOK' /\ \A k \in Generations : session'[k].reader = session[k].reader
  BY <1>1, <1>2, <1>3, FlushedSessionOK DEF DeliveryRefused
<1>5. GameOK' /\ EventsOK'
  BY GameUnchanged, EventsUnchanged DEF DeliveryRefused, gameVars, TypeOK
<1>6. QED
  BY <1>1, <1>4, <1>5, LeaveOK DEF DeliveryRefused

LEMMA DeliveryTimeoutOK ==
    ASSUME TypeOK, NEW f \in Flushers, DeliveryTimeout(f) PROVE TypeOK'
<1> DEFINE g == SessionOf(f)
           pending == session[g].pending \ {flush[f].event}
<1>1. flush[f].phase \notin {"idle", "gate"}
  BY DEF DeliveryTimeout
<1>2. g \in Generations /\ session[g].pending \in SUBSET Chats
  BY <1>1, SessionOfOK
<1>3. session' = [session EXCEPT ![g] = [session[g] EXCEPT !.pending = pending,
                                                          !.pipe = "disposed"]]
  BY <1>2 DEF DeliveryTimeout, RemovePending, TypeOK, SessionsOK
<1>4. SessionsOK' /\ \A k \in Generations : session'[k].reader = session[k].reader
  BY <1>1, <1>2, <1>3, FlushedSessionOK DEF DeliveryTimeout
<1>5. GameOK' /\ EventsOK'
  BY GameUnchanged, EventsUnchanged DEF DeliveryTimeout, gameVars, TypeOK
<1>6. QED
  BY <1>1, <1>4, <1>5, LeaveOK DEF DeliveryTimeout

LEMMA DeliveryWrittenOK ==
    ASSUME TypeOK, NEW f \in Flushers, DeliveryWritten(f) PROVE TypeOK'
<1> DEFINE r == [flush[f] EXCEPT !.phase = "waiting"]
<1>1. flush[f] \in Flushes /\ FlushOK(f) /\ flush[f].phase = "written"
  BY FlusherIn DEF DeliveryWritten
<1>2. r \in Flushes /\ r.session # None /\ r.phase = "waiting" /\ r.event # None /\ gate = f
  BY <1>1 DEF Flushes, FlushOK
<1>3. flush' = [flush EXCEPT ![f] = r]
  BY DEF DeliveryWritten, Step, TypeOK, FlushersOK
<1> HIDE DEF r
<1>4. GameOK' /\ SessionsOK' /\ EventsOK'
  BY GameUnchanged, SessionsUnchanged, EventsUnchanged DEF DeliveryWritten, gameVars, TypeOK
<1>5. QED
  BY <1>1, <1>2, <1>3, <1>4, FlusherStepOK DEF DeliveryWritten, chatVars

LEMMA ReadDeliveryOK == ASSUME TypeOK, NEW f \in Flushers, ReadDelivery(f) PROVE TypeOK'
<1> DEFINE r == [flush[f] EXCEPT !.phase = "written"]
           frame == Frame("deliver", flush[f].event)
<1>1. flush[f] \in Flushes /\ FlushOK(f) /\ flush[f].phase = "added"
  BY FlusherIn DEF ReadDelivery
<1>2. r \in Flushes /\ r.session # None /\ r.phase = "written" /\ r.event # None /\ gate = f
  BY <1>1 DEF Flushes, FlushOK
<1>3. flush' = [flush EXCEPT ![f] = r]
  BY DEF ReadDelivery, TypeOK, FlushersOK
<1>4. frame \in FramesIn
  BY <1>1 DEF Frame, FramesIn, Flushes, FlushOK
<1> HIDE DEF r
<1>5. GameOK'
  BY <1>4, ReceiveOK DEF ReadDelivery, TypeOK
<1>6. SessionsOK' /\ EventsOK'
  BY SessionsUnchanged, EventsUnchanged DEF ReadDelivery, gameVars, TypeOK
<1>7. QED
  BY <1>1, <1>2, <1>3, <1>5, <1>6, FlusherStepOK DEF ReadDelivery

LEMMA DeliveredOK == ASSUME TypeOK, NEW f \in Flushers, Delivered(f) PROVE TypeOK'
<1> DEFINE r == [flush[f] EXCEPT !.phase = "peek", !.event = None, !.response = None]
<1>1. flush[f] \in Flushes /\ FlushOK(f) /\ flush[f].phase = "waiting"
  BY FlusherIn DEF Delivered
<1>2. r \in Flushes /\ r.session # None /\ r.phase = "peek" /\ r.event = None
      /\ r.response = None /\ gate = f
  BY <1>1 DEF Flushes, FlushOK
<1>3. flush' = [flush EXCEPT ![f] = r]
  BY DEF Delivered, TypeOK, FlushersOK
<1>4. pendingGameEvents' \in Seq(Chats) /\ Len(pendingGameEvents') <= pendingEventCapacity
  <2>1. pendingGameEvents \in Seq(Chats) /\ Len(pendingGameEvents) <= pendingEventCapacity
        /\ pendingEventCapacity \in Nat
    BY Capacities DEF TypeOK, EventsOK
  <2>2. CASE pendingGameEvents = <<>>
    <3>1. Tail(pendingGameEvents) = <<>>
      BY <2>2
    <3>2. QED
      BY <2>1, <2>2, <3>1 DEF Delivered
  <2>3. CASE pendingGameEvents # <<>>
    BY <2>1, <2>3, TailOK DEF Delivered
  <2>4. QED
    BY <2>2, <2>3
<1> HIDE DEF r
<1>5. EventsOK'
  BY <1>4 DEF Delivered, gameVars, TypeOK, EventsOK
<1>6. GameOK' /\ SessionsOK'
  BY GameUnchanged, SessionsUnchanged DEF Delivered, TypeOK
<1>7. QED
  BY <1>1, <1>2, <1>3, <1>5, <1>6, FlusherStepOK DEF Delivered, chatVars

-----------------------------------------------------------------------------
(* Types: the worker                                                        *)

\* A step of the worker that touches only its own work.
LEMMA WorkerStepOK ==
    ASSUME TypeOK, WorkOK', EventsOK', UNCHANGED <<game, session, gameSession, flush, gate>>,
           flush[Worker].phase # "idle" => worker'.phase = "flushing"
    PROVE  TypeOK'
<1>1. Caused
  BY DEF TypeOK, FlushersOK, FlushOK, Caused
<1>2. FlushersOK'
  BY <1>1 DEF TypeOK, FlushersOK, FlushOK, Caused
<1>3. QED
  BY <1>2, GameUnchanged, SessionsUnchanged DEF TypeOK

LEMMA WorkerFlushes ==
    ASSUME TypeOK, flush[Worker].phase # "idle" PROVE worker.phase = "flushing"
BY DEF TypeOK, FlushersOK, FlushOK, Flushers, Worker

LEMMA WorkDoneOK ==
    ASSUME WorkOK, WorkDone, UNCHANGED <<chatQueue, acknowledged, accepted>>
    PROVE  WorkOK' /\ worker'.phase = "idle"
BY DEF WorkOK, WorkDone, IdleWorker, Workers

LEMMA TakeChatOK == ASSUME TypeOK, TakeChat PROVE TypeOK'
<1>1. Head(chatQueue) \in Chats /\ Head(chatQueue) # None
      /\ Tail(chatQueue) \in Seq(Chats) /\ Len(Tail(chatQueue)) <= ChatQueueCapacity
  BY TailOK, NoneAssumption, Capacities DEF TakeChat, TypeOK, WorkOK
<1>2. WorkOK'
  BY <1>1 DEF TakeChat, TypeOK, WorkOK, Workers
<1>3. QED
  BY <1>2, WorkerStepOK, WorkerFlushes, EventsUnchanged DEF TakeChat, gameVars, TypeOK

LEMMA QueueOutcomeOK == ASSUME TypeOK, QueueOutcome PROVE TypeOK'
<1>1. worker.chat \in Chats /\ worker \in Workers /\ worker.phase = "taken"
  BY DEF QueueOutcome, MayAnswer, TypeOK, WorkOK, Workers
<1>2. Append(pendingGameEvents, worker.chat) \in Seq(Chats)
      /\ Len(Append(pendingGameEvents, worker.chat)) <= pendingEventCapacity
  BY <1>1, Capacities DEF QueueOutcome, TypeOK, EventsOK
<1>3. EventsOK'
  BY <1>2 DEF QueueOutcome, gameVars, TypeOK, EventsOK
<1>4. WorkOK'
  BY <1>1 DEF QueueOutcome, TypeOK, WorkOK, Workers
<1>5. QED
  BY <1>1, <1>3, <1>4, WorkerStepOK, WorkerFlushes DEF QueueOutcome, TypeOK

LEMMA LeavesOK == ASSUME TypeOK, DropOutcome \/ LeaveOutcome \/ FinishChat PROVE TypeOK'
<1>1. WorkOK' /\ worker'.phase = "idle"
  BY WorkDoneOK DEF DropOutcome, LeaveOutcome, FinishChat, TypeOK
<1>2. flush[Worker].phase = "idle"
  BY WorkerFlushes DEF DropOutcome, MayAnswer, LeaveOutcome, FinishChat
<1>3. EventsOK'
  BY EventsUnchanged DEF DropOutcome, LeaveOutcome, FinishChat, gameVars, TypeOK
<1>4. QED
  BY <1>1, <1>2, <1>3, WorkerStepOK DEF DropOutcome, LeaveOutcome, FinishChat

LEMMA StartFlushOK == ASSUME TypeOK, StartFlush PROVE TypeOK'
<1> DEFINE r == [flush[Worker] EXCEPT !.phase = "gate", !.session = gameSession]
<1>1. Worker \in Flushers /\ flush[Worker].phase = "idle"
  BY WorkerFlushes DEF StartFlush, Flushers, Worker
<1>2. flush[Worker] \in Flushes /\ FlushOK(Worker) /\ Worker # None
  BY <1>1, FlusherIn
<1>3. r \in Flushes /\ r.session # None /\ r.phase = "gate" /\ r.event = None /\ r.response = None
  BY <1>1, <1>2 DEF StartFlush, TypeOK, SessionsOK, Flushes, FlushOK
<1>4. flush' = [flush EXCEPT ![Worker] = r] /\ gate' = gate /\ gate # Worker
  BY <1>1, <1>2 DEF StartFlush, TypeOK, FlushersOK, FlushOK
<1>5. WorkOK' /\ worker'.phase = "flushing"
  BY DEF StartFlush, TypeOK, WorkOK, Workers
<1>6. Caused
  BY <1>5, StillCaused DEF StartFlush, TypeOK
<1> HIDE DEF r
<1>7. FlushersOK'
  BY <1>1, <1>3, <1>4, <1>5, <1>6, FlusherChanged DEF TypeOK, Caused
<1>8. QED
  BY <1>5, <1>7, GameUnchanged, SessionsUnchanged, EventsUnchanged
  DEF StartFlush, gameVars, TypeOK

LEMMA ExpireLeaseOK == ASSUME TypeOK, ExpireLease PROVE TypeOK'
<1> DEFINE g == gameSession
           s == [session[g] EXCEPT !.pipe = "disposed"]
<1>1. g \in Generations
  BY DEF ExpireLease, TypeOK, SessionsOK
<1>2. s \in Sessions /\ SessionOK(s) /\ s.reader = session[g].reader
  BY <1>1 DEF TypeOK, SessionsOK, Sessions, SessionOK
<1>3. session' = [session EXCEPT ![g] = s]
  BY DEF ExpireLease, Disconnected
<1>4. WorkOK' /\ worker.phase # "flushing"
  BY WorkDoneOK DEF ExpireLease, TypeOK
<1>5. GameOK'
  BY GameUnchanged DEF ExpireLease, TypeOK
<1> HIDE DEF g, s
<1>6. gameSession' \in Generations \cup {None}
  BY DEF ExpireLease
<1>7. QED
  BY <1>1, <1>2, <1>3, <1>4, <1>5, <1>6, SessionStepOK DEF ExpireLease, gameVars

-----------------------------------------------------------------------------
(* Types: the broker stops                                                  *)

LEMMA NoFlushOK ==
    ASSUME NEW f \in Flushers, flush' = [k \in Flushers |-> NoFlush], gate' = None
    PROVE  FlushOK(f)' /\ flush'[f] \in Flushes
<1>1. NoFlush \in Flushes /\ NoFlush.session = None /\ NoFlush.phase = "idle"
      /\ NoFlush.event = None /\ NoFlush.response = None
  BY DEF NoFlush, Flushes
<1>2. flush'[f] = NoFlush /\ f # None
  BY NoneAssumption
<1>3. QED
  BY <1>1, <1>2 DEF FlushOK

LEMMA EmptyQueues ==
    /\ <<>> \in Seq(Chats) /\ Len(<<>>) = 0
    /\ 0 <= ChatQueueCapacity /\ 0 <= QueueCapacity /\ 0 <= DeliveredCapacity
    /\ IdleWorker \in Workers /\ IdleWorker.chat = None /\ IdleWorker.phase = "idle"
BY Capacities DEF IdleWorker, Workers

LEMMA ForgetOK ==
    ASSUME TypeOK, Forget, UNCHANGED <<game, pendingEventCapacity>> PROVE TypeOK'
<1>1. SessionsOK'
  <2>1. ASSUME NEW g \in Generations PROVE session'[g] \in Sessions /\ SessionOK(session'[g])
    BY EndedOK DEF Forget, TypeOK, SessionsOK
  <2>2. session' \in [Generations -> Sessions]
    BY <2>1 DEF Forget
  <2>3. QED
    BY <2>1, <2>2 DEF Forget, SessionsOK, SessionOK
<1>2. WorkOK'
  BY EmptyQueues DEF Forget, WorkOK
<1>3. EventsOK'
  <2>1. pendingEventCapacity \in PendingEventCapacities /\ 0 <= pendingEventCapacity
    BY Capacities DEF TypeOK, EventsOK
  <2>2. QED
    BY <2>1, EmptyQueues DEF Forget, EventsOK
<1>4. FlushersOK'
  BY NoFlushOK DEF Forget, FlushersOK
<1>5. QED
  BY <1>1, <1>2, <1>3, <1>4, GameUnchanged DEF TypeOK

-----------------------------------------------------------------------------
(* Types: the theorem                                                       *)

LEMMA InitOK == Init => TypeOK
<1> SUFFICES ASSUME Init PROVE TypeOK
  OBVIOUS
<1>1. GameOK
  <2>1. 0 \in 0 .. MaxGeneration /\ <<>> \in Seq(FramesIn) /\ <<>> \in Seq(FramesOut)
    BY Capacities
  <2>2. QED
    BY <2>1, EmptyQueues DEF Init, GameOK, Games
<1>2. SessionsOK
  <2>1. NoSession \in Sessions /\ SessionOK(NoSession)
    BY EmptyQueues, Capacities DEF NoSession, Sessions, SessionOK
  <2>2. QED
    BY <2>1 DEF Init, SessionsOK
<1>3. WorkOK
  BY EmptyQueues DEF Init, WorkOK
<1>4. EventsOK
  <2>1. pendingEventCapacity \in PendingEventCapacities /\ 0 <= pendingEventCapacity
    BY Capacities DEF Init
  <2>2. QED
    BY <2>1, EmptyQueues DEF Init, EventsOK
<1>5. FlushersOK
  <2>1. NoFlush \in Flushes /\ NoFlush.session = None /\ NoFlush.phase = "idle"
        /\ NoFlush.event = None /\ NoFlush.response = None
    BY DEF NoFlush, Flushes
  <2>2. \A f \in Flushers : flush[f] = NoFlush /\ f # None
    BY NoneAssumption DEF Init
  <2>3. QED
    BY <2>1, <2>2 DEF Init, FlushersOK, FlushOK
<1>6. QED
  BY <1>1, <1>2, <1>3, <1>4, <1>5 DEF TypeOK

LEMMA StutterOK == ASSUME TypeOK, UNCHANGED vars PROVE TypeOK'
BY BrokerUnchanged, GameUnchanged DEF vars, TypeOK

LEMMA NextOK == TypeOK /\ [Next]_vars => TypeOK'
<1> SUFFICES ASSUME TypeOK, [Next]_vars PROVE TypeOK'
  OBVIOUS
<1>1. CASE GameNext
  BY <1>1, AskOK, ShowNoticeOK, DeliverChatEventOK, LinkOK, ReadNoticeOK, ReadDeliveryOK,
     WriteEventOK, WriteResponseOK
  DEF GameNext, GameThread, GameReads, GameWrites
<1>2. ASSUME NEW g \in Generations, SessionNext(g) PROVE TypeOK'
  BY <1>2, RegisterOK, GreetOK, GreetFailsOK, ReaderStopsOK, SessionEndOK DEF SessionNext
<1>3. ASSUME NEW g \in Generations, ProcessorNext(g) PROVE TypeOK'
  BY <1>3, TakeEventOK, QueueChatOK, RefuseChatOK, NoticeOK DEF ProcessorNext
<1>4. CASE WorkerNext
  BY <1>4, TakeChatOK, QueueOutcomeOK, LeavesOK, StartFlushOK, ExpireLeaseOK DEF WorkerNext
<1>5. ASSUME NEW f \in Flushers, FlushNext(f) PROVE TypeOK'
  BY <1>5, EnterGateOK, LeaveEmptyOK, PeekEventOK, DeliveryWriteFailsOK, DeliveryWrittenOK,
     DeliveredOK, DeliveryRefusedOK, DeliveryTimeoutOK
  DEF FlushNext
<1>6. CASE IdleShutdown \/ BrokerCrash
  BY <1>6, ForgetOK DEF IdleShutdown, BrokerCrash, gameVars
<1>7. CASE GameCrash
  BY <1>7, GameCrashOK
<1>8. CASE UNCHANGED vars
  BY <1>8, StutterOK
<1>9. QED
  BY <1>1, <1>2, <1>3, <1>4, <1>5, <1>6, <1>7, <1>8 DEF Next

\* Types, and what belongs together: every queue stays within its capacity, a
\* flusher has a session and an event exactly while it is at work on them, and
\* only the one that holds pendingGameEventFlushGate is inside it.
THEOREM TypeCorrect == Spec => []TypeOK
BY InitOK, NextOK, PTL DEF Spec

-----------------------------------------------------------------------------
(* The count of chats                                                       *)

CountedVars == <<chatQueue, worker, pendingChatCount>>

LEMMA InitCounts == Init => CountMatchesWork
BY EmptyQueues DEF Init, CountMatchesWork

LEMMA NotCounted == ASSUME CountMatchesWork, UNCHANGED CountedVars PROVE CountMatchesWork'
BY DEF CountedVars, CountMatchesWork

LEMMA WorkDoneCounts ==
    ASSUME CountMatchesWork, worker.phase # "idle", WorkDone, UNCHANGED chatQueue
    PROVE  CountMatchesWork'
BY DEF CountMatchesWork, WorkDone, IdleWorker

LEMMA WorkerCounts == ASSUME TypeOK, CountMatchesWork, WorkerNext PROVE CountMatchesWork'
<1>1. CASE TakeChat
  <2>1. Len(Tail(chatQueue)) = Len(chatQueue) - 1 /\ Len(chatQueue) \in Nat
    BY <1>1, TailOK DEF TakeChat, TypeOK, WorkOK
  <2>2. QED
    BY <1>1, <2>1 DEF TakeChat, CountMatchesWork
<1>2. CASE QueueOutcome \/ StartFlush
  BY <1>2 DEF QueueOutcome, MayAnswer, StartFlush, CountMatchesWork, TypeOK, WorkOK, Workers
<1>3. CASE DropOutcome \/ LeaveOutcome \/ ExpireLease \/ FinishChat
  BY <1>3, WorkDoneCounts DEF DropOutcome, MayAnswer, LeaveOutcome, ExpireLease, FinishChat
<1>4. QED
  BY <1>1, <1>2, <1>3 DEF WorkerNext

LEMMA NextCounts == TypeOK /\ CountMatchesWork /\ [Next]_vars => CountMatchesWork'
<1> SUFFICES ASSUME TypeOK, CountMatchesWork, [Next]_vars PROVE CountMatchesWork'
  OBVIOUS
<1>1. CASE GameNext \/ GameCrash \/ UNCHANGED vars
  <2>1. UNCHANGED CountedVars
    BY <1>1 DEF GameNext, GameThread, GameReads, GameWrites, Ask, ShowNotice, DeliverChatEvent,
       ReadNotice, ReadDelivery, WriteEvent, WriteResponse, Dial, NoticeClosed, Drop, WriteFails,
       GameCrash, vars, brokerVars, CountedVars
  <2>2. QED
    BY <2>1, NotCounted
<1>2. ASSUME NEW g \in Generations, SessionNext(g) PROVE CountMatchesWork'
  BY <1>2, NotCounted
  DEF SessionNext, Register, Greet, GreetFails, ReaderStops, SessionEnd, chatVars, CountedVars
<1>3. ASSUME NEW g \in Generations, ProcessorNext(g) PROVE CountMatchesWork'
  <2>1. CASE QueueChat(g)
    <3>1. Len(Append(chatQueue, session[g].chat)) = Len(chatQueue) + 1 /\ Len(chatQueue) \in Nat
      BY DEF TypeOK, WorkOK
    <3>2. QED
      BY <2>1, <3>1 DEF QueueChat, CountMatchesWork
  <2>2. CASE TakeEvent(g) \/ RefuseChat(g) \/ NoticeSent(g) \/ NoticeFails(g)
    BY <2>2, NotCounted
    DEF TakeEvent, RefuseChat, NoticeSent, NoticeFails, NoticeEnds, chatVars, CountedVars
  <2>3. QED
    BY <1>3, <2>1, <2>2 DEF ProcessorNext
<1>4. CASE WorkerNext
  BY <1>4, WorkerCounts
<1>5. ASSUME NEW f \in Flushers, FlushNext(f) PROVE CountMatchesWork'
  BY <1>5, NotCounted
  DEF FlushNext, EnterGate, LeaveEmpty, PeekEvent, DeliveryWriteFails, DeliveryWritten,
      Delivered, DeliveryRefused, DeliveryTimeout, chatVars, CountedVars
<1>6. CASE IdleShutdown \/ BrokerCrash
  BY <1>6, EmptyQueues DEF IdleShutdown, BrokerCrash, Forget, CountMatchesWork
<1>7. QED
  BY <1>1, <1>2, <1>3, <1>4, <1>5, <1>6 DEF Next

\* pendingChatCount is the number of chats queued and in hand, on every way out
\* of the worker's loop: a broker with work does not think itself idle, and one
\* without does not think itself busy for ever.
THEOREM CountCorrect == Spec => []CountMatchesWork
BY InitOK, NextOK, InitCounts, NextCounts, PTL DEF Spec

-----------------------------------------------------------------------------
(* No accepted chat is lost                                                 *)

\* What the broker takes for a delivery has been shown by a game: the answers on
\* their way to it, and those a flusher has in hand.
OkShown(frames, chats) ==
    \A i \in 1 .. Len(frames) : frames[i].kind = "ok" => frames[i].chat \in chats
ConfirmedWasShown ==
    /\ OkShown(game.outbound, delivered)
    /\ \A f \in Flushers : flush[f].response = "ok" => flush[f].event \in delivered

\* Where an accepted chat can be.
Kept(c) ==
    \/ Contains(chatQueue, c)
    \/ worker.phase = "taken" /\ worker.chat = c
    \/ Contains(pendingGameEvents, c)
    \/ c \in delivered \cup dropped

LEMMA NothingLostKept == NothingLost <=> \A i \in 1 .. Len(accepted) : Kept(accepted[i])
BY DEF NothingLost, Kept

LEMMA ContainsIn ==
    ASSUME NEW q, NEW c PROVE Contains(q, c) <=> \E i \in 1 .. Len(q) : q[i] = c
BY DEF Contains

LEMMA ContainsAppend ==
    ASSUME NEW S, NEW q \in Seq(S), NEW e \in S, NEW c
    PROVE  Contains(Append(q, e), c) <=> Contains(q, c) \/ c = e
<1>1. Append(q, e) \in Seq(S) /\ Len(Append(q, e)) = Len(q) + 1 /\ Len(q) \in Nat
      /\ Append(q, e)[Len(q) + 1] = e /\ \A i \in 1 .. Len(q) : Append(q, e)[i] = q[i]
  OBVIOUS
<1>2. Contains(Append(q, e), c) <=> \E i \in 1 .. Len(q) + 1 : Append(q, e)[i] = c
  BY <1>1 DEF Contains
<1>3. \A i \in 1 .. Len(q) + 1 : i \in 1 .. Len(q) \/ i = Len(q) + 1
  BY <1>1
<1>4. Len(q) + 1 \in 1 .. Len(q) + 1 /\ \A i \in 1 .. Len(q) : i \in 1 .. Len(q) + 1
  BY <1>1
<1>5. QED
  BY <1>1, <1>2, <1>3, <1>4, ContainsIn

LEMMA ContainsTail ==
    ASSUME NEW S, NEW q \in Seq(S), q # <<>>, NEW c, Contains(q, c)
    PROVE  c = Head(q) \/ Contains(Tail(q), c)
<1>1. PICK i \in 1 .. Len(q) : q[i] = c
  BY ContainsIn
<1>2. Tail(q) \in Seq(S) /\ Len(Tail(q)) = Len(q) - 1 /\ Len(q) \in Nat
      /\ \A j \in 1 .. Len(q) - 1 : Tail(q)[j] = q[j + 1]
  OBVIOUS
<1>3. CASE i = 1
  BY <1>1, <1>3
<1>4. CASE i # 1
  <2>1. i - 1 \in 1 .. Len(q) - 1 /\ (i - 1) + 1 = i
    BY <1>2, <1>4
  <2>2. Tail(q)[i - 1] = c
    BY <1>1, <1>2, <2>1
  <2>3. QED
    BY <1>2, <2>1, <2>2, ContainsIn
<1>5. QED
  BY <1>3, <1>4

LEMMA OkShownAppend ==
    ASSUME NEW q \in Seq(FramesOut), NEW frame \in FramesOut, NEW cs, OkShown(q, cs),
           frame.kind = "ok" => frame.chat \in cs
    PROVE  OkShown(Append(q, frame), cs)
<1>1. Len(Append(q, frame)) = Len(q) + 1 /\ Len(q) \in Nat
      /\ Append(q, frame)[Len(q) + 1] = frame
      /\ \A i \in 1 .. Len(q) : Append(q, frame)[i] = q[i]
  OBVIOUS
<1>2. \A i \in 1 .. Len(q) + 1 : i \in 1 .. Len(q) \/ i = Len(q) + 1
  BY <1>1
<1>3. QED
  BY <1>1, <1>2 DEF OkShown

LEMMA OkShownTail ==
    ASSUME NEW q \in Seq(FramesOut), q # <<>>, NEW cs, OkShown(q, cs)
    PROVE  /\ OkShown(Tail(q), cs)
           /\ Head(q).kind = "ok" => Head(q).chat \in cs
<1>1. Len(Tail(q)) = Len(q) - 1 /\ Len(q) \in Nat /\ Len(q) > 0
      /\ \A i \in 1 .. Len(q) - 1 : Tail(q)[i] = q[i + 1]
  OBVIOUS
<1>2. \A i \in 1 .. Len(q) - 1 : i + 1 \in 1 .. Len(q)
  BY <1>1
<1>3. 1 \in 1 .. Len(q) /\ Head(q) = q[1]
  BY <1>1
<1>4. QED
  BY <1>1, <1>2, <1>3 DEF OkShown

\* The frames the game queues.
LEMMA OutboundOK ==
    ASSUME TypeOK, ConfirmedWasShown, NEW c \in Chats, NEW cs, delivered \subseteq cs
    PROVE  /\ OkShown(game.outbound, cs)
           /\ c \in cs => OkShown(Put(game.outbound, Frame("ok", c)), cs)
           /\ OkShown(Put(game.outbound, Frame("busy", c)), cs)
           /\ OkShown(Append(game.outbound, Frame("ask", c)), cs)
<1>1. game.outbound \in Seq(FramesOut)
  BY DEF TypeOK, GameOK, Games
<1>2. OkShown(game.outbound, cs)
  BY DEF ConfirmedWasShown, OkShown
<1>3. /\ Frame("ok", c) \in FramesOut /\ Frame("ok", c).chat = c
      /\ Frame("busy", c) \in FramesOut /\ Frame("busy", c).kind # "ok"
      /\ Frame("ask", c) \in FramesOut /\ Frame("ask", c).kind # "ok"
  BY DEF Frame, FramesOut
<1>4. QED
  BY <1>1, <1>2, <1>3, OkShownAppend DEF Put

LEMMA ConfirmedStill ==
    ASSUME TypeOK, ConfirmedWasShown, delivered \subseteq delivered',
           OkShown(game'.outbound, delivered'), UNCHANGED flush
    PROVE  ConfirmedWasShown'
BY DEF ConfirmedWasShown

LEMMA GameConfirmed == ASSUME TypeOK, ConfirmedWasShown, GameNext PROVE ConfirmedWasShown'
<1>1. ASSUME NEW c \in Chats, Ask(c) PROVE ConfirmedWasShown'
  <2>1. game'.outbound = Append(game.outbound, Frame("ask", c))
    BY <1>1 DEF Ask, TypeOK, GameOK, Games
  <2>2. QED
    BY <1>1, <2>1, OutboundOK, ConfirmedStill DEF Ask, brokerVars
<1>2. CASE ShowNotice \/ Dial \/ NoticeClosed \/ Drop
  <2>1. game'.outbound = game.outbound
    BY <1>2 DEF ShowNotice, Dial, NoticeClosed, Drop, Hangup, TypeOK, GameOK, Games
  <2>2. QED
    BY <1>2, <2>1, ConfirmedStill
    DEF ShowNotice, Dial, NoticeClosed, Drop, brokerVars, ConfirmedWasShown
<1>3. CASE DeliverChatEvent
  <2> DEFINE c == Head(game.inbound).chat
  <2>1. c \in Chats
    BY <1>3, HeadOK DEF DeliverChatEvent, TypeOK
  <2>2. game'.outbound = Put(game.outbound, Frame("ok", c)) /\ delivered' = delivered \cup {c}
    BY <1>3 DEF DeliverChatEvent, TypeOK, GameOK, Games
  <2>3. QED
    BY <1>3, <2>1, <2>2, OutboundOK, ConfirmedStill DEF DeliverChatEvent, brokerVars
<1>4. CASE WriteFails \/ WriteEvent
  <2>1. game'.outbound = Tail(game.outbound) /\ game.outbound # <<>>
        /\ game.outbound \in Seq(FramesOut)
    BY <1>4 DEF WriteFails, WriteEvent, Hangup, TypeOK, GameOK, Games
  <2>2. QED
    BY <1>4, <2>1, OkShownTail, ConfirmedStill
    DEF WriteFails, WriteEvent, brokerVars, gameVars, ConfirmedWasShown
<1>5. CASE WriteResponse
  <2> DEFINE frame == Head(game.outbound)
             cs == session[game.generation].pending \cap {frame.chat}
  <2>1. game'.outbound = Tail(game.outbound) /\ game.outbound # <<>>
        /\ game.outbound \in Seq(FramesOut) /\ delivered' = delivered
    BY <1>5 DEF WriteResponse, gameVars, TypeOK, GameOK, Games
  <2>2. OkShown(game'.outbound, delivered') /\ (frame.kind = "ok" => frame.chat \in delivered')
    BY <2>1, OkShownTail DEF ConfirmedWasShown
  <2>3. flush' = Complete(game.generation, cs, frame.kind)
    BY <1>5 DEF WriteResponse
  <2>4. ASSUME NEW f \in Flushers, flush'[f].response = "ok" PROVE flush'[f].event \in delivered'
    <3>1. flush[f] \in Flushes
      BY FlusherIn
    <3>2. \/ flush'[f] = flush[f]
          \/ flush'[f] = [flush[f] EXCEPT !.response = frame.kind] /\ flush[f].event \in cs
      BY <2>3 DEF Complete
    <3>3. QED
      BY <2>1, <2>2, <2>4, <3>1, <3>2 DEF ConfirmedWasShown, Flushes
  <2>5. QED
    BY <2>2, <2>4 DEF ConfirmedWasShown
<1>6. ASSUME NEW frame \in FramesIn, game' = Receive(frame)
      PROVE  OkShown(game'.outbound, delivered)
  <2>1. frame.chat \in Chats
    BY DEF FramesIn
  <2>2. game'.outbound \in {game.outbound, Put(game.outbound, Frame("busy", frame.chat))}
    BY <1>6 DEF Receive, Hangup, TypeOK, GameOK, Games
  <2>3. QED
    BY <2>1, <2>2, OutboundOK
<1>7. ASSUME NEW g \in Generations, ReadNotice(g) PROVE ConfirmedWasShown'
  <2>1. Frame(session[g].notice, session[g].chat) \in FramesIn
    BY <1>7 DEF ReadNotice, TypeOK, SessionsOK, Sessions, SessionOK, Frame, FramesIn
  <2>2. QED
    BY <1>6, <1>7, <2>1, ConfirmedStill DEF ReadNotice, gameVars
<1>8. ASSUME NEW f \in Flushers, ReadDelivery(f) PROVE ConfirmedWasShown'
  <2>1. flush[f] \in Flushes /\ FlushOK(f)
    BY FlusherIn
  <2>2. Frame("deliver", flush[f].event) \in FramesIn
    BY <1>8, <2>1 DEF ReadDelivery, FlushOK, Flushes, Frame, FramesIn
  <2>3. OkShown(game'.outbound, delivered') /\ delivered' = delivered
    BY <1>6, <1>8, <2>2 DEF ReadDelivery, gameVars
  <2>4. flush' = [flush EXCEPT ![f].phase = "written"]
    BY <1>8 DEF ReadDelivery
  <2>5. \A k \in Flushers : flush'[k].response = flush[k].response /\ flush'[k].event = flush[k].event
    BY <2>4, FlusherIn DEF TypeOK, FlushersOK, Flushes
  <2>6. QED
    BY <2>3, <2>5 DEF ConfirmedWasShown
<1>9. QED
  BY <1>1, <1>2, <1>3, <1>4, <1>5, <1>7, <1>8 DEF GameNext, GameThread, GameReads, GameWrites

\* A step of a flusher, or the cause of one, gives it no response.
LEMMA FlusherConfirmed ==
    ASSUME TypeOK, ConfirmedWasShown, NEW f \in Flushers, NEW r, flush' = [flush EXCEPT ![f] = r],
           r.response # "ok" \/ (r.response = flush[f].response /\ r.event = flush[f].event),
           UNCHANGED <<game, delivered>>
    PROVE  ConfirmedWasShown'
BY DEF ConfirmedWasShown, OkShown, TypeOK, FlushersOK

LEMMA NoneIsNotOk == None # "ok"
BY NoneAssumption DEF Responses

LEMMA FlushConfirmed ==
    ASSUME TypeOK, ConfirmedWasShown, NEW f \in Flushers, FlushNext(f) PROVE ConfirmedWasShown'
<1>1. flush[f] \in Flushes /\ FlushOK(f)
  BY FlusherIn
<1>2. CASE EnterGate(f) \/ DeliveryWritten(f)
  <2>1. PICK phase \in {"peek", "waiting"} : flush' = [flush EXCEPT ![f].phase = phase]
    BY <1>2 DEF EnterGate, DeliveryWritten, Step
  <2> DEFINE r == [flush[f] EXCEPT !.phase = phase]
  <2>2. r.response = flush[f].response /\ r.event = flush[f].event
    BY <1>1 DEF Flushes
  <2>3. QED
    BY <1>2, <2>1, <2>2, FlusherConfirmed DEF EnterGate, DeliveryWritten, gameVars
<1>3. CASE LeaveEmpty(f) \/ DeliveryWriteFails(f) \/ DeliveryRefused(f) \/ DeliveryTimeout(f)
  <2>1. NoFlush.response # "ok"
    BY NoneIsNotOk DEF NoFlush
  <2>2. QED
    BY <1>3, <2>1, FlusherConfirmed
    DEF LeaveEmpty, DeliveryWriteFails, DeliveryRefused, DeliveryTimeout, Leave, gameVars
<1>4. CASE PeekEvent(f)
  <2> DEFINE r == [flush[f] EXCEPT !.phase = "added", !.event = Head(pendingGameEvents)]
  <2>1. r.response = None
    BY <1>1, <1>4 DEF PeekEvent, Flushes, FlushOK
  <2>2. flush' = [flush EXCEPT ![f] = r]
    BY <1>4 DEF PeekEvent, TypeOK, FlushersOK
  <2>3. QED
    BY <1>4, <2>1, <2>2, NoneIsNotOk, FlusherConfirmed DEF PeekEvent, gameVars
<1>5. CASE Delivered(f)
  <2> DEFINE r == [flush[f] EXCEPT !.phase = "peek", !.event = None, !.response = None]
  <2>1. r.response = None
    BY <1>1 DEF Flushes
  <2>2. flush' = [flush EXCEPT ![f] = r]
    BY <1>5 DEF Delivered, TypeOK, FlushersOK
  <2>3. QED
    BY <1>5, <2>1, <2>2, NoneIsNotOk, FlusherConfirmed DEF Delivered, gameVars
<1>6. QED
  BY <1>2, <1>3, <1>4, <1>5 DEF FlushNext

LEMMA SessionConfirmed ==
    ASSUME TypeOK, ConfirmedWasShown, NEW g \in Generations, SessionNext(g) PROVE ConfirmedWasShown'
<1>1. CASE Register(g) \/ GreetFails(g) \/ ReaderStops(g)
  BY <1>1, ConfirmedStill DEF Register, GreetFails, ReaderStops, gameVars, ConfirmedWasShown
<1>2. CASE Greet(g)
  <2> DEFINE r == [flush[g] EXCEPT !.phase = "gate", !.session = g]
  <2>1. g \in Flushers
    BY DEF Flushers
  <2>2. \A f \in Flushers : flush'[f].response = flush[f].response /\ flush'[f].event = flush[f].event
    BY <1>2, <2>1, FlusherIn DEF Greet, TypeOK, FlushersOK, Flushes
  <2>3. game'.outbound = game.outbound /\ delivered' = delivered
    BY <1>2 DEF Greet, gameVars, TypeOK, GameOK, Games
  <2>4. QED
    BY <2>2, <2>3 DEF ConfirmedWasShown
<1>3. CASE SessionEnd(g)
  <2>1. ASSUME NEW f \in Flushers, flush'[f].response = "ok" PROVE flush'[f].event \in delivered
    <3>1. \/ flush'[f] = flush[f]
          \/ flush'[f] = [flush[f] EXCEPT !.response = "delivery_unknown"]
      BY <1>3 DEF SessionEnd, Complete
    <3>2. QED
      BY <2>1, <3>1, FlusherIn DEF Flushes, ConfirmedWasShown
  <2>2. QED
    BY <1>3, <2>1 DEF SessionEnd, gameVars, ConfirmedWasShown
<1>4. QED
  BY <1>1, <1>2, <1>3 DEF SessionNext

LEMMA ConfirmedInductive == TypeOK /\ ConfirmedWasShown /\ [Next]_vars => ConfirmedWasShown'
<1> SUFFICES ASSUME TypeOK, ConfirmedWasShown, [Next]_vars PROVE ConfirmedWasShown'
  OBVIOUS
<1>1. CASE GameNext
  BY <1>1, GameConfirmed
<1>2. ASSUME NEW g \in Generations, SessionNext(g) PROVE ConfirmedWasShown'
  BY <1>2, SessionConfirmed
<1>3. ASSUME NEW g \in Generations, ProcessorNext(g) PROVE ConfirmedWasShown'
  BY <1>3, ConfirmedStill
  DEF ProcessorNext, TakeEvent, QueueChat, RefuseChat, NoticeSent, NoticeFails, NoticeEnds,
      gameVars, ConfirmedWasShown
<1>4. CASE WorkerNext
  <2>1. CASE StartFlush
    <3> DEFINE r == [flush[Worker] EXCEPT !.phase = "gate", !.session = gameSession]
    <3>1. Worker \in Flushers /\ flush[Worker] \in Flushes
      BY FlusherIn DEF Flushers, Worker
    <3>2. r.response = flush[Worker].response /\ r.event = flush[Worker].event
      BY <3>1 DEF Flushes
    <3>3. flush' = [flush EXCEPT ![Worker] = r]
      BY <2>1, <3>1 DEF StartFlush, TypeOK, FlushersOK
    <3>4. QED
      BY <2>1, <3>1, <3>2, <3>3, FlusherConfirmed DEF StartFlush, gameVars
  <2>2. CASE TakeChat \/ QueueOutcome \/ DropOutcome \/ LeaveOutcome \/ ExpireLease \/ FinishChat
    BY <2>2, ConfirmedStill
    DEF TakeChat, QueueOutcome, DropOutcome, LeaveOutcome, ExpireLease, FinishChat, gameVars,
        ConfirmedWasShown
  <2>3. QED
    BY <1>4, <2>1, <2>2 DEF WorkerNext
<1>5. ASSUME NEW f \in Flushers, FlushNext(f) PROVE ConfirmedWasShown'
  BY <1>5, FlushConfirmed
<1>6. CASE IdleShutdown \/ BrokerCrash
  <2>1. NoFlush.response # "ok"
    BY NoneIsNotOk DEF NoFlush
  <2>2. QED
    BY <1>6, <2>1 DEF IdleShutdown, BrokerCrash, Forget, gameVars, ConfirmedWasShown
<1>7. CASE GameCrash
  <2>1. game'.outbound = <<>>
    BY <1>7 DEF GameCrash, Hangup, TypeOK, GameOK, Games
  <2>2. QED
    BY <1>7, <2>1 DEF GameCrash, brokerVars, ConfirmedWasShown, OkShown
<1>8. CASE UNCHANGED vars
  BY <1>8, ConfirmedStill DEF vars, brokerVars, ConfirmedWasShown
<1>9. QED
  BY <1>1, <1>2, <1>3, <1>4, <1>5, <1>6, <1>7, <1>8 DEF Next

\* A chat that is kept stays kept where its places are left alone.
KeptVars == <<chatQueue, worker, pendingGameEvents, dropped>>
LEMMA KeptStill ==
    ASSUME NEW c, Kept(c), UNCHANGED KeptVars, delivered \subseteq delivered'
    PROVE  Kept(c)'
BY DEF Kept, KeptVars

LEMMA KeptByWorker ==
    ASSUME TypeOK, NEW c, Kept(c), WorkerNext PROVE Kept(c)'
<1>1. CASE TakeChat
  <2>1. chatQueue \in Seq(Chats) /\ chatQueue # <<>>
    BY <1>1 DEF TakeChat, TypeOK, WorkOK
  <2>2. Contains(chatQueue, c) => c = Head(chatQueue) \/ Contains(Tail(chatQueue), c)
    BY <2>1, ContainsTail
  <2>3. QED
    BY <1>1, <2>2 DEF TakeChat, gameVars, Kept
<1>2. CASE QueueOutcome
  <2>1. worker.chat \in Chats /\ pendingGameEvents \in Seq(Chats)
    BY <1>2 DEF QueueOutcome, MayAnswer, TypeOK, WorkOK, EventsOK, Workers
  <2>2. Contains(pendingGameEvents', c) <=> Contains(pendingGameEvents, c) \/ c = worker.chat
    BY <1>2, <2>1, ContainsAppend DEF QueueOutcome
  <2>3. QED
    BY <1>2, <2>2 DEF QueueOutcome, gameVars, Kept
<1>3. CASE DropOutcome
  BY <1>3 DEF DropOutcome, gameVars, Kept
<1>4. CASE StartFlush \/ LeaveOutcome \/ ExpireLease \/ FinishChat
  BY <1>4 DEF StartFlush, LeaveOutcome, ExpireLease, FinishChat, gameVars, Kept
<1>5. QED
  BY <1>1, <1>2, <1>3, <1>4 DEF WorkerNext

LEMMA KeptByFlusher ==
    ASSUME TypeOK, ConfirmedWasShown, NEW c, Kept(c), NEW f \in Flushers, FlushNext(f)
    PROVE  Kept(c)'
<1>1. CASE Delivered(f)
  <2>1. flush[f].event \in delivered
    BY <1>1 DEF Delivered, Confirms, ConfirmedWasShown
  <2>2. flush[f].event \in Chats /\ pendingGameEvents \in Seq(Chats)
    BY <1>1, FlusherIn DEF Delivered, FlushOK, Flushes, TypeOK, EventsOK
  <2>3. CASE Contains(pendingGameEvents, c)
    <3>1. pendingGameEvents # <<>>
      BY <2>3, ContainsIn
    <3>2. c = Head(pendingGameEvents) \/ Contains(Tail(pendingGameEvents), c)
      BY <2>2, <2>3, <3>1, ContainsTail
    <3>3. QED
      BY <1>1, <2>1, <2>3, <3>2 DEF Delivered, gameVars, Kept
  <2>4. CASE ~Contains(pendingGameEvents, c)
    BY <1>1, <2>4 DEF Delivered, chatVars, gameVars, Kept
  <2>5. QED
    BY <2>3, <2>4
<1>2. CASE ~Delivered(f)
  BY <1>2, KeptStill
  DEF FlushNext, EnterGate, LeaveEmpty, PeekEvent, DeliveryWriteFails, DeliveryWritten,
      DeliveryRefused, DeliveryTimeout, chatVars, gameVars, KeptVars
<1>3. QED
  BY <1>1, <1>2

LEMMA KeptByQueueChat ==
    ASSUME TypeOK, NothingLost, NEW g \in Generations, QueueChat(g) PROVE NothingLost'
<1> DEFINE c == session[g].chat
<1>1. c \in Chats /\ chatQueue \in Seq(Chats) /\ accepted \in Seq(Chats)
  BY NotifiedOK DEF QueueChat, TypeOK, WorkOK, Notices
<1>2. \A d : Contains(chatQueue', d) <=> Contains(chatQueue, d) \/ d = c
  BY <1>1, ContainsAppend DEF QueueChat
<1>3. \A d : Kept(d) \/ d = c => Kept(d)'
  BY <1>2 DEF QueueChat, gameVars, Kept
<1>4. Len(accepted') = Len(accepted) + 1 /\ Len(accepted) \in Nat
      /\ accepted'[Len(accepted) + 1] = c
      /\ \A i \in 1 .. Len(accepted) : accepted'[i] = accepted[i]
  BY <1>1 DEF QueueChat
<1>5. \A i \in 1 .. Len(accepted') : i \in 1 .. Len(accepted) \/ i = Len(accepted) + 1
  BY <1>4
<1>6. ASSUME NEW i \in 1 .. Len(accepted'), NEW d, d = accepted'[i] PROVE Kept(d)'
  <2>1. CASE i \in 1 .. Len(accepted)
    BY <1>3, <1>4, <1>6, <2>1, NothingLostKept
  <2>2. CASE i = Len(accepted) + 1
    BY <1>3, <1>4, <1>6, <2>2
  <2>3. QED
    BY <1>5, <2>1, <2>2
<1>7. QED
  BY <1>6 DEF NothingLost, Kept

\* The steps that accept no chat and keep those there are.
LEMMA StillNothingLost ==
    ASSUME NothingLost, UNCHANGED accepted, \A c : Kept(c) => Kept(c)' PROVE NothingLost'
BY DEF NothingLost, Kept

LEMMA NextNothingLost ==
    TypeOK /\ ConfirmedWasShown /\ NothingLost /\ [Next]_vars => NothingLost'
<1> SUFFICES ASSUME TypeOK, ConfirmedWasShown, NothingLost, [Next]_vars PROVE NothingLost'
  OBVIOUS
<1>1. CASE GameNext \/ GameCrash \/ UNCHANGED vars
  <2>1. UNCHANGED KeptVars /\ UNCHANGED accepted /\ delivered \subseteq delivered'
    BY <1>1 DEF GameNext, GameThread, GameReads, GameWrites, Ask, ShowNotice, DeliverChatEvent,
       ReadNotice, ReadDelivery, WriteEvent, WriteResponse, Dial, NoticeClosed, Drop, WriteFails,
       GameCrash, vars, brokerVars, gameVars, KeptVars
  <2>2. QED
    BY <2>1, KeptStill, StillNothingLost
<1>2. ASSUME NEW g \in Generations, SessionNext(g) PROVE NothingLost'
  <2>1. UNCHANGED KeptVars /\ UNCHANGED accepted /\ delivered \subseteq delivered'
    BY <1>2 DEF SessionNext, Register, Greet, GreetFails, ReaderStops, SessionEnd, chatVars,
       gameVars, KeptVars
  <2>2. QED
    BY <2>1, KeptStill, StillNothingLost
<1>3. ASSUME NEW g \in Generations, ProcessorNext(g) PROVE NothingLost'
  <2>1. CASE QueueChat(g)
    BY <2>1, KeptByQueueChat
  <2>2. CASE TakeEvent(g) \/ RefuseChat(g) \/ NoticeSent(g) \/ NoticeFails(g)
    <3>1. UNCHANGED KeptVars /\ UNCHANGED accepted /\ delivered \subseteq delivered'
      BY <2>2 DEF TakeEvent, RefuseChat, NoticeSent, NoticeFails, NoticeEnds, chatVars, gameVars,
         KeptVars
    <3>2. QED
      BY <3>1, KeptStill, StillNothingLost
  <2>3. QED
    BY <1>3, <2>1, <2>2 DEF ProcessorNext
<1>4. CASE WorkerNext
  <2>1. UNCHANGED accepted
    BY <1>4 DEF WorkerNext, TakeChat, QueueOutcome, DropOutcome, StartFlush, LeaveOutcome,
       ExpireLease, FinishChat
  <2>2. QED
    BY <1>4, <2>1, KeptByWorker, StillNothingLost
<1>5. ASSUME NEW f \in Flushers, FlushNext(f) PROVE NothingLost'
  <2>1. UNCHANGED accepted
    BY <1>5 DEF FlushNext, EnterGate, LeaveEmpty, PeekEvent, DeliveryWriteFails, DeliveryWritten,
       Delivered, DeliveryRefused, DeliveryTimeout, chatVars
  <2>2. QED
    BY <1>5, <2>1, KeptByFlusher, StillNothingLost
<1>6. CASE IdleShutdown \/ BrokerCrash
  <2>1. accepted' = <<>>
    BY <1>6 DEF IdleShutdown, BrokerCrash, Forget
  <2>2. QED
    BY <2>1 DEF NothingLost
<1>7. QED
  BY <1>1, <1>2, <1>3, <1>4, <1>5, <1>6 DEF Next

LEMMA InitNothingLost == Init => NothingLost /\ ConfirmedWasShown
<1> SUFFICES ASSUME Init PROVE NothingLost /\ ConfirmedWasShown
  OBVIOUS
<1>1. accepted = <<>> /\ game.outbound = <<>> /\ \A f \in Flushers : flush[f].response # "ok"
  BY NoneIsNotOk DEF Init, NoFlush
<1>2. QED
  BY <1>1 DEF NothingLost, ConfirmedWasShown, OkShown

\* An accepted chat is in the queue, in the worker's hands or a pending event
\* until a game has shown its outcome or the table was full: a failed flush, a
\* late answer, a new connection or a game that crashes loses none.
THEOREM NoChatLost == Spec => []NothingLost
<1>1. Init => TypeOK /\ ConfirmedWasShown /\ NothingLost
  BY InitOK, InitNothingLost
<1>2. TypeOK /\ ConfirmedWasShown /\ NothingLost /\ [Next]_vars
      => (TypeOK /\ ConfirmedWasShown /\ NothingLost)'
  BY NextOK, ConfirmedInductive, NextNothingLost
<1>3. QED
  BY <1>1, <1>2, PTL DEF Spec

-----------------------------------------------------------------------------
(* What is shown                                                            *)

\* What the game has shown and what waits for it: the order of arrival.
Stream == shown \o game.inbound
Shows(s, i, c) == s[i].kind = "deliver" /\ s[i].chat = c
InStream(c) == \E i \in 1 .. Len(Stream) : Stream[i].chat = c

\* The event a flusher has in hand is the first of those that are pending.
HeadInFlight ==
    \A f \in Flushers :
        flush[f].event # None => pendingGameEvents # <<>> /\ flush[f].event = Head(pendingGameEvents)

\* Where a chat is on its way to the broker's queue: a frame the game has to
\* write, an event of a session, or the chat a session's processor handles.
AskIn(q, c) == \E i \in 1 .. Len(q) : q[i].kind = "ask" /\ q[i].chat = c
AskOnce(q) ==
    \A i, j \in 1 .. Len(q) :
        q[i].kind = "ask" /\ q[j].kind = "ask" /\ q[i].chat = q[j].chat => i = j
Places == {<<0, "ask">>} \cup (Generations \X {"event", "handled"})
At(p, c) ==
    \/ p[2] = "ask" /\ AskIn(game.outbound, c)
    \/ p[2] = "event" /\ Contains(session[p[1]].events, c)
    \/ p[2] = "handled" /\ session[p[1]].chat = c

\* A chat is in one place, once.
Alone ==
    /\ AskOnce(game.outbound)
    /\ \A g \in Generations : IsInjective(session[g].events)
    /\ \A c \in Chats : \A p, r \in Places : At(p, c) /\ At(r, c) => p = r

\* The game does not know of the chat yet, and the broker has not queued it.
Unnoticed(p) == p[2] = "handled" => session[p[1]].processor # "written"
Unqueued(p) == p[2] = "handled" => session[p[1]].processor = "checked"
Known(c) ==
    \/ \E p \in Places : At(p, c)
    \/ Contains(accepted, c)
    \/ c \in acknowledged
    \/ InStream(c)
Staged ==
    /\ \A c \in Chats : Known(c) => c \in asked
    /\ \A c \in Chats, p \in Places :
          At(p, c) /\ Unnoticed(p) =>
              c \notin acknowledged /\ ~Contains(pendingGameEvents, c) /\ ~InStream(c)
    /\ \A c \in Chats, p \in Places : At(p, c) /\ Unqueued(p) => ~Contains(accepted, c)

\* The chats whose outcome is to come are in the order of their acceptance.
Earlier(c, d) ==
    \E p, q \in 1 .. Len(accepted) : p < q /\ accepted[p] = c /\ accepted[q] = d
Sorted(q) == \A i, j \in 1 .. Len(q) : i < j => Earlier(q[i], q[j])
InHand(c) == worker.phase = "taken" /\ worker.chat = c
InLine(c) == InHand(c) \/ Contains(chatQueue, c)
Line ==
    /\ IsInjective(accepted)
    /\ Sorted(pendingGameEvents) /\ Sorted(chatQueue)
    /\ \A c \in Chats : Contains(pendingGameEvents, c) \/ InLine(c) => Contains(accepted, c)
    /\ \A c, d \in Chats : Contains(pendingGameEvents, c) /\ InLine(d) => Earlier(c, d)
    /\ \A c, d \in Chats : InHand(c) /\ Contains(chatQueue, d) => Earlier(c, d)

\* What has arrived at the game is in that order too, the outcomes of an
\* earlier broker first.
Arrival ==
    /\ \A i, j \in 1 .. Len(Stream) : \A c, d \in Chats :
          i < j /\ Shows(Stream, i, c) /\ Shows(Stream, j, d) /\ Contains(accepted, c)
          => c = d \/ Earlier(c, d)
    /\ \A i \in 1 .. Len(Stream) : \A c, d \in Chats :
          Shows(Stream, i, c) /\ Contains(accepted, c) =>
              /\ Contains(pendingGameEvents, d) => c = d \/ Earlier(c, d)
              /\ InLine(d) => Earlier(c, d)

\* Of any broker: a notice comes once and before the outcome, and the repeats of
\* an outcome come in a row.
NoticeOnce(s) ==
    \A i, j \in 1 .. Len(s) : i < j /\ s[i] = s[j] => s[i].kind = "deliver"
AcceptedBefore(s) ==
    \A i, j \in 1 .. Len(s) :
        i < j /\ s[i].kind = "deliver" /\ s[j].kind = "accepted" => s[i].chat # s[j].chat
InARow(s) ==
    \A i, j, k \in 1 .. Len(s) :
        /\ i < j /\ j < k
        /\ s[i].kind = "deliver" /\ s[j].kind = "deliver" /\ s[k].kind = "deliver"
        /\ s[i].chat = s[k].chat
        => s[i].chat = s[j].chat
Shape(s) == NoticeOnce(s) /\ AcceptedBefore(s) /\ InARow(s)

\* The last outcome shown is among the remembered ones.
Remembered ==
    \A i \in 1 .. Len(shown) :
        shown[i].kind = "deliver" =>
            \/ Contains(game.deliveredIds, shown[i].chat)
            \/ \E j \in 1 .. Len(shown) :
                  i < j /\ shown[j].kind = "deliver" /\ shown[j].chat # shown[i].chat
OutcomeOnce ==
    \A i, j \in 1 .. Len(shown) :
        i < j /\ shown[i].kind = "deliver" /\ shown[j].kind = "deliver" => shown[i].chat # shown[j].chat

ShownTyped == shown \in Seq(FramesIn)
-----------------------------------------------------------------------------
(* Sequences                                                                *)

LEMMA AppendFacts ==
    ASSUME NEW S, NEW q \in Seq(S), NEW e \in S
    PROVE  /\ Append(q, e) \in Seq(S) /\ Len(q) \in Nat /\ Len(Append(q, e)) = Len(q) + 1
           /\ Append(q, e)[Len(q) + 1] = e
           /\ \A i \in 1 .. Len(q) : Append(q, e)[i] = q[i] /\ i \in 1 .. Len(q) + 1
           /\ \A i \in 1 .. Len(q) + 1 : i \in 1 .. Len(q) \/ i = Len(q) + 1
OBVIOUS

LEMMA TailFacts ==
    ASSUME NEW S, NEW q \in Seq(S), q # <<>>
    PROVE  /\ Tail(q) \in Seq(S) /\ Len(q) \in Nat \ {0} /\ Len(Tail(q)) = Len(q) - 1
           /\ Head(q) = q[1] /\ 1 \in 1 .. Len(q) /\ Head(q) \in S
           /\ \A i \in 1 .. Len(q) - 1 : Tail(q)[i] = q[i + 1] /\ i + 1 \in 2 .. Len(q)
OBVIOUS

LEMMA ConcatFacts ==
    ASSUME NEW S, NEW s \in Seq(S), NEW t \in Seq(S)
    PROVE  /\ s \o t \in Seq(S) /\ Len(s) \in Nat /\ Len(t) \in Nat
           /\ Len(s \o t) = Len(s) + Len(t)
           /\ \A i \in 1 .. Len(s) + Len(t) :
                 (s \o t)[i] = IF i <= Len(s) THEN s[i] ELSE t[i - Len(s)]
OBVIOUS

\* A sequence without repetition stays so.
LEMMA InjectiveAppend ==
    ASSUME NEW S, NEW q \in Seq(S), IsInjective(q), NEW e \in S, ~Contains(q, e)
    PROVE  IsInjective(Append(q, e))
<1>1. DOMAIN Append(q, e) = 1 .. Len(q) + 1 /\ DOMAIN q = 1 .. Len(q)
  BY AppendFacts
<1>2. \A i \in 1 .. Len(q) : q[i] # e
  BY ContainsIn
<1>3. QED
  BY <1>1, <1>2, AppendFacts DEF IsInjective

LEMMA InjectiveTail ==
    ASSUME NEW S, NEW q \in Seq(S), q # <<>>, IsInjective(q)
    PROVE  IsInjective(Tail(q)) /\ ~Contains(Tail(q), Head(q))
<1>1. DOMAIN Tail(q) = 1 .. Len(q) - 1 /\ DOMAIN q = 1 .. Len(q)
  BY TailFacts
<1>2. \A i \in 1 .. Len(q) - 1 : Tail(q)[i] = q[i + 1] /\ i + 1 \in 1 .. Len(q) /\ i + 1 # 1
  BY TailFacts
<1>3. IsInjective(Tail(q))
  BY <1>1, <1>2 DEF IsInjective
<1>4. \A i \in 1 .. Len(q) - 1 : Tail(q)[i] # Head(q)
  BY <1>1, <1>2, TailFacts DEF IsInjective
<1>5. QED
  BY <1>3, <1>4, ContainsIn, TailFacts

LEMMA ContainsInTail ==
    ASSUME NEW S, NEW q \in Seq(S), q # <<>>, NEW c
    PROVE  /\ Contains(Tail(q), c) => Contains(q, c)
           /\ Contains(q, Head(q))
<1>1. Contains(q, Head(q))
  BY TailFacts, ContainsIn
<1>2. ASSUME NEW i \in 1 .. Len(Tail(q)), Tail(q)[i] = c PROVE Contains(q, c)
  <2>1. Tail(q)[i] = q[i + 1] /\ i + 1 \in 1 .. Len(q)
    BY TailFacts
  <2>2. QED
    BY <1>2, <2>1, ContainsIn
<1>3. QED
  BY <1>1, <1>2, ContainsIn

LEMMA NothingIn ==
    ASSUME NEW c PROVE ~Contains(<<>>, c) /\ ~AskIn(<<>>, c) /\ AskOnce(<<>>) /\ IsInjective(<<>>)
BY ContainsIn DEF AskIn, AskOnce, IsInjective

LEMMA AskTail ==
    ASSUME NEW q \in Seq(FramesOut), q # <<>>, AskOnce(q)
    PROVE  /\ AskOnce(Tail(q))
           /\ \A c : AskIn(Tail(q), c) => AskIn(q, c)
           /\ Head(q).kind = "ask" => AskIn(q, Head(q).chat) /\ ~AskIn(Tail(q), Head(q).chat)
<1>1. \A i \in 1 .. Len(Tail(q)) : Tail(q)[i] = q[i + 1] /\ i + 1 \in 1 .. Len(q) /\ i \in Nat /\ i + 1 # 1
  BY TailFacts
<1>2. \A i, j \in 1 .. Len(Tail(q)) : i + 1 = j + 1 => i = j
  BY TailFacts
<1>3. AskOnce(Tail(q)) /\ \A c : AskIn(Tail(q), c) => AskIn(q, c)
  BY <1>1, <1>2 DEF AskOnce, AskIn
<1>4. Head(q) = q[1] /\ 1 \in 1 .. Len(q)
  BY TailFacts
<1>5. QED
  BY <1>1, <1>3, <1>4 DEF AskOnce, AskIn

LEMMA AskAppend ==
    ASSUME NEW q \in Seq(FramesOut), NEW frame \in FramesOut, AskOnce(q),
           frame.kind = "ask" => ~AskIn(q, frame.chat)
    PROVE  /\ AskOnce(Append(q, frame))
           /\ \A c : AskIn(Append(q, frame), c) => AskIn(q, c) \/ (frame.kind = "ask" /\ c = frame.chat)
<1>1. Len(Append(q, frame)) = Len(q) + 1 /\ Append(q, frame)[Len(q) + 1] = frame
      /\ (\A i \in 1 .. Len(q) : Append(q, frame)[i] = q[i])
      /\ \A i \in 1 .. Len(q) + 1 : i \in 1 .. Len(q) \/ i = Len(q) + 1
  BY AppendFacts
<1>2. QED
  BY <1>1 DEF AskOnce, AskIn

\* t is s with some elements left out.
Sub(t, s) ==
    \E h \in [1 .. Len(t) -> 1 .. Len(s)] :
        /\ \A i \in 1 .. Len(t) : t[i] = s[h[i]]
        /\ \A i, j \in 1 .. Len(t) : i < j => h[i] < h[j]
\* t is s with one more element.
Grown(t, s, e) ==
    /\ Len(s) \in Nat /\ Len(t) = Len(s) + 1 /\ t[Len(s) + 1] = e
    /\ \A i \in 1 .. Len(s) : t[i] = s[i]

LEMMA SubSame ==
    ASSUME NEW s, NEW t, Len(s) \in Nat, Len(t) = Len(s), \A i \in 1 .. Len(s) : t[i] = s[i]
    PROVE  Sub(t, s)
<1> DEFINE h == [i \in 1 .. Len(t) |-> i]
<1>1. h \in [1 .. Len(t) -> 1 .. Len(s)] /\ \A i \in 1 .. Len(t) : h[i] = i
  OBVIOUS
<1>2. QED
  BY <1>1 DEF Sub

LEMMA SubEmpty == ASSUME NEW s, NEW t, Len(t) = 0 PROVE Sub(t, s)
<1> DEFINE h == [i \in 1 .. Len(t) |-> i]
<1>1. 1 .. Len(t) = {}
  OBVIOUS
<1>2. h \in [1 .. Len(t) -> 1 .. Len(s)]
  BY <1>1
<1>3. QED
  BY <1>1, <1>2 DEF Sub

LEMMA SubRemoved ==
    ASSUME NEW s, NEW t, NEW k \in Nat, Len(s) \in Nat, Len(t) = Len(s) - 1,
           \A i \in 1 .. Len(t) : t[i] = s[IF i <= k THEN i ELSE i + 1]
    PROVE  Sub(t, s)
<1> DEFINE h == [i \in 1 .. Len(t) |-> IF i <= k THEN i ELSE i + 1]
<1>1. h \in [1 .. Len(t) -> 1 .. Len(s)]
  OBVIOUS
<1>2. \A i \in 1 .. Len(t) : t[i] = s[h[i]]
  OBVIOUS
<1>3. \A i, j \in 1 .. Len(t) : i < j => h[i] < h[j]
  OBVIOUS
<1>4. QED
  BY <1>1, <1>2, <1>3 DEF Sub

-----------------------------------------------------------------------------
(* A chat on its way to the broker is in one place                          *)

LEMMA LinkedGeneration ==
    ASSUME TypeOK, game.link # "down" PROVE game.generation \in Generations
BY Capacities DEF TypeOK, GameOK, Games, Generations

LEMMA SessionIn ==
    ASSUME TypeOK, NEW g \in Generations
    PROVE  /\ session[g] \in Sessions /\ SessionOK(session[g])
           /\ session[g].events \in Seq(Chats) /\ session[g].chat \in Chats \cup {None}
           /\ session[g].chat # None => session[g].processor \in {"checked", "writing", "written"}
BY DEF TypeOK, SessionsOK, Sessions, SessionOK

LEMMA GameIn ==
    ASSUME TypeOK
    PROVE  /\ game.outbound \in Seq(FramesOut) /\ game.inbound \in Seq(FramesIn)
           /\ game.deliveredIds \in Seq(Chats)
BY DEF TypeOK, GameOK, Games

Fresh(c) == \E p \in Places : At(p, c) /\ Unnoticed(p)
Waiting(c) == \E p \in Places : At(p, c) /\ Unqueued(p)
Somewhere(c) == \E p \in Places : At(p, c)
Shrinks(c) == /\ Fresh(c)' => Fresh(c)
              /\ Waiting(c)' => Waiting(c)
              /\ Somewhere(c)' => Somewhere(c)

\* A step by which no chat gets into a place it was not in.
QuietSession(s, t) ==
    /\ t.events \in {s.events, <<>>}
    /\ \/ /\ t.chat = s.chat
          /\ \/ t.processor \in {s.processor, "written"}
             \/ s.processor = "checked" /\ t.processor = "writing"
       \/ t.chat = None
QuietOut == AskOnce(game'.outbound) /\ \A c : AskIn(game'.outbound, c) => AskIn(game.outbound, c)
Quiet == QuietOut /\ \A g \in Generations : QuietSession(session[g], session'[g])

LEMMA QuietAt ==
    ASSUME TypeOK, Quiet, NEW p \in Places, NEW c \in Chats, At(p, c)'
    PROVE  At(p, c) /\ (Unnoticed(p)' => Unnoticed(p)) /\ (Unqueued(p)' => Unqueued(p))
<1>1. CASE p = <<0, "ask">>
  BY <1>1 DEF Quiet, QuietOut, At, Unnoticed, Unqueued
<1>2. ASSUME NEW g \in Generations, p = <<g, "event">>
      PROVE  At(p, c) /\ (Unnoticed(p)' => Unnoticed(p)) /\ (Unqueued(p)' => Unqueued(p))
  BY <1>2, NothingIn DEF Quiet, QuietSession, At, Unnoticed, Unqueued
<1>3. ASSUME NEW g \in Generations, p = <<g, "handled">>
      PROVE  At(p, c) /\ (Unnoticed(p)' => Unnoticed(p)) /\ (Unqueued(p)' => Unqueued(p))
  BY <1>3, NoneAssumption DEF Quiet, QuietSession, At, Unnoticed, Unqueued
<1>4. QED
  BY <1>1, <1>2, <1>3 DEF Places

LEMMA QuietAlone == ASSUME TypeOK, Alone, Quiet PROVE Alone'
<1>1. \A g \in Generations : IsInjective(session'[g].events)
  BY NothingIn DEF Quiet, QuietSession, Alone
<1>2. QED
  BY <1>1, QuietAt DEF Quiet, QuietOut, Alone

LEMMA QuietStages ==
    ASSUME TypeOK, Quiet, NEW c \in Chats
    PROVE  Shrinks(c)
BY QuietAt DEF Shrinks, Fresh, Waiting, Somewhere

\* A chat that gets into place dst, the others staying where they are.
LEMMA MovedAlone ==
    ASSUME Alone, AskOnce(game'.outbound), \A g \in Generations : IsInjective(session'[g].events),
           NEW dst, NEW c, \A p \in Places : At(p, c)' => p = dst,
           \A d \in Chats \ {c}, p \in Places : At(p, d)' => At(p, d)
    PROVE  Alone'
BY DEF Alone

LEMMA AskAlone ==
    ASSUME TypeOK, Alone, Staged, NEW c \in Chats, Ask(c)
    PROVE  /\ Alone'
           /\ \A d \in Chats \ {c} : Shrinks(d)
<1>1. Frame("ask", c) \in FramesOut /\ Frame("ask", c).kind = "ask" /\ Frame("ask", c).chat = c
  BY DEF Frame, FramesOut
<1>2. \A p \in Places : ~At(p, c)
  BY DEF Staged, Known, Ask
<1>3. game'.outbound = Append(game.outbound, Frame("ask", c)) /\ session' = session
  BY DEF Ask, brokerVars, TypeOK, GameOK, Games
<1>4. ~AskIn(game.outbound, c)
  <2>1. <<0, "ask">> \in Places /\ <<0, "ask">>[2] = "ask"
    BY DEF Places
  <2>2. QED
    BY <1>2, <2>1 DEF At
<1>5. AskOnce(game'.outbound) /\ \A d : AskIn(game'.outbound, d) => AskIn(game.outbound, d) \/ d = c
  BY <1>1, <1>3, <1>4, AskAppend, GameIn DEF Alone
<1>6. ASSUME NEW d \in Chats, NEW p \in Places, At(p, d)'
      PROVE  IF d = c THEN p = <<0, "ask">> ELSE At(p, d)
  <2>1. CASE p = <<0, "ask">>
    BY <1>5, <1>6, <2>1 DEF At
  <2>2. CASE p # <<0, "ask">>
    <3>1. p[2] # "ask"
      BY <2>2 DEF Places
    <3>2. At(p, d)
      BY <1>3, <1>6, <3>1 DEF At
    <3>3. QED
      BY <1>2, <3>2
  <2>3. QED
    BY <2>1, <2>2
<1>7. \A p \in Places : (Unnoticed(p)' <=> Unnoticed(p)) /\ (Unqueued(p)' <=> Unqueued(p))
  BY <1>3 DEF Unnoticed, Unqueued
<1>8. Alone'
  BY <1>3, <1>5, <1>6, MovedAlone DEF Alone
<1>9. QED
  BY <1>6, <1>7, <1>8 DEF Shrinks, Fresh, Waiting, Somewhere

LEMMA WriteEventAlone ==
    ASSUME TypeOK, Alone, WriteEvent
    PROVE  /\ Alone'
           /\ \A d \in Chats : Shrinks(d)
<1>1. PICK g \in Generations :
          g = game.generation /\ game.outbound # <<>> /\ Head(game.outbound).kind = "ask"
  BY LinkedGeneration DEF WriteEvent
<1>2. PICK c \in Chats : c = Head(game.outbound).chat
  BY HeadOK, <1>1 DEF TypeOK
<1> DEFINE src == <<0, "ask">>
           dst == <<g, "event">>
<1>3. game'.outbound = Tail(game.outbound)
      /\ session' = [session EXCEPT ![g].events = Append(@, c)]
  BY <1>1, <1>2 DEF WriteEvent, TypeOK, GameOK, Games
<1>4. /\ \A k \in Generations \ {g} : session'[k] = session[k]
      /\ session'[g].events = Append(session[g].events, c)
      /\ session'[g].chat = session[g].chat /\ session'[g].processor = session[g].processor
  BY <1>1, <1>3, SessionIn DEF TypeOK, SessionsOK, Sessions
<1>5. src \in Places /\ dst \in Places /\ src # dst /\ src[2] = "ask" /\ dst[2] = "event" /\ dst[1] = g
  BY <1>1 DEF Places
<1> HIDE DEF src, dst
<1>6. /\ AskOnce(game'.outbound) /\ At(src, c) /\ ~AskIn(game'.outbound, c)
      /\ \A d : AskIn(game'.outbound, d) => AskIn(game.outbound, d)
  BY <1>1, <1>2, <1>3, <1>5, AskTail, GameIn DEF Alone, At
<1>7. \A p \in Places : At(p, c) => p = src
  BY <1>2, <1>5, <1>6 DEF Alone
<1>8. ~Contains(session[g].events, c)
  BY <1>5, <1>7 DEF At
<1>9. IsInjective(session'[g].events)
      /\ \A d : Contains(session'[g].events, d) <=> Contains(session[g].events, d) \/ d = c
  BY <1>1, <1>2, <1>4, <1>8, InjectiveAppend, ContainsAppend, SessionIn DEF Alone
<1>10. ASSUME NEW d \in Chats, NEW p \in Places, At(p, d)'
       PROVE  (p = dst /\ d = c) \/ (d # c /\ At(p, d))
  <2>1. CASE p = src
    BY <1>5, <1>6, <1>10, <2>1 DEF At
  <2>2. CASE p = dst
    <3>1. Contains(session'[g].events, d)
      BY <1>5, <1>10, <2>2 DEF At
    <3>2. QED
      BY <1>5, <1>9, <2>2, <3>1 DEF At
  <2>3. CASE p # src /\ p # dst
    <3>1. p[2] # "ask" /\ p[1] \in Generations /\ (p[2] = "event" => p[1] # g)
      BY <1>1, <2>3 DEF Places, src, dst
    <3>2. p[2] = "event" => session'[p[1]].events = session[p[1]].events
      BY <1>4, <3>1
    <3>3. session'[p[1]].chat = session[p[1]].chat
      BY <1>4, <3>1
    <3>4. At(p, d)
      BY <1>10, <3>1, <3>2, <3>3 DEF At
    <3>5. QED
      BY <1>7, <2>3, <3>4
  <2>4. QED
    BY <2>1, <2>2, <2>3
<1>11. \A k \in Generations : IsInjective(session'[k].events)
  BY <1>4, <1>9 DEF Alone
<1>12. Alone'
  BY <1>6, <1>10, <1>11, MovedAlone
<1>13. ASSUME NEW p \in Places
       PROVE  (Unnoticed(p)' <=> Unnoticed(p)) /\ (Unqueued(p)' <=> Unqueued(p))
  <2>1. p[2] = "handled" => p[1] \in Generations
    BY DEF Places
  <2>2. QED
    BY <1>4, <2>1 DEF Unnoticed, Unqueued
<1>14. Unnoticed(src) /\ Unqueued(src)
  BY <1>5 DEF Unnoticed, Unqueued
<1>15. QED
  BY <1>5, <1>6, <1>10, <1>12, <1>13, <1>14 DEF Shrinks, Fresh, Waiting, Somewhere

LEMMA TakeEventAlone ==
    ASSUME TypeOK, Alone, NEW g \in Generations, TakeEvent(g)
    PROVE  /\ Alone'
           /\ \A d \in Chats : Shrinks(d)
<1>1. session[g].events # <<>> /\ session[g].processor = "idle" /\ session[g].chat = None
  BY SessionIn DEF TakeEvent
<1>2. PICK c \in Chats : c = Head(session[g].events)
  BY <1>1, TailFacts, SessionIn
<1> DEFINE src == <<g, "event">>
           dst == <<g, "handled">>
<1>3. /\ \A k \in Generations \ {g} : session'[k] = session[k]
      /\ session'[g].events = Tail(session[g].events)
      /\ session'[g].chat \in {c, None} /\ game' = game
  BY <1>1, <1>2, SessionIn DEF TakeEvent, TypeOK, SessionsOK, Sessions
<1>4. src \in Places /\ dst \in Places /\ src # dst /\ src[2] = "event" /\ dst[2] = "handled"
      /\ src[1] = g /\ dst[1] = g
  BY DEF Places
<1>5. session[g].events \in Seq(Chats) /\ IsInjective(session[g].events)
  BY SessionIn DEF Alone
<1>6. IsInjective(session'[g].events) /\ ~Contains(session'[g].events, c)
      /\ Contains(session[g].events, c)
      /\ \A d : Contains(session'[g].events, d) => Contains(session[g].events, d)
  BY <1>1, <1>2, <1>3, <1>5, InjectiveTail, ContainsInTail
<1> HIDE DEF src, dst
<1>7. At(src, c)
  BY <1>4, <1>6 DEF At
<1>8. \A p \in Places : At(p, c) => p = src
  BY <1>2, <1>4, <1>7 DEF Alone
<1>9. ASSUME NEW d \in Chats, NEW p \in Places, At(p, d)'
      PROVE  (p = dst /\ d = c) \/ (d # c /\ At(p, d))
  <2>1. CASE p = src
    <3>1. Contains(session'[g].events, d)
      BY <1>4, <1>9, <2>1 DEF At
    <3>2. QED
      BY <1>4, <1>6, <2>1, <3>1 DEF At
  <2>2. CASE p = dst
    <3>1. session'[g].chat = d
      BY <1>4, <1>9, <2>2 DEF At
    <3>2. QED
      BY <1>3, <2>2, <3>1, NoneAssumption
  <2>3. CASE p # src /\ p # dst
    <3>1. p[2] = "ask" \/ (p[1] \in Generations /\ p[1] # g)
      BY <2>3 DEF Places, src, dst
    <3>2. p[2] # "ask" => session'[p[1]] = session[p[1]]
      BY <1>3, <3>1
    <3>3. At(p, d)
      BY <1>3, <1>9, <3>2 DEF At
    <3>4. QED
      BY <1>8, <2>3, <3>3
  <2>4. QED
    BY <2>1, <2>2, <2>3
<1>10. \A k \in Generations : IsInjective(session'[k].events)
  BY <1>3, <1>6 DEF Alone
<1>11. Alone'
  BY <1>3, <1>9, <1>10, MovedAlone DEF Alone
<1>12. ASSUME NEW p \in Places, NEW d \in Chats, d # c, At(p, d)'
       PROVE  (Unnoticed(p)' => Unnoticed(p)) /\ (Unqueued(p)' => Unqueued(p))
  <2>1. p # dst
    BY <1>1, <1>4, <1>9, <1>12, NoneAssumption DEF At
  <2>2. p[2] = "handled" => p[1] \in Generations \ {g}
    BY <2>1 DEF Places, dst
  <2>3. p[2] = "handled" => session'[p[1]] = session[p[1]]
    BY <1>3, <2>2
  <2>4. QED
    BY <2>3 DEF Unnoticed, Unqueued
<1>13. Unnoticed(src) /\ Unqueued(src)
  BY <1>4 DEF Unnoticed, Unqueued
<1>14. QED
  BY <1>4, <1>7, <1>9, <1>11, <1>12, <1>13 DEF Shrinks, Fresh, Waiting, Somewhere

\* All other steps are quiet.
SameAt(s, t) == t.events = s.events /\ t.chat = s.chat /\ t.processor = s.processor
SameSessions == \A g \in Generations : SameAt(session[g], session'[g])

LEMMA SameQuiet == ASSUME SameSessions, QuietOut PROVE Quiet
BY DEF SameSessions, SameAt, Quiet, QuietSession

LEMMA OutSame == ASSUME Alone, game'.outbound = game.outbound PROVE QuietOut
BY DEF QuietOut, Alone

LEMMA OutTail ==
    ASSUME TypeOK, Alone, game.outbound # <<>>, game'.outbound = Tail(game.outbound) PROVE QuietOut
BY AskTail, GameIn DEF QuietOut, Alone

LEMMA OutPut ==
    ASSUME TypeOK, Alone, NEW frame \in FramesOut, frame.kind # "ask",
           game'.outbound \in {game.outbound, Put(game.outbound, frame)}
    PROVE  QuietOut
BY AskAppend, GameIn DEF QuietOut, Alone, Put

\* What Receive does to the queues of the game.
LEMMA ReceiveFrame ==
    ASSUME TypeOK, NEW kind, NEW c \in Chats, game' = Receive(Frame(kind, c))
    PROVE  /\ game'.outbound \in {game.outbound, Put(game.outbound, Frame("busy", c))}
           /\ game'.inbound \in {game.inbound, Append(game.inbound, Frame(kind, c))}
           /\ game'.deliveredIds = game.deliveredIds
           /\ Frame("busy", c) \in FramesOut /\ Frame("busy", c).kind # "ask"
<1>1. Frame(kind, c).chat = c /\ Frame("busy", c) \in FramesOut /\ Frame("busy", c).kind # "ask"
  BY DEF Frame, FramesOut
<1>2. QED
  BY <1>1 DEF Receive, Hangup, TypeOK, GameOK, Games

\* The chat of a notice, and of a delivery.
LEMMA NoticeFrame ==
    ASSUME TypeOK, NEW g \in Generations, session[g].processor \in {"checked", "writing", "written"}
    PROVE  session[g].chat \in Chats
BY DEF TypeOK, SessionsOK, Sessions, SessionOK

LEMMA ReadNoticeQuiet ==
    ASSUME TypeOK, Alone, NEW g \in Generations, ReadNotice(g) PROVE Quiet
<1>1. session[g].chat \in Chats
  BY NoticeFrame DEF ReadNotice
<1>2. PICK c \in Chats : c = session[g].chat
  BY <1>1
<1>3. PICK kind : kind = session[g].notice
  OBVIOUS
<1>4. game' = Receive(Frame(kind, c))
  BY <1>2, <1>3 DEF ReadNotice
<1>5. QuietOut
  BY <1>4, ReceiveFrame, OutPut
<1>6. session' = [session EXCEPT ![g].processor = "written"]
  BY DEF ReadNotice
<1>7. QED
  BY <1>5, <1>6, SessionIn DEF Quiet, QuietSession, TypeOK, SessionsOK, Sessions

LEMMA GameQuiet ==
    ASSUME TypeOK, Alone, GameNext PROVE Quiet \/ WriteEvent \/ \E c \in Chats : Ask(c)
<1>1. CASE ShowNotice \/ Dial \/ NoticeClosed \/ Drop
  <2>1. game'.outbound = game.outbound /\ session' = session
    BY <1>1 DEF ShowNotice, Dial, NoticeClosed, Drop, Hangup, brokerVars, TypeOK, GameOK, Games
  <2>2. QED
    BY <2>1, OutSame, SameQuiet DEF SameSessions, SameAt
<1>2. CASE DeliverChatEvent
  <2>1. PICK c \in Chats : c = Head(game.inbound).chat
    BY <1>2, HeadOK DEF DeliverChatEvent, TypeOK
  <2>2. Frame("ok", c) \in FramesOut /\ Frame("ok", c).kind # "ask"
    BY DEF Frame, FramesOut
  <2>3. game'.outbound = Put(game.outbound, Frame("ok", c)) /\ session' = session
    BY <1>2, <2>1 DEF DeliverChatEvent, brokerVars, TypeOK, GameOK, Games
  <2>4. QED
    BY <2>2, <2>3, OutPut, SameQuiet DEF SameSessions, SameAt
<1>3. ASSUME NEW g \in Generations, ReadNotice(g) PROVE Quiet
  BY <1>3, ReadNoticeQuiet
<1>4. ASSUME NEW f \in Flushers, ReadDelivery(f) PROVE Quiet
  <2>1. PICK c \in Chats : c = flush[f].event
    BY <1>4, FlusherIn DEF ReadDelivery, FlushOK, Flushes
  <2>2. game' = Receive(Frame("deliver", c)) /\ session' = session
    BY <1>4, <2>1 DEF ReadDelivery
  <2>3. QED
    BY <2>2, ReceiveFrame, OutPut, SameQuiet DEF SameSessions, SameAt
<1>5. CASE WriteFails
  <2>1. game.outbound # <<>> /\ game'.outbound = Tail(game.outbound) /\ session' = session
    BY <1>5 DEF WriteFails, Hangup, brokerVars, TypeOK, GameOK, Games
  <2>2. QED
    BY <2>1, OutTail, SameQuiet DEF SameSessions, SameAt
<1>6. CASE WriteResponse
  <2>1. game.outbound # <<>> /\ game'.outbound = Tail(game.outbound)
    BY <1>6 DEF WriteResponse, TypeOK, GameOK, Games
  <2>2. SameSessions
    BY <1>6, SessionIn DEF WriteResponse, SameSessions, SameAt, TypeOK, SessionsOK, Sessions
  <2>3. QED
    BY <2>1, <2>2, OutTail, SameQuiet
<1>7. QED
  BY <1>1, <1>2, <1>3, <1>4, <1>5, <1>6 DEF GameNext, GameThread, GameReads, GameWrites

LEMMA SessionQuiet == ASSUME TypeOK, Alone, NEW g \in Generations, SessionNext(g) PROVE Quiet
<1>1. game'.outbound = game.outbound
  BY DEF SessionNext, Register, Greet, GreetFails, ReaderStops, SessionEnd, TypeOK, GameOK, Games
<1>2. QuietOut
  BY <1>1, OutSame
<1>3. CASE Register(g)
  BY <1>2, <1>3, SameQuiet DEF Register, SameSessions, SameAt, TypeOK, SessionsOK, Sessions
<1>4. CASE Greet(g) \/ GreetFails(g) \/ ReaderStops(g)
  BY <1>2, <1>4, SameQuiet
  DEF Greet, GreetFails, Disconnected, ReaderStops, SameSessions, SameAt, TypeOK, SessionsOK, Sessions
<1>5. CASE SessionEnd(g)
  <2>1. EndedSession.events = <<>> /\ EndedSession.chat = None
    BY DEF EndedSession, NoSession
  <2>2. \A k \in Generations : session'[k] = IF k = g THEN EndedSession ELSE session[k]
    BY <1>5 DEF SessionEnd, TypeOK, SessionsOK
  <2>3. QED
    BY <1>2, <2>1, <2>2 DEF Quiet, QuietSession
<1>6. QED
  BY <1>3, <1>4, <1>5 DEF SessionNext

LEMMA QueuedQuiet ==
    ASSUME TypeOK, Alone, NEW g \in Generations, QueueChat(g) \/ RefuseChat(g) PROVE Quiet
<1>1. session[g].processor = "checked" /\ game' = game
      /\ \E notice : session' = [session EXCEPT ![g].processor = "writing", ![g].notice = notice]
  BY DEF QueueChat, RefuseChat, Notify
<1>2. QED
  BY <1>1, OutSame, SessionIn DEF Quiet, QuietSession, TypeOK, SessionsOK, Sessions

LEMMA NoticeQuiet ==
    ASSUME TypeOK, Alone, NEW g \in Generations, NoticeSent(g) \/ NoticeFails(g) PROVE Quiet
<1>1. game' = game /\ \E processor :
         session' = [session EXCEPT ![g].processor = processor, ![g].chat = None, ![g].notice = None]
  BY DEF NoticeSent, NoticeFails, NoticeEnds
<1>2. QED
  BY <1>1, OutSame, SessionIn DEF Quiet, QuietSession, TypeOK, SessionsOK, Sessions

LEMMA ProcessorQuiet ==
    ASSUME TypeOK, Alone, NEW g \in Generations, ProcessorNext(g) PROVE Quiet \/ TakeEvent(g)
BY QueuedQuiet, NoticeQuiet DEF ProcessorNext

LEMMA NextQuiet ==
    ASSUME TypeOK, Alone, [Next]_vars
    PROVE  Quiet \/ WriteEvent \/ (\E c \in Chats : Ask(c)) \/ \E g \in Generations : TakeEvent(g)
<1>1. CASE GameNext
  BY <1>1, GameQuiet
<1>2. ASSUME NEW g \in Generations, SessionNext(g) \/ ProcessorNext(g) PROVE Quiet \/ TakeEvent(g)
  BY <1>2, SessionQuiet, ProcessorQuiet
<1>3. CASE WorkerNext
  <2>1. game' = game
    BY <1>3 DEF WorkerNext, TakeChat, QueueOutcome, DropOutcome, StartFlush, LeaveOutcome,
       ExpireLease, FinishChat
  <2>2. CASE ExpireLease
    <3>1. SameSessions
      BY <2>2 DEF ExpireLease, Disconnected, SameSessions, SameAt, TypeOK, SessionsOK, Sessions
    <3>2. QED
      BY <2>1, <3>1, OutSame, SameQuiet
  <2>3. CASE ~ExpireLease
    <3>1. session' = session
      BY <1>3, <2>3 DEF WorkerNext, TakeChat, QueueOutcome, DropOutcome, StartFlush, LeaveOutcome,
         FinishChat
    <3>2. QED
      BY <2>1, <3>1, OutSame, SameQuiet DEF SameSessions, SameAt
  <2>4. QED
    BY <2>2, <2>3
<1>4. ASSUME NEW f \in Flushers, FlushNext(f) PROVE Quiet
  <2>1. game' = game
    BY <1>4 DEF FlushNext, EnterGate, LeaveEmpty, PeekEvent, DeliveryWriteFails, DeliveryWritten,
       Delivered, DeliveryRefused, DeliveryTimeout
  <2>2. CASE PeekEvent(f) \/ DeliveryWriteFails(f) \/ DeliveryRefused(f) \/ DeliveryTimeout(f)
    <3>1. PICK k \in Generations : k = SessionOf(f)
      BY <2>2, SessionOfOK, FlusherIn
      DEF PeekEvent, DeliveryWriteFails, DeliveryRefused, DeliveryTimeout, SessionOf, FlushOK, Flushes
    <3>2. \A g \in Generations : session[g] \in Sessions
      BY DEF TypeOK, SessionsOK
    <3>3. SameSessions
      <4>1. CASE PeekEvent(f)
        BY <3>1, <3>2, <4>1 DEF PeekEvent, SameSessions, SameAt, TypeOK, SessionsOK, Sessions
      <4>2. CASE DeliveryWriteFails(f)
        BY <3>1, <3>2, <4>2 DEF DeliveryWriteFails, RemovePending, SameSessions, SameAt, TypeOK, SessionsOK, Sessions
      <4>3. CASE DeliveryRefused(f)
        BY <3>1, <3>2, <4>3 DEF DeliveryRefused, Disconnected, SameSessions, SameAt, TypeOK, SessionsOK, Sessions
      <4>4. CASE DeliveryTimeout(f)
        BY <3>1, <3>2, <4>4 DEF DeliveryTimeout, RemovePending, SameSessions, SameAt, TypeOK, SessionsOK, Sessions
      <4>5. QED
        BY <2>2, <4>1, <4>2, <4>3, <4>4
    <3>4. QED
      BY <2>1, <3>3, OutSame, SameQuiet
  <2>3. CASE EnterGate(f) \/ LeaveEmpty(f) \/ DeliveryWritten(f) \/ Delivered(f)
    <3>1. session' = session
      BY <2>3 DEF EnterGate, LeaveEmpty, DeliveryWritten, Delivered
    <3>2. QED
      BY <2>1, <3>1, OutSame, SameQuiet DEF SameSessions, SameAt
  <2>4. QED
    BY <1>4, <2>2, <2>3 DEF FlushNext
<1>5. CASE IdleShutdown \/ BrokerCrash
  <2>1. EndedSession.events = <<>> /\ EndedSession.chat = None
    BY DEF EndedSession, NoSession
  <2>2. game' = game /\ \A k \in Generations : session'[k] \in {session[k], EndedSession}
    BY <1>5 DEF IdleShutdown, BrokerCrash, Forget
  <2>3. QED
    BY <2>1, <2>2, OutSame DEF Quiet, QuietSession
<1>6. CASE GameCrash
  <2>1. game'.outbound = <<>> /\ session' = session
    BY <1>6 DEF GameCrash, Hangup, brokerVars, TypeOK, GameOK, Games
  <2>2. QuietOut
    BY <2>1, NothingIn DEF QuietOut
  <2>3. QED
    BY <2>1, <2>2, SameQuiet DEF SameSessions, SameAt
<1>7. CASE UNCHANGED vars
  BY <1>7, OutSame, SameQuiet DEF vars, brokerVars, SameSessions, SameAt
<1>8. QED
  BY <1>1, <1>2, <1>3, <1>4, <1>5, <1>6, <1>7 DEF Next

\* What a step does to the places: a chat that was nowhere may have been asked.
LEMMA NextPlaces ==
    ASSUME TypeOK, Alone, Staged, [Next]_vars
    PROVE  /\ Alone'
           /\ \A c \in Chats : Ask(c) \/ Shrinks(c)
<1>1. CASE Quiet
  BY <1>1, QuietAlone, QuietStages
<1>2. CASE WriteEvent
  BY <1>2, WriteEventAlone
<1>3. ASSUME NEW g \in Generations, TakeEvent(g)
      PROVE  /\ Alone'
             /\ \A c \in Chats : Shrinks(c)
  BY <1>3, TakeEventAlone
<1>4. ASSUME NEW c \in Chats, Ask(c)
      PROVE  /\ Alone'
             /\ \A d \in Chats : Ask(d) \/ Shrinks(d)
  BY <1>4, AskAlone
<1>5. QED
  BY <1>1, <1>2, <1>3, <1>4, NextQuiet

-----------------------------------------------------------------------------
(* The event in flight is the first that is pending                         *)

LEMMA HeadStill ==
    ASSUME TypeOK, HeadInFlight, \A f \in Flushers : flush'[f].event \in {flush[f].event, None},
           pendingGameEvents' = pendingGameEvents
           \/ \E c \in Chats : pendingGameEvents' = Append(pendingGameEvents, c)
    PROVE  HeadInFlight'
<1>1. pendingGameEvents \in Seq(Chats)
  BY DEF TypeOK, EventsOK
<1>2. pendingGameEvents # <<>> =>
        pendingGameEvents' # <<>> /\ Head(pendingGameEvents') = Head(pendingGameEvents)
  BY <1>1
<1>3. QED
  BY <1>2 DEF HeadInFlight

LEMMA GameHead == ASSUME TypeOK, HeadInFlight, GameNext PROVE HeadInFlight'
<1>1. pendingGameEvents' = pendingGameEvents
  BY DEF GameNext, GameThread, GameReads, GameWrites, Ask, ShowNotice, DeliverChatEvent,
     ReadNotice, ReadDelivery, WriteEvent, WriteResponse, Dial, NoticeClosed, Drop, WriteFails,
     brokerVars, gameVars
<1>2. CASE WriteResponse
  <2>1. \A f \in Flushers : flush'[f].event = flush[f].event
    BY <1>2, FlusherIn DEF WriteResponse, Complete, Flushes
  <2>2. QED
    BY <1>1, <2>1, HeadStill
<1>3. CASE \E f \in Flushers : ReadDelivery(f)
  <2>1. \A f \in Flushers : flush'[f].event = flush[f].event
    BY <1>3, FlusherIn DEF ReadDelivery, TypeOK, FlushersOK, Flushes
  <2>2. QED
    BY <1>1, <2>1, HeadStill
<1>4. CASE ~WriteResponse /\ ~\E f \in Flushers : ReadDelivery(f)
  <2>1. flush' = flush
    BY <1>4 DEF GameNext, GameThread, GameReads, GameWrites, Ask, ShowNotice, DeliverChatEvent,
       ReadNotice, WriteEvent, Dial, NoticeClosed, Drop, WriteFails, brokerVars, gameVars
  <2>2. QED
    BY <1>1, <2>1, HeadStill
<1>5. QED
  BY <1>2, <1>3, <1>4

LEMMA FlushHead == ASSUME TypeOK, HeadInFlight, NEW f \in Flushers, FlushNext(f) PROVE HeadInFlight'
<1>1. flush \in [Flushers -> Flushes]
  BY DEF TypeOK, FlushersOK
<1>2. CASE PeekEvent(f)
  <2>1. \A k \in Flushers : flush'[k].event = IF k = f THEN Head(pendingGameEvents) ELSE flush[k].event
    BY <1>1, <1>2 DEF PeekEvent, Flushes
  <2>2. QED
    BY <1>2, <2>1 DEF PeekEvent, HeadInFlight
<1>3. CASE Delivered(f)
  <2>1. \A k \in Flushers \ {f} : flush'[k] = flush[k]
    BY <1>1, <1>3 DEF Delivered
  <2>2. flush'[f].event = None
    BY <1>1, <1>3 DEF Delivered, Flushes
  <2>3. gate = f
    BY <1>3, FlusherIn DEF Delivered, FlushOK
  <2>4. \A k \in Flushers \ {f} : flush[k].event = None
    BY <2>3, FlusherIn DEF FlushOK
  <2>5. QED
    BY <2>1, <2>2, <2>4 DEF HeadInFlight
<1>4. CASE EnterGate(f) \/ DeliveryWritten(f)
  <2>1. \A k \in Flushers : flush'[k].event = flush[k].event
    BY <1>1, <1>4 DEF EnterGate, DeliveryWritten, Step, Flushes
  <2>2. QED
    BY <1>4, <2>1, HeadStill DEF EnterGate, DeliveryWritten
<1>5. CASE LeaveEmpty(f) \/ DeliveryWriteFails(f) \/ DeliveryRefused(f) \/ DeliveryTimeout(f)
  <2>1. NoFlush.event = None
    BY DEF NoFlush
  <2>2. flush' = [flush EXCEPT ![f] = NoFlush] /\ pendingGameEvents' = pendingGameEvents
    BY <1>5 DEF LeaveEmpty, DeliveryWriteFails, DeliveryRefused, DeliveryTimeout, Leave
  <2>3. \A k \in Flushers : flush'[k].event \in {flush[k].event, None}
    BY <1>1, <2>1, <2>2
  <2>4. QED
    BY <2>2, <2>3, HeadStill
<1>6. QED
  BY <1>2, <1>3, <1>4, <1>5 DEF FlushNext

LEMMA NextHead == ASSUME TypeOK, HeadInFlight, [Next]_vars PROVE HeadInFlight'
<1>1. CASE GameNext
  BY <1>1, GameHead
<1>2. ASSUME NEW g \in Generations, SessionNext(g) PROVE HeadInFlight'
  <2>1. pendingGameEvents' = pendingGameEvents
    BY <1>2 DEF SessionNext, Register, Greet, GreetFails, ReaderStops, SessionEnd
  <2>2. \A f \in Flushers : flush'[f].event = flush[f].event
    <3>1. CASE SessionEnd(g)
      BY <3>1, FlusherIn DEF SessionEnd, Complete, Flushes
    <3>2. CASE Greet(g)
      BY <3>2, FlusherIn DEF Greet, TypeOK, FlushersOK, Flushes
    <3>3. CASE Register(g) \/ GreetFails(g) \/ ReaderStops(g)
      BY <3>3 DEF Register, GreetFails, ReaderStops
    <3>4. QED
      BY <1>2, <3>1, <3>2, <3>3 DEF SessionNext
  <2>3. QED
    BY <2>1, <2>2, HeadStill
<1>3. ASSUME NEW g \in Generations, ProcessorNext(g) PROVE HeadInFlight'
  BY <1>3, HeadStill
  DEF ProcessorNext, TakeEvent, QueueChat, RefuseChat, NoticeSent, NoticeFails, NoticeEnds
<1>4. CASE WorkerNext
  <2>1. CASE QueueOutcome
    <3>1. worker.chat \in Chats
      BY <2>1 DEF QueueOutcome, MayAnswer, TypeOK, WorkOK, Workers
    <3>2. QED
      BY <2>1, <3>1, HeadStill DEF QueueOutcome
  <2>2. CASE StartFlush
    <3>1. \A f \in Flushers : flush'[f].event = flush[f].event
      BY <2>2, FlusherIn DEF StartFlush, TypeOK, FlushersOK, Flushes
    <3>2. QED
      BY <2>2, <3>1, HeadStill DEF StartFlush
  <2>3. CASE TakeChat \/ DropOutcome \/ LeaveOutcome \/ ExpireLease \/ FinishChat
    BY <2>3, HeadStill DEF TakeChat, DropOutcome, LeaveOutcome, ExpireLease, FinishChat
  <2>4. QED
    BY <1>4, <2>1, <2>2, <2>3 DEF WorkerNext
<1>5. ASSUME NEW f \in Flushers, FlushNext(f) PROVE HeadInFlight'
  BY <1>5, FlushHead
<1>6. CASE IdleShutdown \/ BrokerCrash
  <2>1. NoFlush.event = None /\ flush' = [f \in Flushers |-> NoFlush]
    BY <1>6 DEF NoFlush, IdleShutdown, BrokerCrash, Forget
  <2>2. QED
    BY <2>1 DEF HeadInFlight
<1>7. CASE GameCrash \/ UNCHANGED vars
  BY <1>7, HeadStill DEF GameCrash, vars, brokerVars
<1>8. QED
  BY <1>1, <1>2, <1>3, <1>4, <1>5, <1>6, <1>7 DEF Next

-----------------------------------------------------------------------------
(* The outcomes to come are in the order of acceptance                      *)

LineVars == <<pendingGameEvents, chatQueue, accepted, worker>>

LEMMA LineIn ==
    ASSUME TypeOK
    PROVE  /\ pendingGameEvents \in Seq(Chats) /\ chatQueue \in Seq(Chats) /\ accepted \in Seq(Chats)
           /\ worker.phase = "taken" => worker.chat \in Chats
BY DEF TypeOK, EventsOK, WorkOK, Workers

LEMMA EarlierSame == ASSUME UNCHANGED accepted, NEW c, NEW d PROVE Earlier(c, d)' <=> Earlier(c, d)
BY DEF Earlier

LEMMA SortedTail ==
    ASSUME NEW q \in Seq(Chats), q # <<>>, Sorted(q)
    PROVE  Sorted(Tail(q)) /\ \A c : Contains(Tail(q), c) => Earlier(Head(q), c)
<1>1. \A i \in 1 .. Len(Tail(q)) : /\ Tail(q)[i] = q[i + 1] /\ i + 1 \in 1 .. Len(q)
                                   /\ 1 < i + 1 /\ i \in Nat
  BY TailFacts
<1>2. Sorted(Tail(q))
  BY <1>1 DEF Sorted
<1>3. \A i \in 1 .. Len(Tail(q)) : Earlier(Head(q), Tail(q)[i])
  BY <1>1, TailFacts DEF Sorted
<1>4. QED
  BY <1>2, <1>3, ContainsIn

LEMMA SortedAppend ==
    ASSUME NEW q \in Seq(Chats), NEW c \in Chats, Sorted(q), \A d : Contains(q, d) => Earlier(d, c)
    PROVE  Sorted(Append(q, c))
<1>1. \A i \in 1 .. Len(q) : Earlier(q[i], c)
  BY ContainsIn
<1>2. Len(q) \in Nat /\ Len(Append(q, c)) = Len(q) + 1 /\ Append(q, c)[Len(q) + 1] = c
      /\ (\A i \in 1 .. Len(q) : Append(q, c)[i] = q[i])
      /\ \A i \in 1 .. Len(q) + 1 : i \in 1 .. Len(q) \/ i = Len(q) + 1
  BY AppendFacts
<1>3. QED
  BY <1>1, <1>2 DEF Sorted

LEMMA LineStill ==
    ASSUME Line, UNCHANGED <<pendingGameEvents, chatQueue, accepted>>,
           \A c \in Chats : InHand(c)' => InHand(c)
    PROVE  Line'
<1>1. \A c, d : Earlier(c, d)' <=> Earlier(c, d)
  BY EarlierSame
<1>2. Sorted(pendingGameEvents)' /\ Sorted(chatQueue)'
  BY <1>1 DEF Line, Sorted
<1>3. QED
  BY <1>1, <1>2 DEF Line, InLine

LEMMA TakeChatLine == ASSUME TypeOK, Line, TakeChat PROVE Line'
<1> DEFINE c == Head(chatQueue)
<1>1. chatQueue # <<>> /\ chatQueue \in Seq(Chats) /\ chatQueue' = Tail(chatQueue)
      /\ worker.phase = "idle" /\ worker' = [phase |-> "taken", chat |-> c]
      /\ pendingGameEvents' = pendingGameEvents /\ accepted' = accepted
  BY LineIn DEF TakeChat, gameVars
<1>2. \A a, b : Earlier(a, b)' <=> Earlier(a, b)
  BY <1>1, EarlierSame
<1>3. Sorted(Tail(chatQueue)) /\ (\A a : Contains(Tail(chatQueue), a) => Earlier(c, a))
      /\ Sorted(pendingGameEvents)
  BY <1>1, SortedTail DEF Line
<1>4. Sorted(chatQueue)' /\ Sorted(pendingGameEvents)'
  BY <1>1, <1>2, <1>3 DEF Sorted
<1>5. Contains(chatQueue, c) /\ \A a : Contains(Tail(chatQueue), a) => Contains(chatQueue, a)
  BY <1>1, ContainsInTail
<1> HIDE DEF c
<1>6. (\A a : InHand(a)' <=> a = c) /\ \A a : ~InHand(a)
  BY <1>1 DEF InHand
<1>7. \A a : InLine(a)' => Contains(chatQueue, a)
  BY <1>1, <1>5, <1>6 DEF InLine
<1>8. QED
  BY <1>1, <1>2, <1>3, <1>4, <1>6, <1>7 DEF Line, InLine

LEMMA QueueOutcomeLine == ASSUME TypeOK, Line, QueueOutcome PROVE Line'
<1> DEFINE c == worker.chat
<1>1. c \in Chats /\ pendingGameEvents \in Seq(Chats)
      /\ pendingGameEvents' = Append(pendingGameEvents, c) /\ InHand(c)
      /\ chatQueue' = chatQueue /\ accepted' = accepted
  BY LineIn DEF QueueOutcome, MayAnswer, InHand
<1> HIDE DEF c
<1>2. \A a, b : Earlier(a, b)' <=> Earlier(a, b)
  BY <1>1, EarlierSame
<1>3. \A a \in Chats : ~InHand(a)'
  BY DEF QueueOutcome, InHand, TypeOK, WorkOK, Workers
<1>4. \A a : Contains(pendingGameEvents', a) <=> Contains(pendingGameEvents, a) \/ a = c
  BY <1>1, ContainsAppend
<1>5. \A a : Contains(pendingGameEvents, a) => a \in Chats /\ Earlier(a, c)
  <2>1. \A a : Contains(pendingGameEvents, a) => a \in Chats
    BY <1>1, ContainsIn
  <2>2. QED
    BY <1>1, <2>1 DEF Line, InLine
<1>6. Sorted(Append(pendingGameEvents, c)) /\ Sorted(chatQueue)
  BY <1>1, <1>5, SortedAppend DEF Line
<1>7. Sorted(pendingGameEvents)' /\ Sorted(chatQueue)'
  BY <1>1, <1>2, <1>6 DEF Sorted
<1>8. \A a \in Chats : InLine(a)' => Contains(chatQueue, a)
  BY <1>1, <1>3 DEF InLine
<1>9. QED
  BY <1>1, <1>2, <1>3, <1>4, <1>7, <1>8 DEF Line, InLine

LEMMA DeliveredLine == ASSUME TypeOK, Line, NEW f \in Flushers, Delivered(f) PROVE Line'
<1>1. CASE pendingGameEvents' = pendingGameEvents
  BY <1>1, LineStill DEF Delivered, chatVars, InHand
<1>2. CASE pendingGameEvents # <<>> /\ pendingGameEvents' = Tail(pendingGameEvents)
  <2>1. pendingGameEvents \in Seq(Chats) /\ chatQueue' = chatQueue /\ accepted' = accepted
        /\ worker' = worker
    BY LineIn DEF Delivered, chatVars
  <2>2. \A a, b : Earlier(a, b)' <=> Earlier(a, b)
    BY <2>1, EarlierSame
  <2>3. Sorted(Tail(pendingGameEvents)) /\ Sorted(chatQueue)
    BY <1>2, <2>1, SortedTail DEF Line
  <2>4. Sorted(pendingGameEvents)' /\ Sorted(chatQueue)'
    BY <1>2, <2>1, <2>2, <2>3 DEF Sorted
  <2>5. \A a : Contains(pendingGameEvents', a) => Contains(pendingGameEvents, a)
    BY <1>2, <2>1, ContainsInTail
  <2>6. QED
    BY <2>1, <2>2, <2>4, <2>5 DEF Line, InLine, InHand
<1>3. flush[f].event # None
  BY FlusherIn DEF Delivered, FlushOK
<1>4. pendingGameEvents = <<>> => pendingGameEvents' \in {pendingGameEvents, Tail(pendingGameEvents)}
  BY DEF Delivered
<1>5. pendingGameEvents = <<>> => Tail(pendingGameEvents) = pendingGameEvents
  OBVIOUS
<1>6. QED
  BY <1>1, <1>2, <1>4, <1>5 DEF Delivered

\* The steps that accept a chat, and what that does to the order.
LEMMA AcceptedAppend ==
    ASSUME TypeOK, NEW c \in Chats, accepted' = Append(accepted, c)
    PROVE  /\ \A a, b : Earlier(a, b) => Earlier(a, b)'
           /\ \A a : Contains(accepted, a) => Earlier(a, c)'
           /\ \A a : Contains(accepted', a) <=> Contains(accepted, a) \/ a = c
<1>1. accepted \in Seq(Chats)
  BY LineIn
<1>2. Len(accepted) \in Nat /\ Len(accepted') = Len(accepted) + 1
      /\ accepted'[Len(accepted) + 1] = c
      /\ \A i \in 1 .. Len(accepted) : /\ accepted'[i] = accepted[i] /\ i \in 1 .. Len(accepted')
                                       /\ i < Len(accepted) + 1
  BY <1>1, AppendFacts
<1>3. ASSUME NEW a, NEW b, Earlier(a, b) PROVE Earlier(a, b)'
  BY <1>2, <1>3 DEF Earlier
<1>4. ASSUME NEW a, Contains(accepted, a) PROVE Earlier(a, c)'
  <2>1. PICK i \in 1 .. Len(accepted) : accepted[i] = a
    BY <1>4, ContainsIn
  <2>2. Len(accepted) + 1 \in 1 .. Len(accepted')
    BY <1>2
  <2>3. QED
    BY <1>2, <2>1, <2>2 DEF Earlier
<1>5. \A a : Contains(accepted', a) <=> Contains(accepted, a) \/ a = c
  BY <1>1, ContainsAppend
<1>6. QED
  BY <1>3, <1>4, <1>5

\* A chat its session has yet to queue has not been accepted.
LEMMA HandledPlace ==
    ASSUME TypeOK, NEW g \in Generations, session[g].processor \in {"checked", "writing", "written"}
    PROVE  /\ session[g].chat \in Chats
           /\ <<g, "handled">> \in Places /\ At(<<g, "handled">>, session[g].chat)
           /\ Unqueued(<<g, "handled">>) <=> session[g].processor = "checked"
           /\ Unnoticed(<<g, "handled">>) <=> session[g].processor # "written"
BY NoticeFrame DEF Places, At, Unqueued, Unnoticed

LEMMA QueueChatLine ==
    ASSUME TypeOK, Staged, Line, NEW g \in Generations, QueueChat(g) PROVE Line'
<1>1. PICK c \in Chats : c = session[g].chat /\ ~Contains(accepted, c)
  BY HandledPlace DEF QueueChat, Staged
<1>2. chatQueue \in Seq(Chats) /\ accepted \in Seq(Chats)
  BY LineIn
<1>3. chatQueue' = Append(chatQueue, c) /\ accepted' = Append(accepted, c)
      /\ pendingGameEvents' = pendingGameEvents /\ worker' = worker
  BY <1>1 DEF QueueChat
<1>4. (\A a, b : Earlier(a, b) => Earlier(a, b)') /\ (\A a : Contains(accepted, a) => Earlier(a, c)')
      /\ \A a : Contains(accepted', a) <=> Contains(accepted, a) \/ a = c
  BY <1>1, <1>3, AcceptedAppend
<1>5. \A a : Contains(chatQueue', a) <=> Contains(chatQueue, a) \/ a = c
  BY <1>1, <1>2, <1>3, ContainsAppend
<1>6. \A a : Contains(chatQueue, a) => Earlier(a, c)'
  <2>1. \A a : Contains(chatQueue, a) => a \in Chats
    BY <1>2, ContainsIn
  <2>2. QED
    BY <1>4, <2>1 DEF Line, InLine
<1>7. Sorted(chatQueue)'
  <2>1. Len(chatQueue') = Len(chatQueue) + 1 /\ chatQueue'[Len(chatQueue) + 1] = c
        /\ Len(chatQueue) \in Nat
        /\ (\A i \in 1 .. Len(chatQueue) : chatQueue'[i] = chatQueue[i])
        /\ \A i \in 1 .. Len(chatQueue) + 1 : i \in 1 .. Len(chatQueue) \/ i = Len(chatQueue) + 1
    BY <1>1, <1>2, <1>3, AppendFacts
  <2>2. ASSUME NEW i \in 1 .. Len(chatQueue'), NEW j \in 1 .. Len(chatQueue'), i < j
        PROVE  Earlier(chatQueue[i], chatQueue[j])'
    <3>1. PICK a, b : a = chatQueue'[i] /\ b = chatQueue'[j]
      OBVIOUS
    <3>2. i \in 1 .. Len(chatQueue) /\ a = chatQueue[i]
      BY <2>1, <2>2, <3>1
    <3>3. Earlier(a, b)'
      <4>1. CASE j \in 1 .. Len(chatQueue)
        BY <1>4, <2>1, <2>2, <3>1, <3>2, <4>1 DEF Line, Sorted
      <4>2. CASE j = Len(chatQueue) + 1
        BY <1>6, <2>1, <3>1, <3>2, <4>2, ContainsIn
      <4>3. QED
        BY <2>1, <2>2, <4>1, <4>2
    <3>4. QED
      BY <3>1, <3>3 DEF Earlier
  <2>3. QED
    BY <2>2 DEF Sorted
<1>8. Sorted(pendingGameEvents)'
  BY <1>3, <1>4 DEF Line, Sorted
<1>9. IsInjective(accepted')
  BY <1>1, <1>2, <1>3, InjectiveAppend DEF Line
<1>10. \A a : (InHand(a)' <=> InHand(a)) /\ (InLine(a)' <=> InLine(a) \/ a = c)
  BY <1>3, <1>5 DEF InHand, InLine
<1>11. QED
  BY <1>1, <1>3, <1>4, <1>5, <1>7, <1>8, <1>9, <1>10 DEF Line, InLine

LEMMA NextLine == ASSUME TypeOK, Staged, Line, [Next]_vars PROVE Line'
<1>1. CASE GameNext \/ GameCrash \/ UNCHANGED vars
  <2>1. UNCHANGED LineVars
    BY <1>1 DEF GameNext, GameThread, GameReads, GameWrites, Ask, ShowNotice, DeliverChatEvent,
       ReadNotice, ReadDelivery, WriteEvent, WriteResponse, Dial, NoticeClosed, Drop, WriteFails,
       GameCrash, vars, brokerVars, gameVars, LineVars
  <2>2. QED
    BY <2>1, LineStill DEF LineVars, InHand
<1>2. ASSUME NEW g \in Generations, SessionNext(g) PROVE Line'
  BY <1>2, LineStill
  DEF SessionNext, Register, Greet, GreetFails, ReaderStops, SessionEnd, chatVars, InHand
<1>3. ASSUME NEW g \in Generations, ProcessorNext(g) PROVE Line'
  <2>1. CASE QueueChat(g)
    BY <2>1, QueueChatLine
  <2>2. CASE TakeEvent(g) \/ RefuseChat(g) \/ NoticeSent(g) \/ NoticeFails(g)
    BY <2>2, LineStill DEF TakeEvent, RefuseChat, NoticeSent, NoticeFails, NoticeEnds, chatVars, InHand
  <2>3. QED
    BY <1>3, <2>1, <2>2 DEF ProcessorNext
<1>4. CASE WorkerNext
  <2>1. CASE DropOutcome \/ StartFlush \/ LeaveOutcome \/ ExpireLease \/ FinishChat
    <3>1. UNCHANGED <<pendingGameEvents, chatQueue, accepted>> /\ worker'.phase # "taken"
      BY <2>1 DEF DropOutcome, StartFlush, LeaveOutcome, ExpireLease, FinishChat, WorkDone, IdleWorker,
         TypeOK, WorkOK, Workers
    <3>2. QED
      BY <3>1, LineStill DEF InHand
  <2>2. QED
    BY <1>4, <2>1, TakeChatLine, QueueOutcomeLine DEF WorkerNext
<1>5. ASSUME NEW f \in Flushers, FlushNext(f) PROVE Line'
  <2>1. CASE ~Delivered(f)
    BY <1>5, <2>1, LineStill
    DEF FlushNext, EnterGate, LeaveEmpty, PeekEvent, DeliveryWriteFails, DeliveryWritten,
        DeliveryRefused, DeliveryTimeout, chatVars, InHand
  <2>2. QED
    BY <2>1, DeliveredLine
<1>6. CASE IdleShutdown \/ BrokerCrash
  <2>1. pendingGameEvents' = <<>> /\ chatQueue' = <<>> /\ accepted' = <<>> /\ worker'.phase = "idle"
    BY <1>6 DEF IdleShutdown, BrokerCrash, Forget, IdleWorker
  <2>2. QED
    BY <2>1, NothingIn DEF Line, Sorted, InLine, InHand
<1>7. QED
  BY <1>1, <1>2, <1>3, <1>4, <1>5, <1>6 DEF Next

-----------------------------------------------------------------------------
(* What arrives at the game                                                 *)

LEMMA StreamIn ==
    ASSUME TypeOK, ShownTyped
    PROVE  /\ shown \in Seq(FramesIn) /\ game.inbound \in Seq(FramesIn)
           /\ Stream \in Seq(FramesIn) /\ Len(Stream) = Len(shown) + Len(game.inbound)
           /\ Len(shown) \in Nat /\ Len(game.inbound) \in Nat
           /\ \A i \in 1 .. Len(shown) + Len(game.inbound) :
                 Stream[i] = IF i <= Len(shown) THEN shown[i] ELSE game.inbound[i - Len(shown)]
BY GameIn, ConcatFacts DEF ShownTyped, Stream

\* The steps of the game's two threads that touch it, and all others.
LEMMA StreamSame ==
    ASSUME TypeOK, ShownTyped, shown' = shown, game'.inbound = game.inbound
    PROVE  ShownTyped' /\ Stream' = Stream
BY DEF ShownTyped, Stream

LEMMA ConcatGrown ==
    ASSUME NEW S, NEW s \in Seq(S), NEW q \in Seq(S), NEW e \in S
    PROVE  Grown(s \o Append(q, e), s \o q, e)
<1> DEFINE r == Append(q, e)
<1>1. r \in Seq(S) /\ Len(r) = Len(q) + 1 /\ r[Len(q) + 1] = e
      /\ (\A i \in 1 .. Len(q) : r[i] = q[i]) /\ Len(q) \in Nat /\ Len(s) \in Nat
  BY AppendFacts
<1> HIDE DEF r
<1>2. Len(s \o r) = Len(s) + Len(r) /\ Len(s \o q) = Len(s) + Len(q)
      /\ (\A i \in 1 .. Len(s) + Len(r) : (s \o r)[i] = IF i <= Len(s) THEN s[i] ELSE r[i - Len(s)])
      /\ (\A i \in 1 .. Len(s) + Len(q) : (s \o q)[i] = IF i <= Len(s) THEN s[i] ELSE q[i - Len(s)])
  BY <1>1, ConcatFacts
<1>3. (s \o r)[Len(s \o q) + 1] = e
  BY <1>1, <1>2
<1>4. ASSUME NEW i \in 1 .. Len(s \o q) PROVE (s \o r)[i] = (s \o q)[i]
  <2>1. i \in 1 .. Len(s) + Len(r) /\ i \in 1 .. Len(s) + Len(q)
        /\ (~(i <= Len(s)) => i - Len(s) \in 1 .. Len(q))
    BY <1>1, <1>2
  <2>2. QED
    BY <1>1, <1>2, <2>1
<1>5. QED
  BY <1>1, <1>2, <1>3, <1>4 DEF Grown, r

LEMMA ConcatTail ==
    ASSUME NEW S, NEW s \in Seq(S), NEW q \in Seq(S), q # <<>>
    PROVE  Sub(s \o Tail(q), s \o q)
<1> DEFINE r == Tail(q)
<1>1. r \in Seq(S) /\ Len(r) = Len(q) - 1 /\ Len(q) \in Nat \ {0} /\ Len(s) \in Nat
      /\ \A i \in 1 .. Len(q) - 1 : r[i] = q[i + 1]
  BY TailFacts
<1> HIDE DEF r
<1>2. Len(s \o r) = Len(s) + Len(r) /\ Len(s \o q) = Len(s) + Len(q)
      /\ (\A i \in 1 .. Len(s) + Len(r) : (s \o r)[i] = IF i <= Len(s) THEN s[i] ELSE r[i - Len(s)])
      /\ (\A i \in 1 .. Len(s) + Len(q) : (s \o q)[i] = IF i <= Len(s) THEN s[i] ELSE q[i - Len(s)])
  BY <1>1, ConcatFacts
<1>3. ASSUME NEW i \in 1 .. Len(s \o r)
      PROVE  (s \o r)[i] = (s \o q)[IF i <= Len(s) THEN i ELSE i + 1]
  <2>1. i \in 1 .. Len(s) + Len(r) /\ i \in 1 .. Len(s) + Len(q) /\ i + 1 \in 1 .. Len(s) + Len(q)
    BY <1>1, <1>2
  <2>2. ~(i <= Len(s)) => /\ i - Len(s) \in 1 .. Len(q) - 1
                          /\ (i - Len(s)) + 1 = (i + 1) - Len(s)
                          /\ ~(i + 1 <= Len(s))
    BY <1>1, <2>1
  <2>3. QED
    BY <1>1, <1>2, <2>1, <2>2
<1>4. Len(s \o r) = Len(s \o q) - 1 /\ Len(s \o q) \in Nat
  BY <1>1, <1>2
<1>5. QED
  BY <1>1, <1>3, <1>4, SubRemoved DEF r

LEMMA ConcatMoved ==
    ASSUME NEW S, NEW s \in Seq(S), NEW q \in Seq(S), q # <<>>
    PROVE  Sub(Append(s, Head(q)) \o Tail(q), s \o q)
<1> DEFINE r == Tail(q)
           u == Append(s, Head(q))
<1>1. r \in Seq(S) /\ Len(r) = Len(q) - 1 /\ Len(q) \in Nat \ {0} /\ Len(s) \in Nat
      /\ Head(q) = q[1] /\ Head(q) \in S /\ \A i \in 1 .. Len(q) - 1 : r[i] = q[i + 1]
  BY TailFacts
<1>2. u \in Seq(S) /\ Len(u) = Len(s) + 1 /\ u[Len(s) + 1] = q[1]
      /\ \A i \in 1 .. Len(s) : u[i] = s[i]
  BY <1>1, AppendFacts
<1> HIDE DEF r, u
<1>3. Len(u \o r) = Len(u) + Len(r) /\ Len(s \o q) = Len(s) + Len(q)
      /\ (\A i \in 1 .. Len(u) + Len(r) : (u \o r)[i] = IF i <= Len(u) THEN u[i] ELSE r[i - Len(u)])
      /\ (\A i \in 1 .. Len(s) + Len(q) : (s \o q)[i] = IF i <= Len(s) THEN s[i] ELSE q[i - Len(s)])
  BY <1>1, <1>2, ConcatFacts
<1>4. Len(u \o r) = Len(s \o q) /\ Len(s \o q) \in Nat
  BY <1>1, <1>2, <1>3
<1>5. ASSUME NEW i \in 1 .. Len(s \o q) PROVE (u \o r)[i] = (s \o q)[i]
  <2>1. i \in 1 .. Len(u) + Len(r) /\ i \in 1 .. Len(s) + Len(q)
    BY <1>3, <1>4
  <2>2. CASE i <= Len(s)
    BY <1>1, <1>2, <1>3, <2>1, <2>2
  <2>3. CASE i = Len(s) + 1
    <3>1. (u \o r)[i] = u[Len(s) + 1] /\ i - Len(s) = 1 /\ ~(i <= Len(s))
      BY <1>1, <1>2, <1>3, <2>1, <2>3
    <3>2. QED
      BY <1>2, <1>3, <2>1, <3>1
  <2>4. CASE i > Len(s) + 1
    <3>1. i - Len(u) \in 1 .. Len(q) - 1 /\ (i - Len(u)) + 1 = i - Len(s)
          /\ ~(i <= Len(u)) /\ ~(i <= Len(s))
      BY <1>1, <1>2, <2>1, <2>4
    <3>2. QED
      BY <1>1, <1>3, <2>1, <3>1
  <2>5. QED
    BY <1>1, <2>1, <2>2, <2>3, <2>4
<1>6. QED
  BY <1>4, <1>5, SubSame DEF r, u

LEMMA StreamGrown ==
    ASSUME TypeOK, ShownTyped, NEW e \in FramesIn, shown' = shown,
           game'.inbound = Append(game.inbound, e)
    PROVE  ShownTyped' /\ Grown(Stream', Stream, e)
BY StreamIn, ConcatGrown DEF ShownTyped, Stream

\* The frame at the head is shown, or thrown away.
LEMMA StreamMoved ==
    ASSUME TypeOK, ShownTyped, game.inbound # <<>>, game'.inbound = Tail(game.inbound),
           shown' \in {shown, Append(shown, Head(game.inbound))}
    PROVE  ShownTyped' /\ Sub(Stream', Stream)
<1>1. Head(game.inbound) \in FramesIn
  BY StreamIn, TailFacts
<1>2. shown \in Seq(FramesIn) /\ Append(shown, Head(game.inbound)) \in Seq(FramesIn)
  BY <1>1, StreamIn
<1>3. ShownTyped'
  BY <1>2 DEF ShownTyped
<1>4. CASE shown' = shown
  BY <1>3, <1>4, StreamIn, ConcatTail DEF Stream
<1>5. CASE shown' = Append(shown, Head(game.inbound))
  BY <1>3, <1>5, StreamIn, ConcatMoved DEF Stream
<1>6. QED
  BY <1>4, <1>5

\* A step that puts frame e at the end of what arrives.
Arrives(e) == e \in FramesIn /\ Grown(Stream', Stream, e)
NoticeArrives(g) == ReadNotice(g) /\ Arrives(Frame(session[g].notice, session[g].chat))
DeliveryArrives(f) == ReadDelivery(f) /\ Arrives(Frame("deliver", flush[f].event))

LEMMA ReadNoticeStream ==
    ASSUME TypeOK, ShownTyped, NEW g \in Generations, ReadNotice(g)
    PROVE  ShownTyped' /\ (Stream' = Stream \/ NoticeArrives(g))
<1>1. PICK c \in Chats, notice \in Notices : c = session[g].chat /\ notice = session[g].notice
  BY DEF ReadNotice, TypeOK, SessionsOK, Sessions, SessionOK
<1>2. Frame(notice, c) \in FramesIn
  BY DEF Frame, FramesIn
<1>3. game' = Receive(Frame(notice, c)) /\ shown' = shown
  BY <1>1 DEF ReadNotice, gameVars
<1>4. game'.inbound \in {game.inbound, Append(game.inbound, Frame(notice, c))}
  BY <1>3, ReceiveFrame
<1>5. QED
  BY <1>1, <1>2, <1>3, <1>4, StreamSame, StreamGrown DEF NoticeArrives, Arrives

LEMMA ReadDeliveryStream ==
    ASSUME TypeOK, ShownTyped, NEW f \in Flushers, ReadDelivery(f)
    PROVE  ShownTyped' /\ (Stream' = Stream \/ DeliveryArrives(f))
<1>1. PICK c \in Chats : c = flush[f].event
  BY FlusherIn DEF ReadDelivery, FlushOK, Flushes
<1>2. Frame("deliver", c) \in FramesIn
  BY DEF Frame, FramesIn
<1>3. game' = Receive(Frame("deliver", c)) /\ shown' = shown
  BY <1>1 DEF ReadDelivery, gameVars
<1>4. game'.inbound \in {game.inbound, Append(game.inbound, Frame("deliver", c))}
  BY <1>3, ReceiveFrame
<1>5. QED
  BY <1>1, <1>2, <1>3, <1>4, StreamSame, StreamGrown DEF DeliveryArrives, Arrives

LEMMA SubSelf == ASSUME TypeOK, ShownTyped, Stream' = Stream PROVE Sub(Stream', Stream)
<1>1. PICK s, t : s = Stream /\ t = Stream'
  OBVIOUS
<1>2. Len(s) \in Nat /\ t = s
  BY <1>1, StreamIn
<1>3. QED
  BY <1>1, <1>2, SubSame

LEMMA NextStream ==
    ASSUME TypeOK, ShownTyped, [Next]_vars
    PROVE  /\ ShownTyped'
           /\ \/ Sub(Stream', Stream)
              \/ \E g \in Generations : NoticeArrives(g)
              \/ \E f \in Flushers : DeliveryArrives(f)
<1>1. CASE shown' = shown /\ game'.inbound = game.inbound
  BY <1>1, StreamSame, SubSelf
<1>2. CASE ShowNotice \/ DeliverChatEvent
  <2>1. game.inbound # <<>> /\ game'.inbound = Tail(game.inbound)
        /\ shown' \in {shown, Append(shown, Head(game.inbound))}
    BY <1>2 DEF ShowNotice, DeliverChatEvent, TypeOK, GameOK, Games
  <2>2. QED
    BY <2>1, StreamMoved
<1>3. CASE GameReads
  BY <1>3, ReadNoticeStream, ReadDeliveryStream, SubSelf DEF GameReads
<1>4. CASE GameCrash
  <2>1. shown' = <<>> /\ game'.inbound = <<>>
    BY <1>4 DEF GameCrash, Hangup, TypeOK, GameOK, Games
  <2>2. Stream' = <<>> \o <<>>
    BY <2>1 DEF Stream
  <2>3. <<>> \in Seq(FramesIn) /\ Len(<<>>) = 0
    OBVIOUS
  <2>4. Len(Stream') = 0
    BY <2>2, <2>3, ConcatFacts
  <2>5. QED
    BY <2>1, <2>3, <2>4, SubEmpty DEF ShownTyped
<1>5. CASE /\ GameNext /\ ~GameReads /\ ~ShowNotice /\ ~DeliverChatEvent
  BY <1>1, <1>5
  DEF GameNext, GameThread, GameWrites, Ask, WriteEvent, WriteResponse, Dial, NoticeClosed, Drop,
      WriteFails, Hangup, brokerVars, gameVars, TypeOK, GameOK, Games
<1>6. ASSUME NEW g \in Generations, SessionNext(g) \/ ProcessorNext(g)
      PROVE  shown' = shown /\ game'.inbound = game.inbound
  BY <1>6
  DEF SessionNext, Register, Greet, GreetFails, ReaderStops, SessionEnd, ProcessorNext, TakeEvent,
      QueueChat, RefuseChat, NoticeSent, NoticeFails, NoticeEnds, gameVars, TypeOK, GameOK, Games
<1>7. ASSUME WorkerNext \/ IdleShutdown \/ BrokerCrash \/ UNCHANGED vars
      PROVE  shown' = shown /\ game'.inbound = game.inbound
  BY <1>7
  DEF WorkerNext, TakeChat, QueueOutcome, DropOutcome, StartFlush, LeaveOutcome, ExpireLease,
      FinishChat, IdleShutdown, BrokerCrash, Forget, gameVars, vars
<1>8. ASSUME NEW f \in Flushers, FlushNext(f) PROVE shown' = shown /\ game'.inbound = game.inbound
  BY <1>8
  DEF FlushNext, EnterGate, LeaveEmpty, PeekEvent, DeliveryWriteFails, DeliveryWritten, Delivered,
      DeliveryRefused, DeliveryTimeout, gameVars
<1>9. QED
  BY <1>1, <1>2, <1>3, <1>4, <1>5, <1>6, <1>7, <1>8 DEF Next, GameNext, GameThread

-----------------------------------------------------------------------------
(* A chat on its way is unknown to the game, and then not accepted          *)

LEMMA SubInStream ==
    ASSUME Sub(Stream', Stream), NEW c PROVE InStream(c)' => InStream(c)
<1>1. PICK s, t : s = Stream /\ t = Stream'
  OBVIOUS
<1>2. ASSUME Sub(t, s), NEW i \in 1 .. Len(t), t[i].chat = c PROVE \E j \in 1 .. Len(s) : s[j].chat = c
  BY <1>2 DEF Sub
<1>3. QED
  BY <1>1, <1>2 DEF InStream

LEMMA GrownInStream ==
    ASSUME NEW e, Grown(Stream', Stream, e), NEW c PROVE InStream(c)' => InStream(c) \/ c = e.chat
<1>1. PICK s, t : s = Stream /\ t = Stream'
  OBVIOUS
<1>2. ASSUME Grown(t, s, e), NEW i \in 1 .. Len(t), t[i].chat = c
      PROVE  (\E j \in 1 .. Len(s) : s[j].chat = c) \/ c = e.chat
  <2>1. i \in 1 .. Len(s) \/ i = Len(s) + 1
    BY <1>2 DEF Grown
  <2>2. QED
    BY <1>2, <2>1 DEF Grown
<1>3. QED
  BY <1>1, <1>2 DEF InStream

\* What a step adds to what is known of chats.
LEMMA AckedBy ==
    ASSUME TypeOK, Alone, [Next]_vars, NEW c \in Chats, c \in acknowledged', c \notin acknowledged
    PROVE  /\ Quiet
           /\ \E g \in Generations : /\ session[g].processor \in {"writing", "written"}
                                     /\ session[g].chat = c /\ session'[g].chat = None
<1>1. \E g \in Generations : NoticeSent(g) \/ NoticeFails(g)
  BY DEF Next, vars, brokerVars, gameVars, chatVars, GameNext, GameThread, GameReads, GameWrites, Ask,
     ShowNotice, DeliverChatEvent, ReadNotice, ReadDelivery, WriteEvent, WriteResponse, Dial,
     NoticeClosed, Drop, WriteFails, SessionNext, Register, Greet, GreetFails, ReaderStops, SessionEnd,
     ProcessorNext, TakeEvent, QueueChat, RefuseChat, WorkerNext, TakeChat, QueueOutcome, DropOutcome,
     StartFlush, LeaveOutcome, ExpireLease, FinishChat, FlushNext, EnterGate, LeaveEmpty, PeekEvent,
     DeliveryWriteFails, DeliveryWritten, Delivered, DeliveryRefused, DeliveryTimeout, IdleShutdown,
     BrokerCrash, Forget, GameCrash
<1>2. PICK g \in Generations, processor \in {"idle", "stopped"} :
          session[g].processor \in {"writing", "written"} /\ NoticeEnds(g, processor)
  BY <1>1 DEF NoticeSent, NoticeFails
<1>3. session[g].chat = c
  BY <1>2 DEF NoticeEnds, Acknowledge
<1>4. session'[g].chat = None
  BY <1>2, SessionIn DEF NoticeEnds, TypeOK, SessionsOK, Sessions
<1>5. QED
  BY <1>1, <1>2, <1>3, <1>4, NoticeQuiet

LEMMA AcceptedBy ==
    ASSUME TypeOK, Alone, [Next]_vars, NEW c \in Chats, Contains(accepted', c), ~Contains(accepted, c)
    PROVE  /\ Quiet
           /\ \E g \in Generations : /\ session[g].processor = "checked" /\ session[g].chat = c
                                     /\ session'[g].processor = "writing"
<1>1. \E g \in Generations : QueueChat(g)
  BY NothingIn
  DEF Next, vars, brokerVars, gameVars, chatVars, GameNext, GameThread, GameReads, GameWrites, Ask,
     ShowNotice, DeliverChatEvent, ReadNotice, ReadDelivery, WriteEvent, WriteResponse, Dial,
     NoticeClosed, Drop, WriteFails, SessionNext, Register, Greet, GreetFails, ReaderStops, SessionEnd,
     ProcessorNext, TakeEvent, RefuseChat, NoticeSent, NoticeFails, NoticeEnds, WorkerNext, TakeChat,
     QueueOutcome, DropOutcome, StartFlush, LeaveOutcome, ExpireLease, FinishChat, FlushNext, EnterGate,
     LeaveEmpty, PeekEvent, DeliveryWriteFails, DeliveryWritten, Delivered, DeliveryRefused,
     DeliveryTimeout, IdleShutdown, BrokerCrash, Forget, GameCrash
<1>2. PICK g \in Generations : QueueChat(g)
  BY <1>1
<1>3. session[g].chat \in Chats /\ accepted \in Seq(Chats)
  BY <1>2, HandledPlace, LineIn DEF QueueChat
<1>4. session[g].chat = c
  BY <1>2, <1>3, ContainsAppend DEF QueueChat
<1>5. session'[g].processor = "writing"
  BY <1>2, SessionIn DEF QueueChat, Notify, TypeOK, SessionsOK, Sessions
<1>6. QED
  BY <1>2, <1>4, <1>5, QueuedQuiet DEF QueueChat

LEMMA PendingBy ==
    ASSUME TypeOK, [Next]_vars, NEW c \in Chats, Contains(pendingGameEvents', c), ~Contains(pendingGameEvents, c)
    PROVE  c \in acknowledged
<1>1. pendingGameEvents \in Seq(Chats)
  BY LineIn
<1>2. ~Contains(Tail(pendingGameEvents), c)
  <2>1. pendingGameEvents # <<>> => ~Contains(Tail(pendingGameEvents), c)
    BY <1>1, ContainsInTail
  <2>2. pendingGameEvents = <<>> => Tail(pendingGameEvents) = <<>>
    OBVIOUS
  <2>3. QED
    BY <2>1, <2>2, NothingIn
<1>3. QueueOutcome
  BY <1>2, NothingIn
  DEF Next, vars, brokerVars, gameVars, chatVars, GameNext, GameThread, GameReads, GameWrites, Ask,
     ShowNotice, DeliverChatEvent, ReadNotice, ReadDelivery, WriteEvent, WriteResponse, Dial,
     NoticeClosed, Drop, WriteFails, SessionNext, Register, Greet, GreetFails, ReaderStops, SessionEnd,
     ProcessorNext, TakeEvent, QueueChat, RefuseChat, NoticeSent, NoticeFails, NoticeEnds, WorkerNext,
     TakeChat, DropOutcome, StartFlush, LeaveOutcome, ExpireLease, FinishChat, FlushNext, EnterGate,
     LeaveEmpty, PeekEvent, DeliveryWriteFails, DeliveryWritten, Delivered, DeliveryRefused,
     DeliveryTimeout, IdleShutdown, BrokerCrash, Forget, GameCrash
<1>4. worker.chat \in acknowledged /\ worker.chat \in Chats
      /\ pendingGameEvents' = Append(pendingGameEvents, worker.chat)
  BY <1>3 DEF QueueOutcome, MayAnswer, TypeOK, WorkOK, Workers
<1>5. QED
  BY <1>1, <1>4, ContainsAppend

\* The only place of a chat that a session handles.
LEMMA OnlyPlace ==
    ASSUME TypeOK, Alone, Quiet, NEW g \in Generations, NEW c \in Chats, session[g].chat = c,
           NEW p \in Places, At(p, c)'
    PROVE  p = <<g, "handled">> /\ session'[g].chat = c
<1>1. <<g, "handled">> \in Places /\ At(<<g, "handled">>, c)
  BY DEF Places, At
<1>2. At(p, c)
  BY QuietAt
<1>3. p = <<g, "handled">>
  BY <1>1, <1>2 DEF Alone
<1>4. QED
  BY <1>3 DEF At

\* A delivery that arrives is of an accepted chat that nobody has on its way.
LEMMA ArrivingEvent ==
    ASSUME TypeOK, HeadInFlight, Line, NEW f \in Flushers, DeliveryArrives(f)
    PROVE  /\ flush[f].event \in Chats /\ pendingGameEvents # <<>>
           /\ flush[f].event = Head(pendingGameEvents)
           /\ Contains(pendingGameEvents, flush[f].event) /\ Contains(accepted, flush[f].event)
<1>1. flush[f].event # None /\ flush[f].event \in Chats
  BY FlusherIn DEF DeliveryArrives, ReadDelivery, FlushOK, Flushes
<1>2. pendingGameEvents # <<>> /\ flush[f].event = Head(pendingGameEvents)
  BY <1>1 DEF HeadInFlight
<1>3. Contains(pendingGameEvents, flush[f].event)
  BY <1>2, ContainsInTail, LineIn
<1>4. QED
  BY <1>1, <1>2, <1>3 DEF Line

\* ... and a notice is of the chat that its session handles.
LEMMA ArrivingNotice ==
    ASSUME TypeOK, Alone, NEW g \in Generations, NoticeArrives(g)
    PROVE  /\ Quiet /\ session[g].chat \in Chats /\ session[g].notice \in Notices
           /\ session[g].processor = "writing" /\ session'[g].processor = "written"
<1>1. Quiet /\ session[g].processor = "writing"
  BY ReadNoticeQuiet DEF NoticeArrives, ReadNotice
<1>2. session[g].notice \in Notices
  BY <1>1 DEF TypeOK, SessionsOK, Sessions, SessionOK
<1>3. session'[g].processor = "written"
  BY SessionIn DEF NoticeArrives, ReadNotice, TypeOK, SessionsOK, Sessions
<1>4. QED
  BY <1>1, <1>2, <1>3, HandledPlace

LEMMA NewInStream ==
    ASSUME TypeOK, ShownTyped, Alone, HeadInFlight, Line, [Next]_vars,
           NEW c \in Chats, InStream(c)', ~InStream(c)
    PROVE  \/ Contains(pendingGameEvents, c)
           \/ \E g \in Generations : NoticeArrives(g) /\ session[g].chat = c
<1>1. ASSUME NEW g \in Generations, NoticeArrives(g) PROVE session[g].chat = c
  <2>1. Frame(session[g].notice, session[g].chat).chat = session[g].chat
    BY DEF Frame
  <2>2. QED
    BY <1>1, <2>1, GrownInStream DEF NoticeArrives, Arrives
<1>2. ASSUME NEW f \in Flushers, DeliveryArrives(f) PROVE flush[f].event = c
  <2>1. Frame("deliver", flush[f].event).chat = flush[f].event
    BY DEF Frame
  <2>2. QED
    BY <1>2, <2>1, GrownInStream DEF DeliveryArrives, Arrives
<1>3. ~Sub(Stream', Stream)
  BY SubInStream
<1>4. QED
  BY <1>1, <1>2, <1>3, NextStream, ArrivingEvent

LEMMA NextKnown ==
    ASSUME TypeOK, ShownTyped, Alone, HeadInFlight, Line, Staged, [Next]_vars,
           NEW c \in Chats, Known(c)'
    PROVE  c \in asked'
<1>1. asked \subseteq asked'
  BY DEF Next, vars, brokerVars, gameVars, chatVars, GameNext, GameThread, GameReads, GameWrites, Ask,
     ShowNotice, DeliverChatEvent, ReadNotice, ReadDelivery, WriteEvent, WriteResponse, Dial,
     NoticeClosed, Drop, WriteFails, SessionNext, Register, Greet, GreetFails, ReaderStops, SessionEnd,
     ProcessorNext, TakeEvent, QueueChat, RefuseChat, NoticeSent, NoticeFails, NoticeEnds, WorkerNext,
     TakeChat, QueueOutcome, DropOutcome, StartFlush, LeaveOutcome, ExpireLease, FinishChat, FlushNext,
     EnterGate, LeaveEmpty, PeekEvent, DeliveryWriteFails, DeliveryWritten, Delivered, DeliveryRefused,
     DeliveryTimeout, IdleShutdown, BrokerCrash, Forget, GameCrash
<1>2. ASSUME NEW g \in Generations, session[g].chat = c PROVE Known(c)
  <2>1. <<g, "handled">> \in Places /\ At(<<g, "handled">>, c)
    BY <1>2 DEF Places, At
  <2>2. QED
    BY <2>1 DEF Known
<1>3. Contains(pendingGameEvents, c) => Known(c)
  BY DEF Line, Known
<1>4. CASE Ask(c)
  BY <1>4 DEF Ask
<1>5. CASE Somewhere(c)' /\ ~Ask(c)
  BY <1>1, <1>5, NextPlaces DEF Shrinks, Somewhere, Staged, Known
<1>6. CASE Contains(accepted', c)
  BY <1>1, <1>2, <1>6, AcceptedBy DEF Staged, Known
<1>7. CASE c \in acknowledged'
  BY <1>1, <1>2, <1>7, AckedBy DEF Staged, Known
<1>8. CASE InStream(c)'
  BY <1>1, <1>2, <1>3, <1>8, NewInStream DEF Staged, Known
<1>9. QED
  BY <1>4, <1>5, <1>6, <1>7, <1>8 DEF Known, Somewhere

\* What has just been asked is nowhere else.
LEMMA AskedAnew ==
    ASSUME TypeOK, ShownTyped, Line, Staged, NEW c \in Chats, Ask(c)
    PROVE  /\ c \notin acknowledged' /\ ~Contains(pendingGameEvents', c) /\ ~InStream(c)'
           /\ ~Contains(accepted', c)
<1>1. ~Known(c)
  BY DEF Ask, Staged
<1>2. UNCHANGED <<acknowledged, pendingGameEvents, accepted, shown>> /\ game'.inbound = game.inbound
  BY DEF Ask, brokerVars, TypeOK, GameOK, Games
<1>3. Stream' = Stream
  BY <1>2, StreamSame
<1>4. ~Contains(pendingGameEvents, c)
  BY <1>1 DEF Line, Known
<1>5. QED
  BY <1>1, <1>2, <1>3, <1>4 DEF Known, InStream

LEMMA NextFresh ==
    ASSUME TypeOK, ShownTyped, Alone, HeadInFlight, Line, Staged, [Next]_vars,
           NEW c \in Chats, NEW p \in Places, At(p, c)', Unnoticed(p)'
    PROVE  c \notin acknowledged' /\ ~Contains(pendingGameEvents', c) /\ ~InStream(c)'
<1>1. CASE Ask(c)
  BY <1>1, AskedAnew
<1>2. CASE ~Ask(c)
  <2>1. Fresh(c)
    BY <1>2, NextPlaces DEF Shrinks, Fresh
  <2>2. c \notin acknowledged /\ ~Contains(pendingGameEvents, c) /\ ~InStream(c)
    BY <2>1 DEF Fresh, Staged
  <2>3. c \notin acknowledged'
    BY <2>2, AckedBy, OnlyPlace, NoneAssumption
  <2>4. ~Contains(pendingGameEvents', c)
    BY <2>2, PendingBy
  <2>5. ASSUME NEW g \in Generations, NoticeArrives(g), session[g].chat = c PROVE FALSE
    <3>1. p = <<g, "handled">> /\ session'[g].processor = "written"
      BY <2>5, ArrivingNotice, OnlyPlace
    <3>2. QED
      BY <3>1 DEF Unnoticed
  <2>6. ~InStream(c)'
    BY <2>2, <2>5, NewInStream
  <2>7. QED
    BY <2>3, <2>4, <2>6
<1>3. QED
  BY <1>1, <1>2

LEMMA NextWaiting ==
    ASSUME TypeOK, ShownTyped, Alone, Line, Staged, [Next]_vars,
           NEW c \in Chats, NEW p \in Places, At(p, c)', Unqueued(p)'
    PROVE  ~Contains(accepted', c)
<1>1. CASE Ask(c)
  BY <1>1, AskedAnew
<1>2. CASE ~Ask(c)
  <2>1. Waiting(c)
    BY <1>2, NextPlaces DEF Shrinks, Waiting
  <2>2. ~Contains(accepted, c)
    BY <2>1 DEF Waiting, Staged
  <2>3. ASSUME Quiet, NEW g \in Generations, session[g].chat = c, session'[g].processor = "writing"
        PROVE  FALSE
    <3>1. p = <<g, "handled">>
      BY <2>3, OnlyPlace
    <3>2. QED
      BY <2>3, <3>1 DEF Unqueued
  <2>4. QED
    BY <2>2, <2>3, AcceptedBy
<1>3. QED
  BY <1>1, <1>2

LEMMA NextStaged ==
    ASSUME TypeOK, ShownTyped, Alone, HeadInFlight, Line, Staged, [Next]_vars PROVE Staged'
<1>1. \A c \in Chats : Known(c)' => c \in asked'
  BY NextKnown
<1>2. \A c \in Chats, p \in Places : At(p, c)' /\ Unnoticed(p)' =>
          c \notin acknowledged' /\ ~Contains(pendingGameEvents', c) /\ ~InStream(c)'
  BY NextFresh
<1>3. \A c \in Chats, p \in Places : At(p, c)' /\ Unqueued(p)' => ~Contains(accepted', c)
  BY NextWaiting
<1>4. QED
  BY <1>1, <1>2, <1>3 DEF Staged

-----------------------------------------------------------------------------
(* The shape of what arrives, whichever broker it comes from                *)

LEMMA SubShape == ASSUME NEW s, NEW t, Sub(t, s), Len(t) \in Nat, Shape(s) PROVE Shape(t)
<1>1. PICK h \in [1 .. Len(t) -> 1 .. Len(s)] :
          /\ \A i \in 1 .. Len(t) : t[i] = s[h[i]]
          /\ \A i, j \in 1 .. Len(t) : i < j => h[i] < h[j]
  BY DEF Sub
<1>2. NoticeOnce(t)
  BY <1>1 DEF NoticeOnce, Shape
<1>3. AcceptedBefore(t)
  BY <1>1 DEF AcceptedBefore, Shape
<1>4. InARow(t)
  <2>1. ASSUME NEW i \in 1 .. Len(t), NEW j \in 1 .. Len(t), NEW k \in 1 .. Len(t), i < j, j < k,
               t[i].kind = "deliver", t[j].kind = "deliver", t[k].kind = "deliver", t[i].chat = t[k].chat
        PROVE  t[i].chat = t[j].chat
    <3>1. h[i] \in 1 .. Len(s) /\ h[j] \in 1 .. Len(s) /\ h[k] \in 1 .. Len(s)
          /\ h[i] < h[j] /\ h[j] < h[k]
          /\ t[i] = s[h[i]] /\ t[j] = s[h[j]] /\ t[k] = s[h[k]]
      BY <1>1, <2>1
    <3>2. QED
      BY <2>1, <3>1 DEF InARow, Shape
  <2>2. QED
    BY <2>1 DEF InARow
<1>5. QED
  BY <1>2, <1>3, <1>4 DEF Shape

\* A frame whose chat has none there, or an outcome that repeats the last.
LEMMA GrownShape ==
    ASSUME NEW s, NEW t, NEW e, Grown(t, s, e), Shape(s),
           \/ \A i \in 1 .. Len(s) : s[i].chat # e.chat
           \/ /\ e.kind = "deliver"
              /\ \A i, j \in 1 .. Len(s) :
                    /\ i < j /\ s[i].kind = "deliver" /\ s[j].kind = "deliver" /\ s[i].chat = e.chat
                    => s[j].chat = e.chat
    PROVE  Shape(t)
<1>1. /\ Len(s) \in Nat /\ t[Len(s) + 1] = e /\ Len(t) = Len(s) + 1
      /\ \A i \in 1 .. Len(s) : t[i] = s[i]
      /\ \A i \in 1 .. Len(t) : i \in 1 .. Len(s) \/ i = Len(s) + 1
  BY DEF Grown
<1>2. \A i, j \in 1 .. Len(t) : i < j => i \in 1 .. Len(s)
  BY <1>1
<1>3. NoticeOnce(t)
  <2>1. ASSUME NEW i \in 1 .. Len(t), NEW j \in 1 .. Len(t), i < j, t[i] = t[j] PROVE t[i].kind = "deliver"
    <3>1. i \in 1 .. Len(s) /\ t[i] = s[i]
      BY <1>1, <1>2, <2>1
    <3>2. CASE j \in 1 .. Len(s)
      BY <1>1, <2>1, <3>1, <3>2 DEF NoticeOnce, Shape
    <3>3. CASE j = Len(s) + 1
      BY <1>1, <2>1, <3>1, <3>3
    <3>4. QED
      BY <1>1, <3>2, <3>3
  <2>2. QED
    BY <2>1 DEF NoticeOnce
<1>4. AcceptedBefore(t)
  <2>1. ASSUME NEW i \in 1 .. Len(t), NEW j \in 1 .. Len(t), i < j,
               t[i].kind = "deliver", t[j].kind = "accepted", t[i].chat = t[j].chat
        PROVE  FALSE
    <3>1. i \in 1 .. Len(s) /\ t[i] = s[i]
      BY <1>1, <1>2, <2>1
    <3>2. CASE j \in 1 .. Len(s)
      BY <1>1, <2>1, <3>1, <3>2 DEF AcceptedBefore, Shape
    <3>3. CASE j = Len(s) + 1
      BY <1>1, <2>1, <3>1, <3>3
    <3>4. QED
      BY <1>1, <3>2, <3>3
  <2>2. QED
    BY <2>1 DEF AcceptedBefore
<1>5. InARow(t)
  <2>1. ASSUME NEW i \in 1 .. Len(t), NEW j \in 1 .. Len(t), NEW k \in 1 .. Len(t), i < j, j < k,
               t[i].kind = "deliver", t[j].kind = "deliver", t[k].kind = "deliver", t[i].chat = t[k].chat
        PROVE  t[i].chat = t[j].chat
    <3>1. i \in 1 .. Len(s) /\ t[i] = s[i] /\ j \in 1 .. Len(s) /\ t[j] = s[j]
      BY <1>1, <1>2, <2>1
    <3>2. CASE k \in 1 .. Len(s)
      BY <1>1, <2>1, <3>1, <3>2 DEF InARow, Shape
    <3>3. CASE k = Len(s) + 1
      BY <1>1, <2>1, <3>1, <3>3
    <3>4. QED
      BY <1>1, <3>2, <3>3
  <2>2. QED
    BY <2>1 DEF InARow
<1>6. QED
  BY <1>3, <1>4, <1>5 DEF Shape

\* No chat is accepted before itself or after one it comes before.
LEMMA EarlierOrder ==
    ASSUME TypeOK, Line, NEW c, NEW d, Earlier(c, d)
    PROVE  /\ c # d /\ ~Earlier(d, c) /\ Contains(accepted, c) /\ Contains(accepted, d)
           /\ \A p, q \in 1 .. Len(accepted) : accepted[p] = c /\ accepted[q] = d => p < q
<1>1. \A p, q \in 1 .. Len(accepted) : accepted[p] = accepted[q] => p = q
  BY LineIn DEF Line, IsInjective
<1>2. PICK p, q \in 1 .. Len(accepted) : p < q /\ accepted[p] = c /\ accepted[q] = d
  BY DEF Earlier
<1>3. Contains(accepted, c) /\ Contains(accepted, d)
  BY <1>2, ContainsIn
<1>4. c # d
  BY <1>1, <1>2
<1>5. ~Earlier(d, c)
  BY <1>1, <1>2 DEF Earlier
<1>6. \A i, j \in 1 .. Len(accepted) : accepted[i] = c /\ accepted[j] = d => i < j
  BY <1>1, <1>2
<1>7. QED
  BY <1>3, <1>4, <1>5, <1>6

\* After an outcome that is still pending arrive only repeats of it.
LEMMA RepeatsLast ==
    ASSUME TypeOK, ShownTyped, Line, Arrival, NEW c \in Chats, Contains(pendingGameEvents, c),
           NEW i \in 1 .. Len(Stream), NEW j \in 1 .. Len(Stream), i < j,
           Shows(Stream, i, c), Stream[j].kind = "deliver"
    PROVE  Stream[j].chat = c
<1>1. PICK d \in Chats : d = Stream[j].chat
  <2>1. Stream[j] \in FramesIn
    BY StreamIn
  <2>2. QED
    BY <2>1 DEF FramesIn
<1>2. Shows(Stream, j, d) /\ Contains(accepted, c)
  BY <1>1 DEF Shows, Line
<1>3. c = d \/ Earlier(c, d)
  BY <1>2 DEF Arrival
<1>4. Earlier(c, d) => Contains(accepted, d)
  BY EarlierOrder
<1>5. Contains(accepted, d) => d = c \/ Earlier(d, c)
  BY <1>2 DEF Arrival
<1>6. QED
  BY <1>1, <1>3, <1>4, <1>5, EarlierOrder

LEMMA NextShape ==
    ASSUME TypeOK, ShownTyped, Alone, HeadInFlight, Line, Staged, Arrival, Shape(Stream), [Next]_vars
    PROVE  Shape(Stream')
<1>1. PICK s, t : s = Stream /\ t = Stream'
  OBVIOUS
<1>2. Len(s) \in Nat
  BY <1>1, StreamIn
<1>3. CASE Sub(Stream', Stream)
  <2>1. Len(t) \in Nat
    <3>1. shown' \in Seq(FramesIn) /\ game'.inbound \in Seq(FramesIn)
      BY NextStream, NextOK DEF ShownTyped, TypeOK, GameOK, Games
    <3>2. t = shown' \o game'.inbound
      BY <1>1 DEF Stream
    <3>3. QED
      BY <3>1, <3>2, ConcatFacts
  <2>2. QED
    BY <1>1, <1>3, <2>1, SubShape
<1>4. ASSUME NEW g \in Generations, NoticeArrives(g) PROVE Shape(t)
  <2>1. PICK c \in Chats : c = session[g].chat
    BY <1>4, ArrivingNotice
  <2>2. PICK e : e = Frame(session[g].notice, session[g].chat)
    OBVIOUS
  <2>3. e.chat = c /\ Grown(t, s, e)
    BY <1>1, <1>4, <2>1, <2>2 DEF Frame, NoticeArrives, Arrives
  <2>4. <<g, "handled">> \in Places /\ At(<<g, "handled">>, c) /\ Unnoticed(<<g, "handled">>)
    BY <1>4, <2>1, ArrivingNotice, HandledPlace
  <2>5. ~InStream(c)
    BY <2>4 DEF Staged
  <2>6. \A i \in 1 .. Len(s) : s[i].chat # e.chat
    BY <1>1, <2>3, <2>5 DEF InStream
  <2>7. QED
    BY <1>1, <2>3, <2>6, GrownShape
<1>5. ASSUME NEW f \in Flushers, DeliveryArrives(f) PROVE Shape(t)
  <2>1. PICK c \in Chats : c = flush[f].event /\ Contains(pendingGameEvents, c)
    BY <1>5, ArrivingEvent
  <2>2. PICK e : e = Frame("deliver", flush[f].event)
    OBVIOUS
  <2>3. e.chat = c /\ e.kind = "deliver" /\ Grown(t, s, e)
    BY <1>1, <1>5, <2>1, <2>2 DEF Frame, DeliveryArrives, Arrives
  <2>4. \A i, j \in 1 .. Len(s) :
            /\ i < j /\ s[i].kind = "deliver" /\ s[j].kind = "deliver" /\ s[i].chat = e.chat
            => s[j].chat = e.chat
    BY <1>1, <2>1, <2>3, RepeatsLast DEF Shows
  <2>5. QED
    BY <1>1, <2>3, <2>4, GrownShape
<1>6. QED
  BY <1>1, <1>3, <1>4, <1>5, NextStream

-----------------------------------------------------------------------------
(* The order of what arrives                                                *)

\* The chats to come move up, and none joins them.
MovesUp ==
    /\ accepted' = accepted
    /\ \A d \in Chats : /\ Contains(pendingGameEvents', d) => Contains(pendingGameEvents, d) \/ InLine(d)
                        /\ InLine(d)' => InLine(d)

LEMMA ArrivalSub == ASSUME Arrival, Sub(Stream', Stream), MovesUp PROVE Arrival'
<1>1. PICK s, t : s = Stream /\ t = Stream'
  OBVIOUS
<1>2. PICK h \in [1 .. Len(t) -> 1 .. Len(s)] :
          /\ \A i \in 1 .. Len(t) : t[i] = s[h[i]]
          /\ \A i, j \in 1 .. Len(t) : i < j => h[i] < h[j]
  BY <1>1 DEF Sub
<1>3. \A c, d : Earlier(c, d)' <=> Earlier(c, d)
  BY EarlierSame DEF MovesUp
<1>4. ASSUME NEW i \in 1 .. Len(t), NEW j \in 1 .. Len(t), NEW c \in Chats, NEW d \in Chats,
             i < j, Shows(t, i, c), Shows(t, j, d), Contains(accepted, c)
      PROVE  c = d \/ Earlier(c, d)
  <2>1. h[i] \in 1 .. Len(s) /\ h[j] \in 1 .. Len(s) /\ h[i] < h[j]
        /\ Shows(s, h[i], c) /\ Shows(s, h[j], d)
    BY <1>2, <1>4 DEF Shows
  <2>2. QED
    BY <1>1, <1>4, <2>1 DEF Arrival
<1>5. ASSUME NEW i \in 1 .. Len(t), NEW c \in Chats, NEW d \in Chats, Shows(t, i, c), Contains(accepted, c)
      PROVE  /\ Contains(pendingGameEvents', d) => c = d \/ Earlier(c, d)
             /\ InLine(d)' => Earlier(c, d)
  <2>1. h[i] \in 1 .. Len(s) /\ Shows(s, h[i], c)
    BY <1>2, <1>5 DEF Shows
  <2>2. (Contains(pendingGameEvents, d) => c = d \/ Earlier(c, d)) /\ (InLine(d) => Earlier(c, d))
    BY <1>1, <1>5, <2>1 DEF Arrival
  <2>3. QED
    BY <2>2 DEF MovesUp
<1>6. accepted' = accepted
  BY DEF MovesUp
<1>7. QED
  BY <1>1, <1>3, <1>4, <1>5, <1>6 DEF Arrival

LEMMA ArrivalGrown ==
    ASSUME TypeOK, Line, Arrival, NEW e, e.chat \in Chats, Grown(Stream', Stream, e),
           UNCHANGED LineVars,
           e.kind = "deliver" => pendingGameEvents # <<>> /\ e.chat = Head(pendingGameEvents)
    PROVE  Arrival'
<1>1. PICK s, t : s = Stream /\ t = Stream'
  OBVIOUS
<1>2. /\ Len(s) \in Nat /\ t[Len(s) + 1] = e /\ Len(t) = Len(s) + 1
      /\ \A i \in 1 .. Len(s) : t[i] = s[i]
      /\ \A i \in 1 .. Len(t) : i \in 1 .. Len(s) \/ i = Len(s) + 1
  BY <1>1 DEF Grown
<1>3. \A c, d : Earlier(c, d)' <=> Earlier(c, d)
  BY EarlierSame DEF LineVars
<1>4. ASSUME NEW d \in Chats, e.kind = "deliver"
      PROVE  /\ Contains(pendingGameEvents, e.chat)
             /\ Contains(pendingGameEvents, d) => e.chat = d \/ Earlier(e.chat, d)
             /\ InLine(d) => Earlier(e.chat, d)
  <2>1. pendingGameEvents \in Seq(Chats) /\ pendingGameEvents # <<>> /\ e.chat = pendingGameEvents[1]
        /\ 1 \in 1 .. Len(pendingGameEvents) /\ Contains(pendingGameEvents, e.chat)
    BY <1>4, LineIn, TailFacts, ContainsInTail
  <2>2. \A k \in 1 .. Len(pendingGameEvents) :
            pendingGameEvents[k] = e.chat \/ Earlier(e.chat, pendingGameEvents[k])
    BY <2>1 DEF Line, Sorted
  <2>3. QED
    BY <2>1, <2>2, ContainsIn DEF Line
<1>5. ASSUME NEW i \in 1 .. Len(t), NEW j \in 1 .. Len(t), NEW c \in Chats, NEW d \in Chats,
             i < j, Shows(t, i, c), Shows(t, j, d), Contains(accepted, c)
      PROVE  c = d \/ Earlier(c, d)
  <2>1. i \in 1 .. Len(s) /\ Shows(s, i, c)
    BY <1>2, <1>5 DEF Shows
  <2>2. CASE j \in 1 .. Len(s)
    <3>1. Shows(s, j, d)
      BY <1>2, <1>5, <2>2 DEF Shows
    <3>2. QED
      BY <1>1, <1>5, <2>1, <2>2, <3>1 DEF Arrival
  <2>3. CASE j = Len(s) + 1
    <3>1. d = e.chat /\ e.kind = "deliver"
      BY <1>2, <1>5, <2>3 DEF Shows
    <3>2. Contains(pendingGameEvents, d)
      BY <1>4, <3>1
    <3>3. QED
      BY <1>1, <1>5, <2>1, <3>2 DEF Arrival
  <2>4. QED
    BY <1>2, <2>2, <2>3
<1>6. ASSUME NEW i \in 1 .. Len(t), NEW c \in Chats, NEW d \in Chats, Shows(t, i, c), Contains(accepted, c)
      PROVE  /\ Contains(pendingGameEvents, d) => c = d \/ Earlier(c, d)
             /\ InLine(d) => Earlier(c, d)
  <2>1. CASE i \in 1 .. Len(s)
    <3>1. Shows(s, i, c)
      BY <1>2, <1>6, <2>1 DEF Shows
    <3>2. QED
      BY <1>1, <1>6, <2>1, <3>1 DEF Arrival
  <2>2. CASE i = Len(s) + 1
    <3>1. c = e.chat /\ e.kind = "deliver"
      BY <1>2, <1>6, <2>2 DEF Shows
    <3>2. QED
      BY <1>4, <3>1
  <2>3. QED
    BY <1>2, <2>1, <2>2
<1>7. /\ accepted' = accepted /\ pendingGameEvents' = pendingGameEvents
      /\ \A d : InLine(d)' <=> InLine(d)
  BY DEF LineVars, InLine, InHand
<1>8. QED
  BY <1>1, <1>3, <1>5, <1>6, <1>7 DEF Arrival

LEMMA QueueChatArrival ==
    ASSUME TypeOK, ShownTyped, Line, Staged, Arrival, NEW g \in Generations, QueueChat(g)
    PROVE  Arrival'
<1>1. PICK c \in Chats : c = session[g].chat /\ ~InStream(c)
  BY HandledPlace DEF QueueChat, Staged
<1>2. accepted' = Append(accepted, c) /\ chatQueue' = Append(chatQueue, c)
      /\ pendingGameEvents' = pendingGameEvents /\ worker' = worker
      /\ shown' = shown /\ game' = game
  BY <1>1 DEF QueueChat, gameVars
<1>3. Stream' = Stream
  BY <1>2, StreamSame
<1>4. (\A a, b : Earlier(a, b) => Earlier(a, b)') /\ (\A a : Contains(accepted, a) => Earlier(a, c)')
      /\ \A a : Contains(accepted', a) <=> Contains(accepted, a) \/ a = c
  BY <1>2, AcceptedAppend
<1>5. \A a : InLine(a)' => InLine(a) \/ a = c
  BY <1>2, LineIn, ContainsAppend DEF InLine, InHand
<1>6. \A i \in 1 .. Len(Stream) : ~Shows(Stream, i, c)
  BY <1>1 DEF InStream, Shows
<1>7. QED
  BY <1>2, <1>3, <1>4, <1>5, <1>6 DEF Arrival

\* All steps but those that accept a chat and those that end the broker.
LEMMA NextMovesUp ==
    ASSUME TypeOK, [Next]_vars
    PROVE  MovesUp \/ IdleShutdown \/ BrokerCrash \/ \E g \in Generations : QueueChat(g)
<1>1. ASSUME UNCHANGED LineVars PROVE MovesUp
  BY <1>1 DEF MovesUp, LineVars, InLine, InHand
<1>2. CASE GameNext \/ GameCrash \/ UNCHANGED vars
  <2>1. UNCHANGED LineVars
    BY <1>2 DEF GameNext, GameThread, GameReads, GameWrites, Ask, ShowNotice, DeliverChatEvent,
       ReadNotice, ReadDelivery, WriteEvent, WriteResponse, Dial, NoticeClosed, Drop, WriteFails,
       GameCrash, vars, brokerVars, gameVars, LineVars
  <2>2. QED
    BY <1>1, <2>1
<1>3. ASSUME NEW g \in Generations, SessionNext(g) \/ (ProcessorNext(g) /\ ~QueueChat(g))
      PROVE  UNCHANGED LineVars
  BY <1>3
  DEF SessionNext, Register, Greet, GreetFails, ReaderStops, SessionEnd, ProcessorNext, TakeEvent,
      RefuseChat, NoticeSent, NoticeFails, NoticeEnds, chatVars, LineVars
<1>4. ASSUME NEW f \in Flushers, FlushNext(f) PROVE MovesUp
  <2>1. CASE ~Delivered(f)
    <3>1. UNCHANGED LineVars
      BY <1>4, <2>1
      DEF FlushNext, EnterGate, LeaveEmpty, PeekEvent, DeliveryWriteFails, DeliveryWritten,
          DeliveryRefused, DeliveryTimeout, chatVars, LineVars
    <3>2. QED
      BY <1>1, <3>1
  <2>2. CASE Delivered(f)
    <3>1. accepted' = accepted /\ chatQueue' = chatQueue /\ worker' = worker
          /\ pendingGameEvents' \in {pendingGameEvents, Tail(pendingGameEvents)}
      BY <2>2 DEF Delivered, chatVars
    <3>2. pendingGameEvents = <<>> => Tail(pendingGameEvents) = pendingGameEvents
      OBVIOUS
    <3>3. \A d : Contains(pendingGameEvents', d) => Contains(pendingGameEvents, d)
      BY <3>1, <3>2, LineIn, ContainsInTail
    <3>4. QED
      BY <3>1, <3>3 DEF MovesUp, InLine, InHand
  <2>3. QED
    BY <2>1, <2>2
<1>5. CASE WorkerNext
  <2>1. CASE TakeChat
    <3>1. chatQueue # <<>> /\ chatQueue' = Tail(chatQueue) /\ worker'.chat = Head(chatQueue)
          /\ accepted' = accepted /\ pendingGameEvents' = pendingGameEvents
      BY <2>1 DEF TakeChat, gameVars
    <3>2. \A d : (Contains(chatQueue', d) => Contains(chatQueue, d)) /\ Contains(chatQueue, worker'.chat)
      BY <3>1, LineIn, ContainsInTail
    <3>3. QED
      BY <3>1, <3>2 DEF MovesUp, InLine, InHand
  <2>2. CASE QueueOutcome
    <3>1. accepted' = accepted /\ chatQueue' = chatQueue /\ InHand(worker.chat) /\ worker.chat \in Chats
          /\ pendingGameEvents' = Append(pendingGameEvents, worker.chat) /\ worker'.phase # "taken"
      BY <2>2, LineIn DEF QueueOutcome, MayAnswer, InHand, TypeOK, WorkOK, Workers
    <3>2. \A d : Contains(pendingGameEvents', d) => Contains(pendingGameEvents, d) \/ d = worker.chat
      BY <3>1, LineIn, ContainsAppend
    <3>3. QED
      BY <3>1, <3>2 DEF MovesUp, InLine, InHand
  <2>3. CASE DropOutcome \/ StartFlush \/ LeaveOutcome \/ ExpireLease \/ FinishChat
    <3>1. UNCHANGED <<pendingGameEvents, chatQueue, accepted>> /\ worker'.phase # "taken"
      BY <2>3 DEF DropOutcome, StartFlush, LeaveOutcome, ExpireLease, FinishChat, WorkDone, IdleWorker,
         TypeOK, WorkOK, Workers
    <3>2. QED
      BY <3>1 DEF MovesUp, InLine, InHand
  <2>4. QED
    BY <1>5, <2>1, <2>2, <2>3 DEF WorkerNext
<1>6. QED
  BY <1>1, <1>2, <1>3, <1>4, <1>5 DEF Next

LEMMA NextArrival ==
    ASSUME TypeOK, ShownTyped, Alone, HeadInFlight, Line, Staged, Arrival, [Next]_vars
    PROVE  Arrival'
<1>1. ASSUME NEW g \in Generations, NoticeArrives(g) PROVE Arrival'
  <2>1. PICK e : e = Frame(session[g].notice, session[g].chat)
    OBVIOUS
  <2>2. e.chat \in Chats /\ e.kind # "deliver"
    BY <1>1, <2>1, ArrivingNotice DEF Frame, Notices
  <2>3. UNCHANGED LineVars
    BY <1>1 DEF NoticeArrives, ReadNotice, LineVars
  <2>4. QED
    BY <1>1, <2>1, <2>2, <2>3, ArrivalGrown DEF NoticeArrives, Arrives
<1>2. ASSUME NEW f \in Flushers, DeliveryArrives(f) PROVE Arrival'
  <2>1. PICK e : e = Frame("deliver", flush[f].event)
    OBVIOUS
  <2>2. e.chat \in Chats /\ pendingGameEvents # <<>> /\ e.chat = Head(pendingGameEvents)
    BY <1>2, <2>1, ArrivingEvent DEF Frame
  <2>3. UNCHANGED LineVars
    BY <1>2 DEF DeliveryArrives, ReadDelivery, LineVars
  <2>4. QED
    BY <1>2, <2>1, <2>2, <2>3, ArrivalGrown DEF DeliveryArrives, Arrives
<1>3. CASE Sub(Stream', Stream) /\ MovesUp
  BY <1>3, ArrivalSub
<1>4. CASE IdleShutdown \/ BrokerCrash
  <2>1. accepted' = <<>>
    BY <1>4 DEF IdleShutdown, BrokerCrash, Forget
  <2>2. QED
    BY <2>1, NothingIn DEF Arrival
<1>5. QED
  BY <1>1, <1>2, <1>3, <1>4, NextStream, NextMovesUp, QueueChatArrival

-----------------------------------------------------------------------------
(* What a game process has shown                                            *)

LEMMA RememberHas ==
    ASSUME NEW ids \in Seq(Chats), NEW c \in Chats
    PROVE  Contains(Remember(ids, c), c)
<1> DEFINE more == Append(ids, c)
<1>1. more \in Seq(Chats) /\ Len(more) = Len(ids) + 1 /\ more[Len(ids) + 1] = c /\ Len(ids) \in Nat
  BY AppendFacts
<1> HIDE DEF more
<1>2. CASE Len(more) > DeliveredCapacity
  <2>1. more # <<>> /\ Len(ids) > 0
    BY <1>1, <1>2, Capacities
  <2>2. Len(Tail(more)) = Len(ids) /\ Tail(more)[Len(ids)] = c
    BY <1>1, <2>1, TailFacts
  <2>3. Len(ids) \in 1 .. Len(Tail(more))
    BY <1>1, <2>1, <2>2
  <2>4. Contains(Tail(more), c)
    BY <2>2, <2>3, ContainsIn
  <2>5. QED
    BY <1>2, <2>4 DEF Remember, more
<1>3. CASE ~(Len(more) > DeliveredCapacity)
  <2>1. Contains(more, c)
    BY <1>1, ContainsIn
  <2>2. QED
    BY <1>3, <2>1 DEF Remember, more
<1>4. QED
  BY <1>2, <1>3

\* An outcome at the head of the queue that was shown before is the last that
\* was shown, so it is remembered.
LEMMA RepeatRemembered ==
    ASSUME TypeOK, ShownTyped, Shape(Stream), Remembered, game.inbound # <<>>,
           Head(game.inbound).kind = "deliver",
           NEW i \in 1 .. Len(shown), shown[i].kind = "deliver",
           shown[i].chat = Head(game.inbound).chat
    PROVE  Contains(game.deliveredIds, Head(game.inbound).chat)
<1> DEFINE k == Len(shown) + 1
<1>1. Len(shown) \in Nat /\ Len(game.inbound) \in Nat \ {0} /\ Head(game.inbound) = game.inbound[1]
  BY StreamIn, TailFacts
<1>2. k \in 1 .. Len(shown) + Len(game.inbound) /\ ~(k <= Len(shown)) /\ k - Len(shown) = 1
  BY <1>1
<1>3. k \in 1 .. Len(Stream) /\ Stream[k] = Head(game.inbound)
  BY <1>1, <1>2, StreamIn
<1>4. \A j \in 1 .. Len(shown) : j \in 1 .. Len(Stream) /\ Stream[j] = shown[j] /\ j < k
  BY <1>1, StreamIn
<1> HIDE DEF k
<1>5. \A j \in 1 .. Len(shown) : i < j /\ shown[j].kind = "deliver" => shown[j].chat = shown[i].chat
  BY <1>3, <1>4 DEF Shape, InARow
<1>6. QED
  BY <1>5 DEF Remembered

LEMMA ShownStill ==
    ASSUME Remembered, OutcomeOnce, shown' = shown, game'.deliveredIds = game.deliveredIds
    PROVE  Remembered' /\ OutcomeOnce'
BY DEF Remembered, OutcomeOnce

LEMMA NoticeShown ==
    ASSUME TypeOK, ShownTyped, Remembered, OutcomeOnce, ShowNotice PROVE Remembered' /\ OutcomeOnce'
<1> DEFINE e == Head(game.inbound)
<1>1. e \in FramesIn /\ e.kind # "deliver" /\ shown' = Append(shown, e)
      /\ game'.deliveredIds = game.deliveredIds
  BY StreamIn, TailFacts DEF ShowNotice, TypeOK, GameOK, Games
<1>2. Len(shown) \in Nat /\ Len(shown') = Len(shown) + 1 /\ shown'[Len(shown) + 1] = e
      /\ (\A i \in 1 .. Len(shown) : shown'[i] = shown[i] /\ i \in 1 .. Len(shown'))
      /\ \A i \in 1 .. Len(shown') : i \in 1 .. Len(shown) \/ i = Len(shown) + 1
  BY <1>1, StreamIn, AppendFacts
<1> HIDE DEF e
<1>3. \A i \in 1 .. Len(shown') : shown'[i].kind = "deliver" => i \in 1 .. Len(shown) /\ shown'[i] = shown[i]
  BY <1>1, <1>2
<1>4. OutcomeOnce'
  BY <1>3 DEF OutcomeOnce
<1>5. Remembered'
  BY <1>1, <1>2, <1>3 DEF Remembered
<1>6. QED
  BY <1>4, <1>5

LEMMA OutcomeShown ==
    ASSUME TypeOK, ShownTyped, Shape(Stream), Remembered, OutcomeOnce, DeliverChatEvent
    PROVE  Remembered' /\ OutcomeOnce'
<1>1. PICK e \in FramesIn : e = Head(game.inbound) /\ e.kind = "deliver"
  BY StreamIn, TailFacts DEF DeliverChatEvent
<1>2. PICK c \in Chats : c = e.chat
  BY <1>1 DEF FramesIn
<1>3. CASE Contains(game.deliveredIds, c)
  <2>1. shown' = shown /\ game'.deliveredIds = game.deliveredIds
    BY <1>1, <1>2, <1>3 DEF DeliverChatEvent, TypeOK, GameOK, Games
  <2>2. QED
    BY <2>1, ShownStill
<1>4. CASE ~Contains(game.deliveredIds, c)
  <2>1. shown' = Append(shown, e) /\ game'.deliveredIds = Remember(game.deliveredIds, c)
    BY <1>1, <1>2, <1>4 DEF DeliverChatEvent, TypeOK, GameOK, Games
  <2>2. Len(shown) \in Nat /\ Len(shown') = Len(shown) + 1 /\ shown'[Len(shown) + 1] = e
        /\ (\A i \in 1 .. Len(shown) : shown'[i] = shown[i] /\ i \in 1 .. Len(shown') /\ i < Len(shown) + 1)
        /\ (\A i \in 1 .. Len(shown') : i \in 1 .. Len(shown) \/ i = Len(shown) + 1)
        /\ Len(shown) + 1 \in 1 .. Len(shown')
    BY <2>1, StreamIn, AppendFacts
  <2>3. \A i \in 1 .. Len(shown) : shown[i].kind = "deliver" => shown[i].chat # c
    BY <1>1, <1>2, <1>4, RepeatRemembered DEF DeliverChatEvent
  <2>4. Contains(game'.deliveredIds, c)
    BY <2>1, RememberHas, GameIn
  <2>5. OutcomeOnce'
    <3>1. ASSUME NEW i \in 1 .. Len(shown'), NEW j \in 1 .. Len(shown'), i < j,
                 shown'[i].kind = "deliver", shown'[j].kind = "deliver"
          PROVE  shown'[i].chat # shown'[j].chat
      <4>1. i \in 1 .. Len(shown) /\ shown'[i] = shown[i]
        BY <2>2, <3>1
      <4>2. CASE j \in 1 .. Len(shown)
        BY <2>2, <3>1, <4>1, <4>2 DEF OutcomeOnce
      <4>3. CASE j = Len(shown) + 1
        BY <1>2, <2>2, <2>3, <3>1, <4>1, <4>3
      <4>4. QED
        BY <2>2, <4>2, <4>3
    <3>2. QED
      BY <3>1 DEF OutcomeOnce
  <2>6. Remembered'
    <3>1. ASSUME NEW i \in 1 .. Len(shown'), shown'[i].kind = "deliver"
          PROVE  \/ Contains(game'.deliveredIds, shown'[i].chat)
                 \/ \E j \in 1 .. Len(shown') :
                       i < j /\ shown'[j].kind = "deliver" /\ shown'[j].chat # shown'[i].chat
      <4>1. CASE i \in 1 .. Len(shown)
        BY <1>1, <1>2, <2>2, <2>3, <3>1, <4>1
      <4>2. CASE i = Len(shown) + 1
        BY <1>2, <2>2, <2>4, <4>2
      <4>3. QED
        BY <2>2, <4>1, <4>2
    <3>2. QED
      BY <3>1 DEF Remembered
  <2>7. QED
    BY <2>5, <2>6
<1>5. QED
  BY <1>3, <1>4

LEMMA NextShown ==
    ASSUME TypeOK, ShownTyped, Shape(Stream), Remembered, OutcomeOnce, [Next]_vars
    PROVE  Remembered' /\ OutcomeOnce'
<1>1. CASE GameCrash
  <2>1. shown' = <<>>
    BY <1>1 DEF GameCrash
  <2>2. QED
    BY <2>1 DEF Remembered, OutcomeOnce
<1>2. CASE GameReads
  <2>1. shown' = shown
    BY <1>2 DEF GameReads, ReadNotice, ReadDelivery, gameVars
  <2>2. \E e : game' = Receive(e)
    BY <1>2 DEF GameReads, ReadNotice, ReadDelivery
  <2>3. game'.deliveredIds = game.deliveredIds
    BY <2>2 DEF Receive, Hangup, TypeOK, GameOK, Games
  <2>4. QED
    BY <2>1, <2>3, ShownStill
<1>3. CASE GameNext /\ ~GameReads /\ ~GameThread
  BY <1>3, ShownStill
  DEF GameNext, GameWrites, Ask, WriteEvent, WriteResponse, Dial, NoticeClosed, Drop, WriteFails,
      Hangup, brokerVars, gameVars, TypeOK, GameOK, Games
<1>4. CASE GameThread
  BY <1>4, NoticeShown, OutcomeShown DEF GameThread
<1>5. ASSUME NEW g \in Generations, SessionNext(g) \/ ProcessorNext(g)
      PROVE  shown' = shown /\ game'.deliveredIds = game.deliveredIds
  BY <1>5
  DEF SessionNext, Register, Greet, GreetFails, ReaderStops, SessionEnd, ProcessorNext, TakeEvent,
      QueueChat, RefuseChat, NoticeSent, NoticeFails, NoticeEnds, gameVars, TypeOK, GameOK, Games
<1>6. ASSUME WorkerNext \/ IdleShutdown \/ BrokerCrash \/ UNCHANGED vars
      PROVE  shown' = shown /\ game'.deliveredIds = game.deliveredIds
  BY <1>6
  DEF WorkerNext, TakeChat, QueueOutcome, DropOutcome, StartFlush, LeaveOutcome, ExpireLease,
      FinishChat, IdleShutdown, BrokerCrash, Forget, gameVars, vars
<1>7. ASSUME NEW f \in Flushers, FlushNext(f)
      PROVE  shown' = shown /\ game'.deliveredIds = game.deliveredIds
  BY <1>7
  DEF FlushNext, EnterGate, LeaveEmpty, PeekEvent, DeliveryWriteFails, DeliveryWritten, Delivered,
      DeliveryRefused, DeliveryTimeout, gameVars
<1>8. QED
  BY <1>1, <1>2, <1>3, <1>4, <1>5, <1>6, <1>7, ShownStill DEF Next

-----------------------------------------------------------------------------
(* The theorems                                                             *)

OrderInv ==
    /\ TypeOK /\ ShownTyped /\ HeadInFlight /\ Alone /\ Staged /\ Line /\ Arrival
    /\ Shape(Stream) /\ Remembered /\ OutcomeOnce

LEMMA InitOrder == Init => OrderInv
<1> SUFFICES ASSUME Init PROVE OrderInv
  OBVIOUS
<1>1. game.inbound = <<>> /\ game.outbound = <<>> /\ shown = <<>> /\ pendingGameEvents = <<>>
      /\ chatQueue = <<>> /\ accepted = <<>> /\ acknowledged = {} /\ worker.phase = "idle"
  BY DEF Init, IdleWorker
<1>2. \A g \in Generations : session[g].events = <<>> /\ session[g].chat = None
  BY DEF Init, NoSession
<1>3. \A f \in Flushers : flush[f].event = None
  BY DEF Init, NoFlush
<1>4. Len(Stream) = 0 /\ ShownTyped
  <2>1. <<>> \in Seq(FramesIn) /\ Len(<<>>) = 0
    OBVIOUS
  <2>2. QED
    BY <1>1, <2>1, ConcatFacts DEF Stream, ShownTyped
<1>5. \A c \in Chats, p \in Places : ~At(p, c)
  BY <1>1, <1>2, NothingIn, NoneAssumption DEF At, Places
<1>6. Alone /\ Staged
  BY <1>1, <1>2, <1>4, <1>5, NothingIn DEF Alone, Staged, Known, InStream
<1>7. Line
  BY <1>1, NothingIn DEF Line, Sorted, InLine, InHand
<1>8. Arrival /\ Shape(Stream)
  BY <1>4 DEF Arrival, Shape, NoticeOnce, AcceptedBefore, InARow
<1>9. HeadInFlight /\ Remembered /\ OutcomeOnce
  BY <1>1, <1>3 DEF HeadInFlight, Remembered, OutcomeOnce
<1>10. QED
  BY <1>4, <1>6, <1>7, <1>8, <1>9, InitOK DEF OrderInv

LEMMA NextOrder == OrderInv /\ [Next]_vars => OrderInv'
<1> SUFFICES ASSUME OrderInv, [Next]_vars PROVE OrderInv'
  OBVIOUS
<1>1. /\ TypeOK /\ ShownTyped /\ HeadInFlight /\ Alone /\ Staged /\ Line /\ Arrival
      /\ Shape(Stream) /\ Remembered /\ OutcomeOnce
  BY DEF OrderInv
<1>2. TypeOK' /\ ShownTyped' /\ HeadInFlight' /\ Alone'
  BY <1>1, NextOK, NextStream, NextHead, NextPlaces
<1>3. Staged' /\ Line' /\ Arrival' /\ Shape(Stream)'
  BY <1>1, NextStaged, NextLine, NextArrival, NextShape
<1>4. Remembered' /\ OutcomeOnce'
  BY <1>1, NextShown
<1>5. QED
  BY <1>2, <1>3, <1>4 DEF OrderInv

\* What is shown has arrived.
LEMMA ShownArrived ==
    ASSUME OrderInv
    PROVE  /\ shown \in Seq(FramesIn)
           /\ \A i \in 1 .. Len(shown) : i \in 1 .. Len(Stream) /\ Stream[i] = shown[i]
BY StreamIn DEF OrderInv

LEMMA OrderShownOnce == OrderInv => ShownOnce
<1> SUFFICES ASSUME OrderInv PROVE ShownOnce
  OBVIOUS
<1>1. \A i, j \in 1 .. Len(shown) : i < j => shown[i] # shown[j]
  BY ShownArrived DEF OrderInv, Shape, NoticeOnce, OutcomeOnce
<1>2. DOMAIN shown = 1 .. Len(shown) /\ Len(shown) \in Nat
  BY ShownArrived
<1>3. QED
  BY <1>1, <1>2 DEF ShownOnce, IsInjective

LEMMA OrderAcceptedFirst == OrderInv => AcceptedFirst
<1> SUFFICES ASSUME OrderInv PROVE AcceptedFirst
  OBVIOUS
<1>1. \A i, j \in 1 .. Len(shown) :
          shown[i].kind = "deliver" /\ shown[j].kind = "accepted" /\ shown[i].chat = shown[j].chat => ~(i < j)
  BY ShownArrived DEF OrderInv, Shape, AcceptedBefore
<1>2. QED
  BY <1>1 DEF AcceptedFirst

LEMMA OrderShownInOrder == OrderInv => ShownInOrder
<1> SUFFICES ASSUME OrderInv,
                    NEW i \in 1 .. Len(shown), NEW j \in 1 .. Len(shown),
                    NEW p \in 1 .. Len(accepted), NEW q \in 1 .. Len(accepted),
                    i < j, shown[i].kind = "deliver", shown[j].kind = "deliver",
                    shown[i].chat = accepted[p], shown[j].chat = accepted[q]
             PROVE  p < q
  BY DEF ShownInOrder
<1>1. TypeOK /\ Line /\ Arrival /\ OutcomeOnce
  BY DEF OrderInv
<1>2. PICK c \in Chats, d \in Chats : c = accepted[p] /\ d = accepted[q]
  BY <1>1, LineIn
<1>3. Shows(Stream, i, c) /\ Shows(Stream, j, d) /\ i \in 1 .. Len(Stream) /\ j \in 1 .. Len(Stream)
  BY <1>2, ShownArrived DEF Shows
<1>4. Contains(accepted, c)
  BY <1>2, ContainsIn
<1>5. c = d \/ Earlier(c, d)
  BY <1>1, <1>3, <1>4 DEF Arrival
<1>6. c # d
  BY <1>1, <1>2 DEF OutcomeOnce
<1>7. QED
  BY <1>1, <1>2, <1>5, <1>6, EarlierOrder

\* A game process shows each notice and each outcome once, although the broker
\* repeats a delivery whose answer is late or lost, remembers of the outcomes
\* shown no more than DeliveredChatEventIds holds, and may be started anew.
THEOREM NothingShownTwice == Spec => []ShownOnce
BY InitOrder, NextOrder, OrderShownOnce, PTL DEF Spec

\* The game shows that a chat is accepted before its outcome: the worker waits
\* for the processor of the session, which waits for the frame to be read.
THEOREM AcceptanceShownFirst == Spec => []AcceptedFirst
BY InitOrder, NextOrder, OrderAcceptedFirst, PTL DEF Spec

\* Outcomes are shown in the order in which the broker accepted the chats, for
\* any number of connections, flushers, failed deliveries and crashes.
THEOREM OutcomesInOrder == Spec => []ShownInOrder
BY InitOrder, NextOrder, OrderShownInOrder, PTL DEF Spec
=============================================================================
