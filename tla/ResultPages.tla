---------------------------- MODULE ResultPages ----------------------------
(***************************************************************************)
(* Long answers of the game, read page by page: the output of a console    *)
(* command (CodexBridgeTextPageStore.cpp, read_result_page) and the list   *)
(* of console commands (CodexBridgeConsoleService.cpp,                     *)
(* discover_console_commands).  Each page comes with a cursor for the next *)
(* one; a cursor is used once and expires, and both tables evict their     *)
(* oldest entry.  Callers read through a transport that loses answers and  *)
(* sends a read a second time when the outcome of the first is unknown     *)
(* (BrokerBridgeToolTransport.cs; BridgeRequests has the path itself).     *)
(*                                                                         *)
(* Texts and lists are counted in pages.  Ids and cursors are GUIDs: here  *)
(* numbers that are never used twice.                                      *)
(***************************************************************************)
EXTENDS Integers, Sequences, FiniteSets

CONSTANTS
    TextReaders,            \* callers that run a command with a long output
    ListReaders,            \* callers that list the console commands
    Pages,                  \* length of each output and of the list
    MaximumResults,         \* capacity of Results
    MaximumDiscoverySnapshots,  \* capacity of DiscoveryCursors
    Lifetime,               \* of results and of discovery cursors
    MaxTime,                \* bound on the clock
    MaxLosses,              \* bound on lost answers and lost requests
    MaxChanges,             \* bound on changes of the console's registry
    None                    \* null

Readers == TextReaders \cup ListReaders

ASSUME PagesAssumption ==
    /\ TextReaders \cap ListReaders = {}
    /\ Pages \in Nat /\ Pages >= 2      \* one page is answered without a cursor
    /\ {MaximumResults, MaximumDiscoverySnapshots} \subseteq Nat \ {0}
    /\ {Lifetime, MaxTime, MaxLosses, MaxChanges} \subseteq Nat

\* A GUID is not null.
ASSUME NoneAssumption == None \notin Nat

VARIABLES
    Results,            \* result id -> expiry
    Cursors,            \* cursor -> result id, offset and expiry
    DiscoveryCursors,   \* cursor -> list as it was, offset and expiry
    registry,           \* the console's list of commands, a version
    now,                \* FDateTime::UtcNow
    queue,              \* reads on their way to the game thread
    reader,             \* the callers
    fresh,              \* the next GUID
    consumed,           \* history: cursors that were read
    losses              \* history: losses so far

gameVars == <<Results, Cursors, DiscoveryCursors, registry>>
vars == <<gameVars, now, queue, reader, fresh, consumed, losses>>

Restricted(f, S) == [x \in S |-> f[x]]
With(f, x, y) == [z \in DOMAIN f \cup {x} |-> IF z = x THEN y ELSE f[z]]
Empty == [x \in {} |-> x]

Init ==
    /\ Results = Empty /\ Cursors = Empty /\ DiscoveryCursors = Empty
    /\ registry = 0
    /\ now = 0
    /\ queue = <<>>
    /\ reader = [r \in Readers |->
                   [phase |-> "new", attempt |-> 1, id |-> None, cursor |-> None,
                    got |-> <<>>, answer |-> <<None, None>>]]
    /\ fresh = 1
    /\ consumed = {}
    /\ losses = 0

\* What Cleanup and CleanupDiscoveryCursors leave.
LiveResults == {i \in DOMAIN Results : now < Results[i]}
LiveCursors == {k \in DOMAIN Cursors :
                   now < Cursors[k].expiresAt /\ Cursors[k].result \in LiveResults}
LiveDiscovery == {k \in DOMAIN DiscoveryCursors : now < DiscoveryCursors[k].expiresAt}

\* A table with room for one more: while it is full the oldest goes.
HasRoomWithout(table, expiry, evicted, capacity) ==
    /\ evicted \subseteq table
    /\ Cardinality(table \ evicted) < capacity
    /\ \A e \in evicted : Cardinality(table \ (evicted \ {e})) >= capacity
    /\ \A e \in evicted : \A k \in table \ evicted : expiry[e] <= expiry[k]

Page(contents, offset, id, cursor) ==
    [kind |-> "page", page |-> <<contents, offset>>, id |-> id, cursor |-> cursor]
Invalid == [kind |-> "invalid", page |-> None, id |-> None, cursor |-> None]

Last(offset) == offset + 1 = Pages

\* What the caller does with an answer: it has a page, and a cursor unless it
\* was the last one.
Take(r, answer) ==
    IF answer.kind = "invalid"
    THEN [reader EXCEPT ![r].phase = "invalid"]
    ELSE [reader EXCEPT
            ![r].phase = IF answer.cursor = None THEN "done" ELSE "reading",
            ![r].attempt = 1,
            ![r].id = answer.id,
            ![r].cursor = answer.cursor,
            ![r].got = Append(@, answer.page),
            ![r].answer = <<None, None>>]

MayLose == losses < MaxLosses

-----------------------------------------------------------------------------
(* The first page                                                           *)

\* Store: the command's output is cut into pages.  If the answer is lost the
\* command is not repeated, and its output expires unread.
ExecuteCommand(r) ==
    /\ r \in TextReaders /\ reader[r].phase = "new"
    /\ \E evicted \in SUBSET LiveResults :
          /\ HasRoomWithout(LiveResults, Results, evicted, MaximumResults)
          /\ Results' = With(Restricted(Results, LiveResults \ evicted),
                             fresh, now + Lifetime)
    /\ Cursors' = With(Restricted(Cursors, LiveCursors), fresh + 1,
                       [result |-> fresh, offset |-> 1, expiresAt |-> now + Lifetime])
    /\ fresh' = fresh + 2
    /\ \/ reader' = Take(r, Page(fresh, 0, fresh, fresh + 1)) /\ UNCHANGED losses
       \/ /\ MayLose /\ losses' = losses + 1
          /\ reader' = [reader EXCEPT ![r].phase = "unknown"]
    /\ UNCHANGED <<DiscoveryCursors, registry, now, queue, consumed>>

\* StoreDiscoveryCursor, after the entry that was read (or None) is taken out.
StoreDiscoveryCursor(taken, items, offset) ==
    LET live == LiveDiscovery \ {taken} IN
    \E evicted \in SUBSET live :
        /\ HasRoomWithout(live, [k \in live |-> DiscoveryCursors[k].expiresAt], evicted,
                          MaximumDiscoverySnapshots)
        /\ DiscoveryCursors' =
              With(Restricted(DiscoveryCursors, live \ evicted), fresh,
                   [items |-> items, offset |-> offset, expiresAt |-> now + Lifetime])

\* The list as it is now; a lost answer is asked for again.
DiscoverCommands(r) ==
    /\ r \in ListReaders /\ reader[r].phase = "new"
    /\ StoreDiscoveryCursor(None, registry, 1)
    /\ fresh' = fresh + 1
    /\ \/ reader' = Take(r, Page(registry, 0, None, fresh)) /\ UNCHANGED losses
       \/ MayLose /\ losses' = losses + 1 /\ UNCHANGED reader
    /\ UNCHANGED <<Results, Cursors, registry, now, queue, consumed>>

-----------------------------------------------------------------------------
(* Further pages                                                            *)

Send(r) ==
    /\ reader[r].phase = "reading"
    /\ reader' = [reader EXCEPT ![r].phase = "waiting"]
    /\ queue' = Append(queue, [reader |-> r, attempt |-> 1, id |-> reader[r].id,
                               cursor |-> reader[r].cursor])
    /\ UNCHANGED <<gameVars, now, fresh, consumed, losses>>

\* The answer of an attempt that nobody waits for any more is ignored.
AnswerTo(q, answer) ==
    reader' = IF reader[q.reader].cursor = q.cursor /\ reader[q.reader].phase = "waiting"
              THEN [reader EXCEPT ![q.reader].answer[q.attempt] = answer]
              ELSE reader

\* Mutant of ResultCursor: a page leaves its own cursor behind.
ResultCursorKept(k) == Restricted(Cursors, LiveCursors)

\* The cursors left once k is read.
ResultCursor(k) == Restricted(Cursors, LiveCursors \ {k})

NextOffset(offset) == offset + 1

\* The text goes with its last page.
ResultsAfter(i, offset) ==
    Restricted(Results, IF Last(offset) THEN LiveResults \ {i} ELSE LiveResults)

\* Read
ReadPage ==
    LET q == Head(queue)
        k == q.cursor
        c == Cursors[k]
        valid == k \in LiveCursors /\ c.result = q.id
    IN
    /\ queue # <<>> /\ q.reader \in TextReaders
    /\ queue' = Tail(queue)
    /\ IF valid
       THEN /\ Results' = ResultsAfter(c.result, c.offset)
            /\ Cursors' = IF Last(c.offset) THEN ResultCursor(k)
                          ELSE With(ResultCursor(k), fresh,
                                    [c EXCEPT !.offset = NextOffset(@),
                                              !.expiresAt = Results[c.result]])
            /\ AnswerTo(q, Page(c.result, c.offset, c.result,
                                IF Last(c.offset) THEN None ELSE fresh))
            /\ consumed' = consumed \cup {k}
       ELSE /\ Results' = Restricted(Results, LiveResults)
            /\ Cursors' = Restricted(Cursors, LiveCursors)
            /\ AnswerTo(q, Invalid)
            /\ UNCHANGED consumed
    /\ fresh' = fresh + 1
    /\ UNCHANGED <<DiscoveryCursors, registry, now, losses>>

\* Mutant of Items: the rest is taken from the list as it is now.
ItemsNow(k) == registry

\* The list a cursor goes on with.
Items(k) == DiscoveryCursors[k].items

\* DiscoverCommands with a cursor
DiscoverMore ==
    LET q == Head(queue)
        k == q.cursor
        offset == DiscoveryCursors[k].offset
    IN
    /\ queue # <<>> /\ q.reader \in ListReaders
    /\ queue' = Tail(queue)
    /\ IF k \in LiveDiscovery
       THEN /\ IF Last(offset)
               THEN DiscoveryCursors' = Restricted(DiscoveryCursors, LiveDiscovery \ {k})
               ELSE StoreDiscoveryCursor(k, Items(k), NextOffset(offset))
            /\ AnswerTo(q, Page(Items(k), offset, None,
                                IF Last(offset) THEN None ELSE fresh))
            /\ consumed' = consumed \cup {k}
       ELSE /\ DiscoveryCursors' = Restricted(DiscoveryCursors, LiveDiscovery)
            /\ AnswerTo(q, Invalid)
            /\ UNCHANGED consumed
    /\ fresh' = fresh + 1
    /\ UNCHANGED <<Results, Cursors, registry, now, losses>>

Receive(r) ==
    LET answer == reader[r].answer[reader[r].attempt] IN
    /\ reader[r].phase = "waiting" /\ answer # None
    /\ reader' = Take(r, answer)
    /\ UNCHANGED <<gameVars, now, queue, fresh, consumed, losses>>

Removed(r) == SelectSeq(queue, LAMBDA q : q.reader # r \/ q.attempt # reader[r].attempt)

\* An attempt is lost before or after it ran, or is merely late: these
\* methods count as read-only, so the read is sent again, once.  After that
\* the caller is told that the outcome is unknown.
Lose(r) ==
    LET again == [reader |-> r, attempt |-> 2, id |-> reader[r].id,
                  cursor |-> reader[r].cursor]
    IN
    /\ MayLose /\ losses' = losses + 1
    /\ reader[r].phase = "waiting"
    /\ \E left \in {queue, Removed(r)} :
          IF reader[r].attempt = 1
          THEN /\ queue' = Append(left, again)
               /\ reader' = [reader EXCEPT ![r].attempt = 2]
          ELSE /\ queue' = left
               /\ reader' = [reader EXCEPT ![r].phase = "unknown"]
    /\ UNCHANGED <<gameVars, now, fresh, consumed>>

-----------------------------------------------------------------------------
Tick ==
    /\ now < MaxTime
    /\ now' = now + 1
    /\ UNCHANGED <<gameVars, queue, reader, fresh, consumed, losses>>

\* A module registers or removes console commands.
ChangeRegistry ==
    /\ registry < MaxChanges
    /\ registry' = registry + 1
    /\ UNCHANGED <<Results, Cursors, DiscoveryCursors, now, queue, reader, fresh,
                   consumed, losses>>

Next ==
    \/ \E r \in Readers :
          \/ ExecuteCommand(r) \/ DiscoverCommands(r) \/ Send(r) \/ Receive(r) \/ Lose(r)
    \/ ReadPage \/ DiscoverMore
    \/ Tick \/ ChangeRegistry

Spec == Init /\ [][Next]_vars

-----------------------------------------------------------------------------
\* A text is kept exactly as long as one page of it can still be read: each has
\* one cursor, of the same expiry.  An evicted text leaves a cursor behind until
\* the next call cleans up, so there are at most one more cursors than texts.
\* Both tables keep to their capacities.
OneCursorPerResult ==
    /\ Cardinality(DOMAIN Results) <= MaximumResults
    /\ Cardinality(DOMAIN DiscoveryCursors) <= MaximumDiscoverySnapshots
    /\ \A i \in DOMAIN Results :
          \E k \in DOMAIN Cursors :
              /\ Cursors[k].result = i /\ Cursors[k].expiresAt = Results[i]
              /\ \A j \in DOMAIN Cursors : Cursors[j].result = i => j = k
    /\ Cardinality(DOMAIN Cursors) <= MaximumResults + 1

\* What a caller has put together is a prefix of one text, or of the list as
\* it was when the caller began, whatever was lost, repeated, evicted or
\* registered in between: no page is skipped or read twice.
PagesContiguous ==
    \A r \in Readers : LET got == reader[r].got IN
        /\ \A n \in 1 .. Len(got) : got[n] = <<got[1][1], n - 1>>
        /\ reader[r].phase = "done" => Len(got) = Pages

\* read_result_page and discover_console_commands are declared not
\* idempotent, so a caller that reads a cursor once must not be told that it
\* is invalid because the cursor was read before.
ReadOnceAnswered ==
    \A r \in Readers : reader[r].phase = "invalid" => reader[r].cursor \notin consumed
=============================================================================
