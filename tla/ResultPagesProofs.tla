------------------------- MODULE ResultPagesProofs -------------------------
(* Proofs about ResultPages for any number of readers, pages and changes    *)
(* and any capacities: each text has one cursor and the tables keep to      *)
(* their capacities; and what a reader puts together is contiguous.         *)
EXTENDS ResultPages, FiniteSetTheorems, TLAPS

LEMMA Limits ==
    /\ Pages \in Nat /\ Pages >= 2
    /\ MaximumResults \in Nat \ {0} /\ MaximumDiscoverySnapshots \in Nat \ {0}
    /\ Lifetime \in Nat
    /\ TextReaders \cap ListReaders = {}
BY PagesAssumption DEF PagesAssumption

-----------------------------------------------------------------------------
(* The tables                                                               *)

TextCursor == [result: Nat, offset: Nat, expiresAt: Nat]
ListCursor == [items: Nat, offset: Nat, expiresAt: Nat]

\* Ids and cursors are handed out before fresh.
ResultsOK == \A i \in DOMAIN Results : i \in Nat /\ i < fresh /\ Results[i] \in Nat
CursorsOK ==
    \A k \in DOMAIN Cursors :
        /\ k \in Nat /\ k < fresh
        /\ Cursors[k] \in TextCursor /\ Cursors[k].result < fresh
DiscoveryOK ==
    \A k \in DOMAIN DiscoveryCursors :
        /\ k \in Nat /\ k < fresh
        /\ DiscoveryCursors[k] \in ListCursor
TablesOK ==
    /\ fresh \in Nat /\ now \in Nat /\ registry \in Nat
    /\ ResultsOK /\ CursorsOK /\ DiscoveryOK

LEMMA LiveSubset ==
    /\ LiveResults \subseteq DOMAIN Results
    /\ LiveCursors \subseteq DOMAIN Cursors
    /\ LiveDiscovery \subseteq DOMAIN DiscoveryCursors
BY DEF LiveResults, LiveCursors, LiveDiscovery

\* What a table is after it was cleaned up.
LEMMA RestrictedIs ==
    ASSUME NEW f, NEW S
    PROVE  DOMAIN Restricted(f, S) = S /\ \A z \in S : Restricted(f, S)[z] = f[z]
BY DEF Restricted

LEMMA EmptyIs == DOMAIN Empty = {}
BY DEF Empty

LEMMA InitTables == Init => TablesOK
BY EmptyIs DEF Init, TablesOK, ResultsOK, CursorsOK, DiscoveryOK

LEMMA ExecuteCommandTables ==
    ASSUME TablesOK, NEW r \in Readers, ExecuteCommand(r) PROVE TablesOK'
<1>1. fresh' = fresh + 2 /\ fresh \in Nat /\ now + Lifetime \in Nat
  BY Limits DEF ExecuteCommand, TablesOK
<1>2. ResultsOK'
  <2>1. PICK evicted \in SUBSET LiveResults :
            Results' = With(Restricted(Results, LiveResults \ evicted), fresh, now + Lifetime)
    BY DEF ExecuteCommand
  <2>2. /\ DOMAIN Results' = (LiveResults \ evicted) \cup {fresh}
        /\ Results'[fresh] = now + Lifetime
        /\ \A i \in LiveResults \ evicted : i # fresh => Results'[i] = Results[i]
    BY <2>1 DEF With, Restricted
  <2>3. QED
    BY <1>1, <2>2, LiveSubset DEF TablesOK, ResultsOK
<1>3. CursorsOK'
  <2> DEFINE c == [result |-> fresh, offset |-> 1, expiresAt |-> now + Lifetime]
  <2>1. /\ DOMAIN Cursors' = LiveCursors \cup {fresh + 1}
        /\ Cursors'[fresh + 1] = c
        /\ \A k \in LiveCursors : k # fresh + 1 => Cursors'[k] = Cursors[k]
    <3>1. Cursors' = With(Restricted(Cursors, LiveCursors), fresh + 1, c)
      BY DEF ExecuteCommand
    <3> HIDE DEF c
    <3>2. QED
      BY <3>1 DEF With, Restricted
  <2>2. c \in TextCursor /\ c.result < fresh'
    BY <1>1 DEF TextCursor
  <2>3. QED
    BY <1>1, <2>1, <2>2, LiveSubset DEF TablesOK, CursorsOK, TextCursor
<1>4. DiscoveryOK'
  BY <1>1 DEF ExecuteCommand, TablesOK, DiscoveryOK
<1>5. QED
  BY <1>1, <1>2, <1>3, <1>4 DEF ExecuteCommand, TablesOK

LEMMA StoreDiscoveryTables ==
    ASSUME TablesOK, NEW taken, NEW items \in Nat, NEW offset \in Nat,
           StoreDiscoveryCursor(taken, items, offset), fresh' = fresh + 1
    PROVE  DiscoveryOK'
<1> DEFINE live == LiveDiscovery \ {taken}
           c == [items |-> items, offset |-> offset, expiresAt |-> now + Lifetime]
<1>1. PICK evicted \in SUBSET live :
          DiscoveryCursors' = With(Restricted(DiscoveryCursors, live \ evicted), fresh, c)
  BY DEF StoreDiscoveryCursor
<1>2. /\ DOMAIN DiscoveryCursors' = (live \ evicted) \cup {fresh}
      /\ DiscoveryCursors'[fresh] = c
      /\ \A k \in live \ evicted : k # fresh => DiscoveryCursors'[k] = DiscoveryCursors[k]
  <2> HIDE DEF c
  <2>1. QED
    BY <1>1 DEF With, Restricted
<1>3. c \in ListCursor /\ fresh \in Nat
  BY Limits DEF ListCursor, TablesOK
<1> HIDE DEF c
<1>4. QED
  BY <1>2, <1>3, LiveSubset DEF TablesOK, DiscoveryOK

LEMMA DiscoverCommandsTables ==
    ASSUME TablesOK, NEW r \in Readers, DiscoverCommands(r) PROVE TablesOK'
<1>1. DiscoveryOK' /\ fresh' = fresh + 1
  BY StoreDiscoveryTables DEF DiscoverCommands, TablesOK
<1>2. UNCHANGED <<Results, Cursors, registry, now>>
  BY DEF DiscoverCommands
<1>3. QED
  BY <1>1, <1>2 DEF TablesOK, ResultsOK, CursorsOK, TextCursor

\* A page of a text that is read: the cursor it was read by makes way for the
\* next one, if there is a next page.
PageRead(k) ==
    LET c == Cursors[k] IN
    /\ k \in LiveCursors
    /\ Results' = ResultsAfter(c.result, c.offset)
    /\ Cursors' = IF Last(c.offset) THEN ResultCursor(k)
                  ELSE With(ResultCursor(k), fresh,
                            [c EXCEPT !.offset = NextOffset(@),
                                      !.expiresAt = Results[c.result]])

\* What the tables of texts are after one read: two ways.
LEMMA ReadPageIs ==
    ASSUME ReadPage
    PROVE  /\ fresh' = fresh + 1 /\ UNCHANGED <<DiscoveryCursors, registry, now>>
           /\ \/ \E k : k = Head(queue).cursor /\ PageRead(k)
              \/ /\ Results' = Restricted(Results, LiveResults)
                 /\ Cursors' = Restricted(Cursors, LiveCursors)
BY DEF ReadPage, PageRead

\* The cursor of the next page, in a table that is otherwise as it was.
LEMMA PageReadIs ==
    ASSUME TablesOK, NEW k, PageRead(k)
    PROVE  LET c == Cursors[k] IN
           /\ k \in LiveCursors /\ c \in TextCursor /\ c.result \in LiveResults
           /\ \/ /\ Last(c.offset)
                 /\ DOMAIN Results' = LiveResults \ {c.result}
                 /\ DOMAIN Cursors' = LiveCursors \ {k}
              \/ /\ ~Last(c.offset)
                 /\ DOMAIN Results' = LiveResults
                 /\ DOMAIN Cursors' = (LiveCursors \ {k}) \cup {fresh}
                 /\ Cursors'[fresh] \in TextCursor
                 /\ Cursors'[fresh].result = c.result
                 /\ Cursors'[fresh].offset = c.offset + 1
                 /\ Cursors'[fresh].expiresAt = Results[c.result]
           /\ \A i \in DOMAIN Results' : Results'[i] = Results[i]
           /\ \A j \in DOMAIN Cursors' \ {fresh} : Cursors'[j] = Cursors[j]
<1> DEFINE c == Cursors[k]
           d == [c EXCEPT !.offset = NextOffset(@), !.expiresAt = Results[c.result]]
<1>1. k \in LiveCursors /\ c \in TextCursor /\ c.result \in LiveResults
  BY LiveSubset DEF PageRead, LiveCursors, TablesOK, CursorsOK
<1>2. Results[c.result] \in Nat
  BY <1>1, LiveSubset DEF TablesOK, ResultsOK
<1>3. d \in TextCursor /\ d.result = c.result /\ d.offset = c.offset + 1
      /\ d.expiresAt = Results[c.result]
  <2> HIDE DEF c
  <2>1. c.offset + 1 \in Nat /\ c \in TextCursor
    BY <1>1 DEF TextCursor
  <2>2. QED
    BY <1>2, <2>1 DEF TextCursor, NextOffset
<1>4. /\ DOMAIN Results' = IF Last(c.offset) THEN LiveResults \ {c.result} ELSE LiveResults
      /\ \A i \in DOMAIN Results' : Results'[i] = Results[i]
  BY RestrictedIs DEF PageRead, ResultsAfter
<1>5. CASE Last(c.offset)
  <2>1. Cursors' = Restricted(Cursors, LiveCursors \ {k})
    BY <1>5 DEF PageRead, ResultCursor
  <2>2. QED
    BY <1>1, <1>4, <1>5, <2>1, RestrictedIs
<1>6. CASE ~Last(c.offset)
  <2>1. Cursors' = With(Restricted(Cursors, LiveCursors \ {k}), fresh, d)
    BY <1>6 DEF PageRead, ResultCursor
  <2> HIDE DEF d
  <2>2. /\ DOMAIN Cursors' = (LiveCursors \ {k}) \cup {fresh}
        /\ Cursors'[fresh] = d
        /\ \A j \in LiveCursors \ {k} : j # fresh => Cursors'[j] = Cursors[j]
    BY <2>1 DEF With, Restricted
  <2>3. QED
    BY <1>1, <1>3, <1>4, <1>6, <2>2
<1>7. QED
  BY <1>5, <1>6

LEMMA ReadPageTables == ASSUME TablesOK, ReadPage PROVE TablesOK'
<1>1. fresh' = fresh + 1 /\ fresh \in Nat /\ UNCHANGED <<DiscoveryCursors, registry, now>>
  BY ReadPageIs DEF TablesOK
<1>2. ASSUME NEW k, PageRead(k) PROVE TablesOK'
  <2>1. ResultsOK'
    <3>1. \A i \in DOMAIN Results' : i \in LiveResults /\ Results'[i] = Results[i]
      BY <1>2, PageReadIs
    <3>2. QED
      BY <1>1, <3>1, LiveSubset DEF TablesOK, ResultsOK
  <2>2. CursorsOK'
    <3>1. Cursors[k].result < fresh
      BY <1>2, PageReadIs, LiveSubset DEF TablesOK, CursorsOK
    <3>2. ASSUME NEW j \in DOMAIN Cursors', j # fresh
          PROVE  j \in DOMAIN Cursors /\ Cursors'[j] = Cursors[j]
      BY <1>2, <3>2, PageReadIs, LiveSubset
    <3>3. ASSUME fresh \in DOMAIN Cursors'
          PROVE  Cursors'[fresh] \in TextCursor /\ Cursors'[fresh].result < fresh
      <4>1. fresh \notin DOMAIN Cursors
        BY <1>1 DEF TablesOK, CursorsOK
      <4>2. QED
        BY <1>2, <3>1, <3>3, <4>1, PageReadIs, LiveSubset
    <3>4. QED
      BY <1>1, <3>2, <3>3 DEF TablesOK, CursorsOK, TextCursor
  <2>3. QED
    BY <1>1, <2>1, <2>2 DEF TablesOK, DiscoveryOK
<1>3. CASE Results' = Restricted(Results, LiveResults) /\ Cursors' = Restricted(Cursors, LiveCursors)
  <2>1. ResultsOK'
    BY <1>1, <1>3, RestrictedIs, LiveSubset DEF TablesOK, ResultsOK
  <2>2. CursorsOK'
    BY <1>1, <1>3, RestrictedIs, LiveSubset DEF TablesOK, CursorsOK, TextCursor
  <2>3. QED
    BY <1>1, <2>1, <2>2 DEF TablesOK, DiscoveryOK
<1>4. QED
  BY <1>2, <1>3, ReadPageIs

LEMMA DiscoverMoreTables == ASSUME TablesOK, DiscoverMore PROVE TablesOK'
<1> DEFINE k == Head(queue).cursor
<1>1. fresh' = fresh + 1 /\ fresh \in Nat /\ UNCHANGED <<Results, Cursors, registry, now>>
  BY DEF DiscoverMore, TablesOK
<1>2. DiscoveryOK'
  <2>1. CASE k \in LiveDiscovery /\ ~Last(DiscoveryCursors[k].offset)
    <3>1. Items(k) \in Nat /\ NextOffset(DiscoveryCursors[k].offset) \in Nat
      BY <2>1, LiveSubset DEF TablesOK, DiscoveryOK, ListCursor, Items, NextOffset
    <3>2. StoreDiscoveryCursor(k, Items(k), NextOffset(DiscoveryCursors[k].offset))
      BY <2>1 DEF DiscoverMore
    <3>3. QED
      BY <1>1, <3>1, <3>2, StoreDiscoveryTables
  <2>2. CASE ~(k \in LiveDiscovery /\ ~Last(DiscoveryCursors[k].offset))
    <3>1. PICK S \in SUBSET LiveDiscovery : DiscoveryCursors' = Restricted(DiscoveryCursors, S)
      BY <2>2 DEF DiscoverMore
    <3>2. QED
      BY <1>1, <3>1, RestrictedIs, LiveSubset DEF TablesOK, DiscoveryOK
  <2>3. QED
    BY <2>1, <2>2
<1>3. QED
  BY <1>1, <1>2 DEF TablesOK, ResultsOK, CursorsOK, TextCursor

LEMMA NextTables == TablesOK /\ [Next]_vars => TablesOK'
<1> SUFFICES ASSUME TablesOK, [Next]_vars PROVE TablesOK'
  OBVIOUS
<1>1. ASSUME NEW r \in Readers, Send(r) \/ Receive(r) \/ Lose(r) PROVE TablesOK'
  BY <1>1 DEF Send, Receive, Lose, gameVars, TablesOK, ResultsOK, CursorsOK, DiscoveryOK
<1>2. CASE Tick \/ ChangeRegistry \/ UNCHANGED vars
  BY <1>2 DEF Tick, ChangeRegistry, gameVars, vars, TablesOK, ResultsOK, CursorsOK, DiscoveryOK
<1>3. QED
  BY <1>1, <1>2, ExecuteCommandTables, DiscoverCommandsTables, ReadPageTables, DiscoverMoreTables
  DEF Next

-----------------------------------------------------------------------------
(* One cursor for each text                                                 *)

LEMMA BelowIsFinite ==
    ASSUME NEW n \in Nat, NEW S, \A x \in S : x \in Nat /\ x < n
    PROVE  IsFiniteSet(S) /\ Cardinality(S) \in Nat
<1>1. IsFiniteSet(0 .. n)
  BY FS_Interval
<1>2. S \in SUBSET (0 .. n)
  OBVIOUS
<1>3. QED
  BY <1>1, <1>2, FS_Subset, FS_CardinalityType

LEMMA TablesFinite ==
    ASSUME TablesOK
    PROVE  /\ IsFiniteSet(DOMAIN Results) /\ Cardinality(DOMAIN Results) \in Nat
           /\ IsFiniteSet(DOMAIN Cursors) /\ Cardinality(DOMAIN Cursors) \in Nat
           /\ IsFiniteSet(DOMAIN DiscoveryCursors) /\ Cardinality(DOMAIN DiscoveryCursors) \in Nat
<1>1. fresh \in Nat /\ (\A i \in DOMAIN Results : i \in Nat /\ i < fresh)
      /\ (\A k \in DOMAIN Cursors : k \in Nat /\ k < fresh)
      /\ (\A k \in DOMAIN DiscoveryCursors : k \in Nat /\ k < fresh)
  BY DEF TablesOK, ResultsOK, CursorsOK, DiscoveryOK
<1>2. QED
  BY <1>1, BelowIsFinite

LEMMA SmallerTable ==
    ASSUME NEW S, NEW n \in Nat, IsFiniteSet(S), Cardinality(S) <= n, NEW T \in SUBSET S
    PROVE  IsFiniteSet(T) /\ Cardinality(T) \in Nat /\ Cardinality(T) <= n
BY FS_Subset, FS_CardinalityType

LEMMA OneMore ==
    ASSUME NEW S, NEW x, NEW n \in Nat, IsFiniteSet(S), Cardinality(S) < n
    PROVE  IsFiniteSet(S \cup {x}) /\ Cardinality(S \cup {x}) <= n
<1>1. Cardinality(S) \in Nat
  BY FS_CardinalityType
<1>2. IsFiniteSet(S \cup {x}) /\ Cardinality(S \cup {x}) \in {Cardinality(S), Cardinality(S) + 1}
  BY FS_AddElement
<1>3. QED
  BY <1>1, <1>2

\* The three parts of the property.
Capacities ==
    /\ Cardinality(DOMAIN Results) <= MaximumResults
    /\ Cardinality(DOMAIN DiscoveryCursors) <= MaximumDiscoverySnapshots
CursorOf(i, k) ==
    /\ k \in DOMAIN Cursors
    /\ Cursors[k].result = i /\ Cursors[k].expiresAt = Results[i]
    /\ \A j \in DOMAIN Cursors : Cursors[j].result = i => j = k
EachHasOne == \A i \in DOMAIN Results : \E k : CursorOf(i, k)

LEMMA PropertyIs ==
    OneCursorPerResult <=>
        Capacities /\ EachHasOne /\ Cardinality(DOMAIN Cursors) <= MaximumResults + 1
BY DEF OneCursorPerResult, Capacities, EachHasOne, CursorOf

\* A text that lives has a cursor that lives, so there are no more of these
\* than there is room for texts.
LEMMA LiveHasOne ==
    ASSUME EachHasOne, NEW i \in LiveResults
    PROVE  \E k \in LiveCursors : CursorOf(i, k)
BY LiveSubset DEF EachHasOne, CursorOf, LiveCursors, LiveResults

LEMMA FewLiveCursors ==
    ASSUME TablesOK, Capacities, EachHasOne
    PROVE  IsFiniteSet(LiveCursors) /\ Cardinality(LiveCursors) <= MaximumResults
           /\ Cardinality(LiveCursors) \in Nat
<1> DEFINE f == [k \in LiveCursors |-> Cursors[k].result]
<1>1. f \in [LiveCursors -> DOMAIN Results]
  BY LiveSubset DEF LiveCursors
<1>2. ASSUME NEW j \in LiveCursors, NEW k \in LiveCursors, f[j] = f[k] PROVE j = k
  BY <1>1, <1>2, LiveSubset DEF EachHasOne, CursorOf
<1>3. f \in Injection(LiveCursors, DOMAIN Results)
  BY <1>1, <1>2 DEF Injection, IsInjective
<1>4. IsFiniteSet(DOMAIN Results) /\ Cardinality(DOMAIN Results) <= MaximumResults
      /\ Cardinality(DOMAIN Results) \in Nat
  BY TablesFinite DEF Capacities
<1>5. IsFiniteSet(LiveCursors) /\ Cardinality(LiveCursors) <= Cardinality(DOMAIN Results)
  BY <1>3, <1>4, FS_Injection
<1>6. QED
  BY <1>4, <1>5, Limits, FS_CardinalityType

LEMMA InitOne == Init => OneCursorPerResult
<1> SUFFICES ASSUME Init PROVE OneCursorPerResult
  OBVIOUS
<1>1. DOMAIN Results = {} /\ DOMAIN Cursors = {} /\ DOMAIN DiscoveryCursors = {}
  BY EmptyIs DEF Init
<1>2. Cardinality({}) = 0
  BY FS_EmptySet
<1>3. QED
  BY <1>1, <1>2, Limits DEF OneCursorPerResult

LEMMA RoomFor ==
    ASSUME NEW S, NEW expiry, NEW evicted, NEW n \in Nat, NEW x, IsFiniteSet(S),
           HasRoomWithout(S, expiry, evicted, n)
    PROVE  Cardinality((S \ evicted) \cup {x}) <= n
<1>1. Cardinality(S \ evicted) < n
  BY DEF HasRoomWithout
<1>2. IsFiniteSet(S \ evicted)
  BY FS_Subset
<1>3. QED
  BY <1>1, <1>2, OneMore

LEMMA ExecuteCommandOne ==
    ASSUME TablesOK, OneCursorPerResult, NEW r \in Readers, ExecuteCommand(r)
    PROVE  OneCursorPerResult'
<1>1. PICK n \in Nat : n = fresh
  BY DEF TablesOK
<1> DEFINE c == [result |-> n, offset |-> 1, expiresAt |-> now + Lifetime]
<1>2. PICK evicted \in SUBSET LiveResults :
          /\ HasRoomWithout(LiveResults, Results, evicted, MaximumResults)
          /\ Results' = With(Restricted(Results, LiveResults \ evicted), n, now + Lifetime)
  BY <1>1 DEF ExecuteCommand
<1>3. /\ DOMAIN Results' = (LiveResults \ evicted) \cup {n}
      /\ Results'[n] = now + Lifetime
      /\ \A i \in LiveResults \ evicted : i # n => Results'[i] = Results[i]
  BY <1>2 DEF With, Restricted
<1>4. /\ DOMAIN Cursors' = LiveCursors \cup {n + 1}
      /\ Cursors'[n + 1] = c
      /\ \A k \in LiveCursors : k # n + 1 => Cursors'[k] = Cursors[k]
  <2>1. Cursors' = With(Restricted(Cursors, LiveCursors), n + 1, c)
    BY <1>1 DEF ExecuteCommand
  <2> HIDE DEF c
  <2>2. QED
    BY <2>1 DEF With, Restricted
<1>5. c.result = n /\ c.expiresAt = now + Lifetime
  OBVIOUS
<1> HIDE DEF c
<1>6. /\ \A i \in LiveResults : i \in Nat /\ i < n
      /\ \A k \in LiveCursors : k \in Nat /\ k < n /\ Cursors[k].result # n
  BY <1>1, LiveSubset DEF TablesOK, ResultsOK, CursorsOK, TextCursor
<1>7. Capacities /\ EachHasOne
  BY PropertyIs
<1>8. Capacities'
  <2>1. IsFiniteSet(LiveResults)
    BY TablesFinite, LiveSubset, FS_Subset
  <2>2. Cardinality(DOMAIN Results') <= MaximumResults
    BY <1>2, <1>3, <2>1, RoomFor, Limits
  <2>3. QED
    BY <1>7, <2>2 DEF Capacities, ExecuteCommand
<1>9. EachHasOne'
  <2>1. CursorOf(n, n + 1)'
    BY <1>3, <1>4, <1>5, <1>6 DEF CursorOf
  <2>2. ASSUME NEW i \in LiveResults \ evicted PROVE \E k : CursorOf(i, k)'
    <3>1. PICK k \in LiveCursors : CursorOf(i, k)
      BY <1>7, LiveHasOne
    <3>2. Cursors'[k] = Cursors[k] /\ Results'[i] = Results[i] /\ i # n
      BY <1>3, <1>4, <1>6
    <3>3. CursorOf(i, k)'
      BY <1>3, <1>4, <1>5, <1>6, <3>1, <3>2, LiveSubset DEF CursorOf
    <3>4. QED
      BY <3>3
  <2>3. QED
    BY <1>3, <2>1, <2>2 DEF EachHasOne
<1>10. Cardinality(DOMAIN Cursors') <= MaximumResults + 1
  <2>1. IsFiniteSet(LiveCursors) /\ Cardinality(LiveCursors) < MaximumResults + 1
    BY <1>7, FewLiveCursors, Limits
  <2>2. MaximumResults + 1 \in Nat
    BY Limits
  <2>3. Cardinality(LiveCursors \cup {n + 1}) <= MaximumResults + 1
    BY <2>1, <2>2, OneMore
  <2>4. QED
    BY <1>4, <2>3
<1>11. QED
  BY <1>8, <1>9, <1>10 DEF OneCursorPerResult, Capacities, EachHasOne, CursorOf

\* The tables of texts after a read of one.
LEMMA ReadPageOne ==
    ASSUME TablesOK, OneCursorPerResult, ReadPage PROVE OneCursorPerResult'
<1>1. Capacities /\ EachHasOne
  BY PropertyIs
<1>2. PICK n \in Nat : n = fresh
  BY DEF TablesOK
<1>3. /\ \A k \in LiveCursors : k \in Nat /\ k < n
  BY <1>2, LiveSubset DEF TablesOK, CursorsOK
<1>4. IsFiniteSet(LiveCursors) /\ Cardinality(LiveCursors) <= MaximumResults
  BY <1>1, FewLiveCursors
<1>5. ASSUME NEW k, PageRead(k)
      PROVE  EachHasOne' /\ DOMAIN Results' \subseteq LiveResults
             /\ Cardinality(DOMAIN Cursors') <= MaximumResults + 1
  <2> DEFINE c == Cursors[k]
  <2>1. /\ DOMAIN Results' \subseteq LiveResults
        /\ \A i \in DOMAIN Results' : Results'[i] = Results[i]
        /\ DOMAIN Cursors' \subseteq (LiveCursors \ {k}) \cup {n}
        /\ LiveCursors \ {k} \subseteq DOMAIN Cursors'
        /\ \A j \in DOMAIN Cursors' \ {n} : Cursors'[j] = Cursors[j]
        /\ k \in LiveCursors /\ c.result \in LiveResults
    BY <1>2, <1>5, PageReadIs
  <2>2. \/ c.result \notin DOMAIN Results' /\ n \notin DOMAIN Cursors'
        \/ /\ n \in DOMAIN Cursors'
           /\ Cursors'[n].result = c.result
           /\ Cursors'[n].expiresAt = Results[c.result]
    <3>1. n \notin LiveCursors
      BY <1>3
    <3>2. \/ /\ DOMAIN Results' = LiveResults \ {c.result}
             /\ DOMAIN Cursors' = LiveCursors \ {k}
          \/ /\ DOMAIN Cursors' = (LiveCursors \ {k}) \cup {n}
             /\ Cursors'[n].result = c.result
             /\ Cursors'[n].expiresAt = Results[c.result]
      BY <1>2, <1>5, PageReadIs
    <3> HIDE DEF c
    <3>3. QED
      BY <3>1, <3>2
  <2>3. ASSUME NEW i \in DOMAIN Results' PROVE \E j : CursorOf(i, j)'
    <3>1. PICK j \in LiveCursors : CursorOf(i, j)
      BY <1>1, <2>1, LiveHasOne
    <3>2. CASE i = c.result
      <4>1. j = k
        BY <2>1, <3>1, <3>2, LiveSubset DEF CursorOf
      <4>2. CursorOf(i, n)'
        BY <2>1, <2>2, <3>1, <3>2, <4>1, LiveSubset DEF CursorOf
      <4>3. QED
        BY <4>2
    <3>3. CASE i # c.result
      <4>1. j # k /\ j # n
        BY <1>3, <3>1, <3>3 DEF CursorOf
      <4>2. CursorOf(i, j)'
        BY <2>1, <2>2, <3>1, <3>3, <4>1, LiveSubset DEF CursorOf
      <4>3. QED
        BY <4>2
    <3>4. QED
      BY <3>2, <3>3
  <2>4. Cardinality(DOMAIN Cursors') <= MaximumResults + 1
    <3>1. IsFiniteSet(LiveCursors) /\ Cardinality(LiveCursors) < MaximumResults + 1
      BY <1>1, FewLiveCursors, Limits
    <3>2. IsFiniteSet(LiveCursors \cup {n})
          /\ Cardinality(LiveCursors \cup {n}) <= MaximumResults + 1
      BY <3>1, OneMore, Limits
    <3>3. DOMAIN Cursors' \in SUBSET (LiveCursors \cup {n})
      BY <2>1
    <3>4. QED
      BY <3>2, <3>3, SmallerTable, Limits
  <2>5. QED
    BY <2>1, <2>3, <2>4 DEF EachHasOne
<1>6. ASSUME Results' = Restricted(Results, LiveResults), Cursors' = Restricted(Cursors, LiveCursors)
      PROVE  EachHasOne' /\ DOMAIN Results' \subseteq LiveResults
             /\ Cardinality(DOMAIN Cursors') <= MaximumResults + 1
  <2>1. /\ DOMAIN Results' = LiveResults /\ DOMAIN Cursors' = LiveCursors
        /\ \A i \in LiveResults : Results'[i] = Results[i]
        /\ \A k \in LiveCursors : Cursors'[k] = Cursors[k]
    BY <1>6, RestrictedIs
  <2>2. ASSUME NEW i \in DOMAIN Results' PROVE \E k : CursorOf(i, k)'
    <3>1. PICK k \in LiveCursors : CursorOf(i, k)
      BY <1>1, <2>1, LiveHasOne
    <3>2. CursorOf(i, k)'
      BY <2>1, <3>1, LiveSubset DEF CursorOf
    <3>3. QED
      BY <3>2
  <2>3. Cardinality(LiveCursors) <= MaximumResults + 1
    BY <1>1, FewLiveCursors, Limits
  <2>4. QED
    BY <2>1, <2>2, <2>3 DEF EachHasOne
<1>7. EachHasOne' /\ DOMAIN Results' \subseteq LiveResults
      /\ Cardinality(DOMAIN Cursors') <= MaximumResults + 1
  BY <1>5, <1>6, ReadPageIs
<1>8. Cardinality(DOMAIN Results') <= MaximumResults
  <2>1. DOMAIN Results' \in SUBSET DOMAIN Results
    BY <1>7, LiveSubset
  <2>2. QED
    BY <1>1, <2>1, TablesFinite, SmallerTable, Limits DEF Capacities
<1>9. UNCHANGED DiscoveryCursors
  BY ReadPageIs
<1>10. QED
  BY <1>1, <1>7, <1>8, <1>9 DEF OneCursorPerResult, Capacities, EachHasOne, CursorOf

\* The list's cursors keep to their capacity.
LEMMA StoreDiscoveryRoom ==
    ASSUME TablesOK, NEW taken, NEW items, NEW offset, StoreDiscoveryCursor(taken, items, offset)
    PROVE  Cardinality(DOMAIN DiscoveryCursors') <= MaximumDiscoverySnapshots
<1> DEFINE live == LiveDiscovery \ {taken}
           expiry == [k \in live |-> DiscoveryCursors[k].expiresAt]
           c == [items |-> items, offset |-> offset, expiresAt |-> now + Lifetime]
<1>1. PICK evicted \in SUBSET live :
          /\ HasRoomWithout(live, expiry, evicted, MaximumDiscoverySnapshots)
          /\ DiscoveryCursors' = With(Restricted(DiscoveryCursors, live \ evicted), fresh, c)
  BY DEF StoreDiscoveryCursor
<1>2. DOMAIN DiscoveryCursors' = (live \ evicted) \cup {fresh}
  <2> HIDE DEF c, live
  <2>1. QED
    BY <1>1 DEF With, Restricted
<1>3. IsFiniteSet(live)
  BY TablesFinite, LiveSubset, FS_Subset
<1> HIDE DEF live, expiry
<1>4. QED
  BY <1>1, <1>2, <1>3, RoomFor, Limits

LEMMA DiscoverMoreRoom ==
    ASSUME TablesOK, Capacities, DiscoverMore
    PROVE  Cardinality(DOMAIN DiscoveryCursors') <= MaximumDiscoverySnapshots
<1> DEFINE k == Head(queue).cursor
<1>1. CASE k \in LiveDiscovery /\ ~Last(DiscoveryCursors[k].offset)
  <2>1. PICK taken, items, offset : StoreDiscoveryCursor(taken, items, offset)
    BY <1>1 DEF DiscoverMore
  <2>2. QED
    BY <2>1, StoreDiscoveryRoom
<1>2. CASE ~(k \in LiveDiscovery /\ ~Last(DiscoveryCursors[k].offset))
  <2>1. PICK S \in SUBSET LiveDiscovery : DiscoveryCursors' = Restricted(DiscoveryCursors, S)
    BY <1>2 DEF DiscoverMore
  <2>2. DOMAIN DiscoveryCursors' \in SUBSET DOMAIN DiscoveryCursors
    BY <2>1, RestrictedIs, LiveSubset
  <2>3. QED
    BY <2>2, TablesFinite, SmallerTable, Limits DEF Capacities
<1>3. QED
  BY <1>1, <1>2

LEMMA NextOne == TablesOK /\ OneCursorPerResult /\ [Next]_vars => OneCursorPerResult'
<1> SUFFICES ASSUME TablesOK, OneCursorPerResult, [Next]_vars PROVE OneCursorPerResult'
  OBVIOUS
<1>1. ASSUME UNCHANGED <<Results, Cursors>>,
             Cardinality(DOMAIN DiscoveryCursors') <= MaximumDiscoverySnapshots
      PROVE  OneCursorPerResult'
  BY <1>1 DEF OneCursorPerResult
<1>2. ASSUME NEW r \in Readers, DiscoverCommands(r) PROVE OneCursorPerResult'
  <2>1. PICK taken, items, offset : StoreDiscoveryCursor(taken, items, offset)
    BY <1>2 DEF DiscoverCommands
  <2>2. QED
    BY <1>1, <1>2, <2>1, StoreDiscoveryRoom DEF DiscoverCommands
<1>3. CASE DiscoverMore
  BY <1>1, <1>3, DiscoverMoreRoom, PropertyIs DEF DiscoverMore
<1>4. ASSUME NEW r \in Readers, Send(r) \/ Receive(r) \/ Lose(r) PROVE OneCursorPerResult'
  BY <1>1, <1>4 DEF Send, Receive, Lose, gameVars, OneCursorPerResult
<1>5. CASE Tick \/ ChangeRegistry \/ UNCHANGED vars
  BY <1>1, <1>5 DEF Tick, ChangeRegistry, gameVars, vars, OneCursorPerResult
<1>6. QED
  BY <1>2, <1>3, <1>4, <1>5, ExecuteCommandOne, ReadPageOne DEF Next

\* A text is kept exactly as long as a page of it can still be read, by one
\* cursor that expires with it, and no table outgrows its capacity, whatever is
\* evicted, expires or is read twice.
THEOREM OneCursor == Spec => []OneCursorPerResult
BY InitTables, NextTables, InitOne, NextOne, PTL DEF Spec

-----------------------------------------------------------------------------
(* What a reader puts together                                              *)

\* Cursor k, as long as it is in its table, goes on with a page: a text's
\* cursor in one table, the list's in the other.
At(r, k, contents, offset) ==
    /\ k \in Nat /\ k < fresh
    /\ r \in TextReaders /\ k \in DOMAIN Cursors =>
          Cursors[k].result = contents /\ Cursors[k].offset = offset
    /\ r \notin TextReaders /\ k \in DOMAIN DiscoveryCursors =>
          DiscoveryCursors[k].items = contents /\ DiscoveryCursors[k].offset = offset

\* The pages of contents from the first one on.
PagesOf(got, contents) ==
    /\ got \in Seq(Nat \X Nat)
    /\ \A n \in 1 .. Len(got) : got[n] = <<contents, n - 1>>

\* An answer a reader of so many pages may take: the next page, and the cursor
\* of the page after that.
AnswerOK(r, answer, contents, length) ==
    \/ answer.kind = "invalid"
    \/ /\ answer.kind = "page" /\ answer.page = <<contents, length>>
       /\ IF Last(length) THEN answer.cursor = None
                          ELSE At(r, answer.cursor, contents, length + 1)

AnswersOK(r, s, contents) ==
    /\ s.phase = "reading" => s.answer = <<None, None>>
    /\ s.phase = "waiting" =>
          \A a \in {1, 2} :
              s.answer[a] # None => AnswerOK(r, s.answer[a], contents, Len(s.got))

ReaderIs(r, s, contents) ==
    /\ PagesOf(s.got, contents)
    /\ s.phase = "new" => s.got = <<>>
    /\ s.phase = "done" => Len(s.got) = Pages
    /\ s.phase \in {"reading", "waiting"} =>
          Len(s.got) < Pages /\ At(r, s.cursor, contents, Len(s.got))
    /\ AnswersOK(r, s, contents)

Answers ==
    [kind: {"page", "invalid"}, page: (Nat \X Nat) \cup {None}, id: Nat \cup {None},
     cursor: Nat \cup {None}]
ReaderRecord ==
    [phase: {"new", "reading", "waiting", "done", "invalid", "unknown"}, attempt: {1, 2},
     id: Nat \cup {None}, cursor: Nat \cup {None}, got: Seq(Nat \X Nat),
     answer: [{1, 2} -> Answers \cup {None}]]

ReadersOK ==
    /\ reader \in [Readers -> ReaderRecord]
    /\ \A r \in Readers : \E contents \in Nat : ReaderIs(r, reader[r], contents)

\* A cursor goes on with the page it went on with when it was handed out.
TablesKeep ==
    /\ fresh' \in Nat /\ fresh <= fresh'
    /\ \A k \in DOMAIN Cursors' :
          k < fresh => k \in DOMAIN Cursors /\ Cursors'[k].result = Cursors[k].result
                       /\ Cursors'[k].offset = Cursors[k].offset
    /\ \A k \in DOMAIN DiscoveryCursors' :
          k < fresh => /\ k \in DOMAIN DiscoveryCursors
                       /\ DiscoveryCursors'[k].items = DiscoveryCursors[k].items
                       /\ DiscoveryCursors'[k].offset = DiscoveryCursors[k].offset

LEMMA AtKept ==
    ASSUME TablesOK, TablesKeep, NEW r, NEW k, NEW contents, NEW offset,
           At(r, k, contents, offset)
    PROVE  At(r, k, contents, offset)'
BY DEF TablesOK, TablesKeep, At

LEMMA AnswerKept ==
    ASSUME TablesOK, TablesKeep, NEW r, NEW answer, NEW contents, NEW length,
           AnswerOK(r, answer, contents, length)
    PROVE  AnswerOK(r, answer, contents, length)'
BY AtKept DEF AnswerOK, Last

LEMMA ReaderKept ==
    ASSUME TablesOK, TablesKeep, NEW r, NEW s, NEW contents, ReaderIs(r, s, contents)
    PROVE  ReaderIs(r, s, contents)'
BY AtKept, AnswerKept DEF ReaderIs, AnswersOK, PagesOf

\* A step that changes one reader, or none.
LEMMA OneReader ==
    ASSUME TablesOK, TablesKeep, ReadersOK, NEW r, NEW t,
           reader' = [x \in Readers |-> IF x = r THEN t ELSE reader[x]],
           r \in Readers => t \in ReaderRecord /\ \E contents \in Nat : ReaderIs(r, t, contents)'
    PROVE  ReadersOK'
<1>1. ASSUME NEW x \in Readers
      PROVE  reader'[x] \in ReaderRecord /\ \E contents \in Nat : ReaderIs(x, reader[x], contents)'
  <2>1. PICK s \in ReaderRecord : s = reader'[x] /\ \E contents \in Nat : ReaderIs(x, s, contents)'
    <3>1. CASE x = r
      BY <3>1
    <3>2. CASE x # r
      <4>1. PICK s \in ReaderRecord : s = reader[x]
        BY DEF ReadersOK
      <4>2. \E contents \in Nat : ReaderIs(x, s, contents)
        BY <4>1 DEF ReadersOK
      <4>3. QED
        BY <3>2, <4>1, <4>2, ReaderKept
    <3>3. QED
      BY <3>1, <3>2
  <2>2. QED
    BY <2>1
<1>2. QED
  BY <1>1 DEF ReadersOK

LEMMA NoReader == ASSUME TablesOK, TablesKeep, ReadersOK, UNCHANGED reader PROVE ReadersOK'
<1>1. ASSUME NEW x \in Readers
      PROVE  \E contents \in Nat : ReaderIs(x, reader[x], contents)'
  <2>1. PICK s : s = reader[x]
    OBVIOUS
  <2>2. \E contents \in Nat : ReaderIs(x, s, contents)
    BY <2>1 DEF ReadersOK
  <2>3. \E contents \in Nat : ReaderIs(x, s, contents)'
    BY <2>2, ReaderKept
  <2>4. s = reader'[x]
    BY <2>1
  <2>5. QED
    BY <2>3, <2>4
<1>2. QED
  BY <1>1 DEF ReadersOK

\* A reader takes the next page.
LEMMA PageTaken ==
    ASSUME NEW s \in ReaderRecord, NEW answer \in Answers, NEW r, NEW contents \in Nat,
           PagesOf(s.got, contents), Len(s.got) < Pages,
           answer.page = <<contents, Len(s.got)>>,
           IF Last(Len(s.got)) THEN answer.cursor = None
                               ELSE At(r, answer.cursor, contents, Len(s.got) + 1)',
           NEW t,
           t = [s EXCEPT !.phase = IF answer.cursor = None THEN "done" ELSE "reading",
                         !.attempt = 1, !.id = answer.id, !.cursor = answer.cursor,
                         !.got = Append(s.got, answer.page), !.answer = <<None, None>>]
    PROVE  t \in ReaderRecord /\ ReaderIs(r, t, contents)'
<1>1. /\ s.got \in Seq(Nat \X Nat) /\ Len(s.got) \in Nat /\ answer.page \in Nat \X Nat
      /\ answer.id \in Nat \cup {None} /\ answer.cursor \in Nat \cup {None}
  BY DEF PagesOf, Answers
<1>2. <<None, None>> \in [{1, 2} -> Answers \cup {None}]
  <2>1. DOMAIN <<None, None>> = {1, 2}
    OBVIOUS
  <2>2. QED
    BY <2>1
<1> DEFINE got == Append(s.got, answer.page)
<1>3. /\ got \in Seq(Nat \X Nat) /\ Len(got) = Len(s.got) + 1
      /\ \A n \in 1 .. Len(got) : got[n] = <<contents, n - 1>>
  BY <1>1 DEF PagesOf
<1> HIDE DEF got
<1>4. /\ t \in ReaderRecord /\ t.got = got /\ t.answer = <<None, None>>
      /\ t.cursor = answer.cursor
      /\ t.phase = IF answer.cursor = None THEN "done" ELSE "reading"
  <2>1. t = [s EXCEPT !.phase = IF answer.cursor = None THEN "done" ELSE "reading",
                      !.attempt = 1, !.id = answer.id, !.cursor = answer.cursor,
                      !.got = got, !.answer = <<None, None>>]
    BY DEF got
  <2>2. PICK nothing \in [{1, 2} -> Answers \cup {None}] : nothing = <<None, None>>
    BY <1>2
  <2>3. QED
    BY <1>1, <1>3, <2>1, <2>2 DEF ReaderRecord
<1>5. Last(Len(s.got)) <=> Len(got) = Pages
  BY <1>3 DEF Last
<1>6. PagesOf(t.got, contents)'
  BY <1>3, <1>4 DEF PagesOf
<1>7. AnswersOK(r, t, contents)'
  BY <1>4 DEF AnswersOK
<1>8. t.phase \in {"done", "reading"} /\ (t.phase = "done" <=> answer.cursor = None)
  BY <1>4
<1>9. t.phase = "done" => Len(t.got) = Pages
  <2>1. ~Last(Len(s.got)) => answer.cursor # None
    BY NoneAssumption DEF At
  <2>2. QED
    BY <1>4, <1>5, <1>8, <2>1
<1>10. ASSUME t.phase = "reading"
       PROVE  Len(t.got) < Pages /\ At(r, t.cursor, contents, Len(t.got))'
  <2>1. ~Last(Len(s.got))
    BY <1>8, <1>10
  <2>2. Len(t.got) < Pages
    BY <1>1, <1>3, <1>4, <1>5, <2>1, Limits
  <2>3. At(r, t.cursor, contents, Len(t.got))'
    BY <1>3, <1>4, <2>1 DEF At
  <2>4. QED
    BY <2>2, <2>3
<1>11. QED
  BY <1>4, <1>6, <1>7, <1>8, <1>9, <1>10 DEF ReaderIs

\* A waiting reader is answered.
LEMMA ReaderAnswered ==
    ASSUME NEW s \in ReaderRecord, NEW answer \in Answers, NEW r, NEW contents \in Nat, NEW a,
           ReaderIs(r, s, contents)', s.phase = "waiting",
           AnswerOK(r, answer, contents, Len(s.got))',
           NEW t, t = [s EXCEPT !.answer[a] = answer]
    PROVE  t \in ReaderRecord /\ ReaderIs(r, t, contents)'
<1>1. s.answer \in [{1, 2} -> Answers \cup {None}]
  BY DEF ReaderRecord
<1> DEFINE answers == [s.answer EXCEPT ![a] = answer]
<1>2. answers \in [{1, 2} -> Answers \cup {None}]
      /\ \A b \in {1, 2} : answers[b] = IF b = a THEN answer ELSE s.answer[b]
  BY <1>1
<1>3. t = [s EXCEPT !.answer = answers]
  OBVIOUS
<1> HIDE DEF answers
<1>4. t \in ReaderRecord /\ t.answer = answers /\ t.got = s.got /\ t.phase = s.phase
      /\ t.cursor = s.cursor
  BY <1>2, <1>3 DEF ReaderRecord
<1>5. \A b \in {1, 2} : t.answer[b] # None => AnswerOK(r, t.answer[b], contents, Len(t.got))'
  BY <1>2, <1>4 DEF ReaderIs, AnswersOK
<1>6. QED
  BY <1>4, <1>5 DEF ReaderIs, AnswersOK, PagesOf

LEMMA InvalidIs == Invalid \in Answers /\ Invalid.kind = "invalid"
BY DEF Invalid, Answers

\* A reader that is new takes the first page.
LEMMA FirstPageTaken ==
    ASSUME TablesOK, TablesKeep, ReadersOK, NEW r \in Readers, reader[r].phase = "new",
           NEW contents \in Nat, NEW id \in Nat \cup {None}, NEW cursor \in Nat,
           At(r, cursor, contents, 1)', reader' = Take(r, Page(contents, 0, id, cursor))
    PROVE  ReadersOK'
<1>1. PICK s \in ReaderRecord : s = reader[r]
  BY DEF ReadersOK
<1>2. s.got = <<>> /\ s.phase = "new"
  BY <1>1 DEF ReadersOK, ReaderIs
<1>3. PICK answer : answer = Page(contents, 0, id, cursor)
  OBVIOUS
<1>4. /\ answer \in Answers /\ answer.kind = "page"
      /\ answer.page = <<contents, 0>> /\ answer.cursor = cursor
  BY <1>3 DEF Page, Answers
<1> DEFINE u == [s EXCEPT !.phase = IF answer.cursor = None THEN "done" ELSE "reading",
                          !.attempt = 1, !.id = answer.id, !.cursor = answer.cursor,
                          !.got = Append(s.got, answer.page), !.answer = <<None, None>>]
<1>t. PICK t : t = u
  OBVIOUS
<1>5. reader' = [x \in Readers |-> IF x = r THEN t ELSE reader[x]]
  <2>1. reader' = Take(r, answer) /\ answer.kind # "invalid"
    BY <1>3, <1>4
  <2>2. Take(r, answer) = [x \in Readers |-> IF x = r THEN t ELSE reader[x]]
    BY <1>1, <1>t, <2>1 DEF Take, ReadersOK
  <2>3. QED
    BY <2>1, <2>2
<1>6. PagesOf(s.got, contents) /\ Len(s.got) = 0
  BY <1>2 DEF PagesOf
<1>7. t \in ReaderRecord /\ ReaderIs(r, t, contents)'
  <2>1. ~Last(0) /\ 0 < Pages
    BY Limits DEF Last
  <2>2. At(r, answer.cursor, contents, Len(s.got) + 1)'
    BY <1>4, <1>6 DEF At
  <2>3. IF Last(Len(s.got)) THEN answer.cursor = None
                            ELSE At(r, answer.cursor, contents, Len(s.got) + 1)'
    BY <1>6, <2>1, <2>2
  <2>4. QED
    BY <1>4, <1>6, <1>t, <2>1, <2>3, PageTaken
<1>8. QED
  BY <1>5, <1>7, OneReader

\* The phase of a reader becomes one in which nothing is promised any more.
LEMMA GivesUp ==
    ASSUME TablesOK, TablesKeep, ReadersOK, NEW r \in Readers, NEW phase \in {"unknown", "invalid"},
           reader' = [x \in Readers |-> IF x # r THEN reader[x]
                                        ELSE [reader[r] EXCEPT !.phase = phase]]
    PROVE  ReadersOK'
<1>1. PICK s \in ReaderRecord : s = reader[r]
  BY DEF ReadersOK
<1>2. PICK contents \in Nat : ReaderIs(r, s, contents)
  BY <1>1 DEF ReadersOK
<1>3. PICK t : t = [s EXCEPT !.phase = phase]
  OBVIOUS
<1>4. t \in ReaderRecord /\ t.got = s.got /\ t.phase \in {"unknown", "invalid"}
  BY <1>3 DEF ReaderRecord
<1>5. ReaderIs(r, t, contents)'
  BY <1>2, <1>4 DEF ReaderIs, AnswersOK, PagesOf
<1>6. reader' = [x \in Readers |-> IF x = r THEN t ELSE reader[x]]
  BY <1>1, <1>3
<1>7. QED
  BY <1>4, <1>5, <1>6, OneReader

LEMMA ExecuteCommandReaders ==
    ASSUME TablesOK, ReadersOK, NEW r \in Readers, ExecuteCommand(r) PROVE ReadersOK'
<1>1. PICK n \in Nat : n = fresh
  BY DEF TablesOK
<1> DEFINE c == [result |-> n, offset |-> 1, expiresAt |-> now + Lifetime]
<1>2. /\ DOMAIN Cursors' = LiveCursors \cup {n + 1}
      /\ Cursors'[n + 1] = c
      /\ \A k \in LiveCursors : k # n + 1 => Cursors'[k] = Cursors[k]
  <2>1. Cursors' = With(Restricted(Cursors, LiveCursors), n + 1, c)
    BY <1>1 DEF ExecuteCommand
  <2> HIDE DEF c
  <2>2. QED
    BY <2>1 DEF With, Restricted
<1>3. c.result = n /\ c.offset = 1
  OBVIOUS
<1> HIDE DEF c
<1>4. fresh' = n + 2 /\ UNCHANGED DiscoveryCursors /\ r \in TextReaders /\ reader[r].phase = "new"
  BY <1>1 DEF ExecuteCommand
<1>5. TablesKeep
  BY <1>1, <1>2, <1>4, LiveSubset DEF TablesKeep
<1>6. CASE reader' = Take(r, Page(fresh, 0, fresh, fresh + 1))
  <2>1. At(r, n + 1, n, 1)'
    BY <1>2, <1>3, <1>4 DEF At
  <2>2. n + 1 \in Nat /\ reader' = Take(r, Page(n, 0, n, n + 1))
    BY <1>1, <1>6
  <2>3. QED
    BY <1>4, <1>5, <2>1, <2>2, FirstPageTaken
<1>7. CASE reader' = [reader EXCEPT ![r].phase = "unknown"]
  <2>1. reader' = [x \in Readers |-> IF x # r THEN reader[x]
                                     ELSE [reader[r] EXCEPT !.phase = "unknown"]]
    BY <1>7 DEF ReadersOK
  <2>2. QED
    BY <1>5, <2>1, GivesUp
<1>8. QED
  BY <1>6, <1>7 DEF ExecuteCommand

\* The cursor of the next page of the list.
LEMMA StoreDiscoveryIs ==
    ASSUME TablesOK, NEW n, n = fresh, NEW taken, NEW items, NEW offset,
           StoreDiscoveryCursor(taken, items, offset), fresh' = n + 1, UNCHANGED Cursors
    PROVE  TablesKeep /\ \A r : r \notin TextReaders => At(r, n, items, offset)'
<1> DEFINE live == LiveDiscovery \ {taken}
           c == [items |-> items, offset |-> offset, expiresAt |-> now + Lifetime]
<1>1. PICK evicted \in SUBSET live :
          DiscoveryCursors' = With(Restricted(DiscoveryCursors, live \ evicted), n, c)
  BY DEF StoreDiscoveryCursor
<1>2. c.items = items /\ c.offset = offset
  OBVIOUS
<1> HIDE DEF c
<1>3. /\ DOMAIN DiscoveryCursors' = (live \ evicted) \cup {n}
      /\ DiscoveryCursors'[n] = c
      /\ \A k \in live \ evicted : k # n => DiscoveryCursors'[k] = DiscoveryCursors[k]
  BY <1>1 DEF With, Restricted
<1>4. n \in Nat /\ live \ evicted \subseteq DOMAIN DiscoveryCursors
  BY LiveSubset DEF TablesOK
<1> HIDE DEF live
<1>5. TablesKeep
  BY <1>3, <1>4 DEF TablesKeep
<1>6. ASSUME NEW r, r \notin TextReaders PROVE At(r, n, items, offset)'
  BY <1>2, <1>3, <1>4, <1>6 DEF At
<1>7. QED
  BY <1>5, <1>6

LEMMA DiscoverCommandsReaders ==
    ASSUME TablesOK, ReadersOK, NEW r \in Readers, DiscoverCommands(r) PROVE ReadersOK'
<1>1. PICK n \in Nat : n = fresh
  BY DEF TablesOK
<1>2. PICK items \in Nat : items = registry
  BY DEF TablesOK
<1>3. /\ r \notin TextReaders /\ reader[r].phase = "new"
      /\ fresh' = n + 1 /\ UNCHANGED Cursors
  BY <1>1, Limits DEF DiscoverCommands
<1>4. StoreDiscoveryCursor(None, items, 1)
  BY <1>2 DEF DiscoverCommands, StoreDiscoveryCursor
<1>5. TablesKeep /\ At(r, n, items, 1)'
  BY <1>1, <1>3, <1>4, StoreDiscoveryIs
<1>6. CASE reader' = Take(r, Page(registry, 0, None, fresh))
  <2>1. reader' = Take(r, Page(items, 0, None, n))
    BY <1>1, <1>2, <1>6
  <2>2. QED
    BY <1>3, <1>5, <2>1, FirstPageTaken
<1>7. CASE UNCHANGED reader
  BY <1>5, <1>7, NoReader
<1>8. QED
  BY <1>6, <1>7 DEF DiscoverCommands

LEMMA SendReaders == ASSUME TablesOK, ReadersOK, NEW r \in Readers, Send(r) PROVE ReadersOK'
<1>1. TablesKeep
  BY DEF Send, gameVars, TablesKeep, TablesOK
<1>2. PICK s \in ReaderRecord : s = reader[r]
  BY DEF ReadersOK
<1>3. PICK contents \in Nat : ReaderIs(r, s, contents)'
  BY <1>1, <1>2, ReaderKept DEF ReadersOK
<1>4. PICK t : t = [s EXCEPT !.phase = "waiting"]
  OBVIOUS
<1>5. t \in ReaderRecord /\ t.got = s.got /\ t.phase = "waiting" /\ t.cursor = s.cursor
      /\ t.answer = s.answer
  BY <1>4 DEF ReaderRecord
<1>6. s.phase = "reading"
  BY <1>2 DEF Send
<1>7. s.answer = <<None, None>> /\ Len(s.got) < Pages /\ PagesOf(s.got, contents)
      /\ At(r, s.cursor, contents, Len(s.got))'
  BY <1>3, <1>6 DEF ReaderIs, AnswersOK, PagesOf
<1>8. \A a \in {1, 2} : t.answer[a] = None
  BY <1>5, <1>7
<1>9. ReaderIs(r, t, contents)'
  <2>1. At(r, t.cursor, contents, Len(t.got))'
    BY <1>5, <1>7 DEF At
  <2>2. AnswersOK(r, t, contents)'
    BY <1>5, <1>8 DEF AnswersOK
  <2>3. PagesOf(t.got, contents)'
    BY <1>5, <1>7 DEF PagesOf
  <2>4. QED
    BY <1>5, <1>7, <2>1, <2>2, <2>3 DEF ReaderIs
<1>10. reader' = [x \in Readers |-> IF x = r THEN t ELSE reader[x]]
  BY <1>2, <1>4 DEF Send, ReadersOK
<1>11. QED
  BY <1>1, <1>5, <1>9, <1>10, OneReader

LEMMA LoseReaders == ASSUME TablesOK, ReadersOK, NEW r \in Readers, Lose(r) PROVE ReadersOK'
<1>1. TablesKeep
  BY DEF Lose, gameVars, TablesKeep, TablesOK
<1>2. CASE reader' = [reader EXCEPT ![r].attempt = 2]
  <2>1. PICK s \in ReaderRecord : s = reader[r]
    BY DEF ReadersOK
  <2>2. PICK contents \in Nat : ReaderIs(r, s, contents)'
    BY <1>1, <2>1, ReaderKept DEF ReadersOK
  <2>3. PICK t : t = [s EXCEPT !.attempt = 2]
    OBVIOUS
  <2>4. t \in ReaderRecord /\ t.got = s.got /\ t.phase = s.phase /\ t.cursor = s.cursor
        /\ t.answer = s.answer
    BY <2>3 DEF ReaderRecord
  <2>5. ReaderIs(r, t, contents)'
    BY <2>2, <2>4 DEF ReaderIs, AnswersOK, PagesOf, AnswerOK, At
  <2>6. reader' = [x \in Readers |-> IF x = r THEN t ELSE reader[x]]
    BY <1>2, <2>1, <2>3 DEF ReadersOK
  <2>7. QED
    BY <1>1, <2>4, <2>5, <2>6, OneReader
<1>3. CASE reader' = [reader EXCEPT ![r].phase = "unknown"]
  <2>1. reader' = [x \in Readers |-> IF x # r THEN reader[x]
                                     ELSE [reader[r] EXCEPT !.phase = "unknown"]]
    BY <1>3 DEF ReadersOK
  <2>2. QED
    BY <1>1, <2>1, GivesUp
<1>4. QED
  BY <1>2, <1>3 DEF Lose

LEMMA ReceiveReaders ==
    ASSUME TablesOK, ReadersOK, NEW r \in Readers, Receive(r) PROVE ReadersOK'
<1>1. TablesKeep
  BY DEF Receive, gameVars, TablesKeep, TablesOK
<1>2. PICK s \in ReaderRecord : s = reader[r]
  BY DEF ReadersOK
<1>3. PICK contents \in Nat : ReaderIs(r, s, contents)
  BY <1>2 DEF ReadersOK
<1>4. PICK answer : answer = s.answer[s.attempt]
  OBVIOUS
<1>5. s.phase = "waiting" /\ answer # None /\ reader' = Take(r, answer)
  BY <1>2, <1>4 DEF Receive
<1>6. answer \in Answers /\ AnswerOK(r, answer, contents, Len(s.got))
  <2>1. s.attempt \in {1, 2} /\ s.answer[s.attempt] \in Answers \cup {None}
    BY DEF ReaderRecord
  <2>2. answer \in Answers
    BY <1>4, <1>5, <2>1
  <2>3. PICK a \in {1, 2} : a = s.attempt
    BY <2>1
  <2>4. s.answer[a] # None => AnswerOK(r, s.answer[a], contents, Len(s.got))
    BY <1>3, <1>5 DEF ReaderIs, AnswersOK
  <2>5. answer = s.answer[a]
    BY <1>4, <2>3
  <2>6. QED
    BY <1>5, <2>2, <2>4, <2>5
<1>7. CASE answer.kind = "invalid"
  <2>1. reader' = [x \in Readers |-> IF x # r THEN reader[x]
                                     ELSE [reader[r] EXCEPT !.phase = "invalid"]]
    BY <1>5, <1>7 DEF Take, ReadersOK
  <2>2. QED
    BY <1>1, <2>1, GivesUp
<1>8. CASE answer.kind # "invalid"
  <2>1. PICK t : t = [s EXCEPT !.phase = IF answer.cursor = None THEN "done" ELSE "reading",
                               !.attempt = 1, !.id = answer.id, !.cursor = answer.cursor,
                               !.got = Append(s.got, answer.page), !.answer = <<None, None>>]
    OBVIOUS
  <2>2. reader' = [x \in Readers |-> IF x = r THEN t ELSE reader[x]]
    BY <1>2, <1>5, <1>8, <2>1 DEF Take, ReadersOK
  <2>3. AnswerOK(r, answer, contents, Len(s.got))'
    BY <1>1, <1>6, AnswerKept
  <2>4. /\ answer.page = <<contents, Len(s.got)>>
        /\ IF Last(Len(s.got)) THEN answer.cursor = None
                               ELSE At(r, answer.cursor, contents, Len(s.got) + 1)'
    BY <1>8, <2>3 DEF AnswerOK, Last
  <2>5. PagesOf(s.got, contents) /\ Len(s.got) < Pages
    BY <1>3, <1>5 DEF ReaderIs
  <2>6. t \in ReaderRecord /\ ReaderIs(r, t, contents)'
    BY <1>6, <2>1, <2>4, <2>5, PageTaken
  <2>7. QED
    BY <1>1, <2>2, <2>6, OneReader
<1>9. QED
  BY <1>7, <1>8

\* A read is answered: what matters is a reader who waits for that cursor.
LEMMA AnswerTold ==
    ASSUME TablesOK, TablesKeep, ReadersOK, NEW q, NEW answer \in Answers, AnswerTo(q, answer),
           \A s \in ReaderRecord, contents \in Nat :
              s.cursor = q.cursor /\ s.phase = "waiting" /\ ReaderIs(q.reader, s, contents)
                 => AnswerOK(q.reader, answer, contents, Len(s.got))'
    PROVE  ReadersOK'
<1>1. PICK r, a : r = q.reader /\ a = q.attempt
  OBVIOUS
<1>2. CASE UNCHANGED reader
  BY <1>2, NoReader
<1>3. CASE /\ r \in Readers /\ reader[r].cursor = q.cursor /\ reader[r].phase = "waiting"
           /\ reader' = [reader EXCEPT ![r].answer[a] = answer]
  <2>1. PICK s \in ReaderRecord : s = reader[r]
    BY <1>3 DEF ReadersOK
  <2>2. PICK contents \in Nat : ReaderIs(r, s, contents)
    BY <1>3, <2>1 DEF ReadersOK
  <2>3. PICK t : t = [s EXCEPT !.answer[a] = answer]
    OBVIOUS
  <2>4. ReaderIs(r, s, contents)'
    BY <2>2, ReaderKept
  <2>5. AnswerOK(r, answer, contents, Len(s.got))'
    BY <1>1, <1>3, <2>1, <2>2
  <2>6. s.phase = "waiting"
    BY <1>3, <2>1
  <2>7. t \in ReaderRecord /\ ReaderIs(r, t, contents)'
    BY <2>3, <2>4, <2>5, <2>6, ReaderAnswered
  <2>8. reader' = [x \in Readers |-> IF x = r THEN t ELSE reader[x]]
    BY <1>3, <2>1, <2>3 DEF ReadersOK
  <2>9. QED
    BY <2>7, <2>8, OneReader
<1>4. QED
  <2>1. CASE reader[q.reader].cursor = q.cursor /\ reader[q.reader].phase = "waiting"
             /\ r \in Readers
    BY <1>1, <1>3, <2>1 DEF AnswerTo
  <2>2. CASE ~(reader[q.reader].cursor = q.cursor /\ reader[q.reader].phase = "waiting")
    BY <1>2, <2>2 DEF AnswerTo
  <2>3. CASE r \notin Readers
    <3>1. [reader EXCEPT ![r].answer[a] = answer] = reader
      BY <2>3 DEF ReadersOK
    <3>2. QED
      BY <1>1, <1>2, <3>1 DEF AnswerTo
  <2>4. QED
    BY <2>1, <2>2, <2>3

LEMMA ReadPageReaders == ASSUME TablesOK, ReadersOK, ReadPage PROVE ReadersOK'
<1>1. PICK n \in Nat : n = fresh
  BY DEF TablesOK
<1>2. PICK q, k : q = Head(queue) /\ k = q.cursor
  OBVIOUS
<1>3. q.reader \in TextReaders /\ fresh' = n + 1 /\ UNCHANGED DiscoveryCursors
  BY <1>1, <1>2 DEF ReadPage
<1>4. CASE k \in LiveCursors /\ Cursors[k].result = q.id
  <2>1. PageRead(k)
    BY <1>2, <1>4 DEF ReadPage, PageRead
  <2>2. PICK c : c = Cursors[k]
    OBVIOUS
  <2>3. PICK i \in Nat, o \in Nat : i = c.result /\ o = c.offset
    BY <2>1, <2>2, PageReadIs DEF TextCursor
  <2>4. /\ k \in DOMAIN Cursors
        /\ ~Last(o) => n \in DOMAIN Cursors' /\ Cursors'[n].result = i
                       /\ Cursors'[n].offset = o + 1
        /\ DOMAIN Cursors' \subseteq DOMAIN Cursors \cup {n}
        /\ \A j \in DOMAIN Cursors' : j # n => Cursors'[j] = Cursors[j]
    BY <1>1, <2>1, <2>2, <2>3, PageReadIs, LiveSubset
  <2>5. TablesKeep
    BY <1>1, <1>3, <2>4 DEF TablesKeep
  <2>6. PICK answer : answer = Page(i, o, i, IF Last(o) THEN None ELSE n)
    OBVIOUS
  <2>7. answer \in Answers /\ answer.kind = "page" /\ answer.page = <<i, o>>
        /\ answer.cursor = IF Last(o) THEN None ELSE n
    BY <2>6 DEF Page, Answers
  <2>8. AnswerTo(q, answer)
    BY <1>1, <1>2, <1>4, <2>2, <2>3, <2>6 DEF ReadPage, AnswerTo
  <2>9. ASSUME NEW s \in ReaderRecord, NEW contents \in Nat, s.cursor = q.cursor,
               s.phase = "waiting", ReaderIs(q.reader, s, contents)
        PROVE  AnswerOK(q.reader, answer, contents, Len(s.got))'
    <3>1. At(q.reader, k, contents, Len(s.got))
      BY <1>2, <2>9 DEF ReaderIs, At
    <3>2. i = contents /\ o = Len(s.got)
      BY <1>3, <2>2, <2>3, <2>4, <3>1 DEF At
    <3>3. ~Last(o) => At(q.reader, answer.cursor, contents, o + 1)'
      BY <1>3, <2>4, <2>7, <3>2 DEF At
    <3>4. AnswerOK(q.reader, answer, contents, o)'
      BY <2>7, <3>2, <3>3 DEF AnswerOK, Last
    <3>5. QED
      BY <3>2, <3>4 DEF AnswerOK, At, Last
  <2>10. QED
    BY <2>5, <2>7, <2>8, <2>9, AnswerTold
<1>5. CASE ~(k \in LiveCursors /\ Cursors[k].result = q.id)
  <2>1. Cursors' = Restricted(Cursors, LiveCursors)
    BY <1>2, <1>5 DEF ReadPage
  <2>2. TablesKeep
    BY <1>1, <1>3, <2>1, RestrictedIs, LiveSubset DEF TablesKeep
  <2>3. PICK answer \in Answers : answer = Invalid /\ answer.kind = "invalid"
    BY InvalidIs
  <2>4. AnswerTo(q, answer)
    BY <1>2, <1>5, <2>3 DEF ReadPage, AnswerTo
  <2>5. \A r, contents, length : AnswerOK(r, answer, contents, length)'
    BY <2>3 DEF AnswerOK
  <2>6. QED
    BY <2>2, <2>4, <2>5, AnswerTold
<1>6. QED
  BY <1>4, <1>5

LEMMA DiscoverMoreReaders == ASSUME TablesOK, ReadersOK, DiscoverMore PROVE ReadersOK'
<1>1. PICK n \in Nat : n = fresh
  BY DEF TablesOK
<1>2. PICK q, k : q = Head(queue) /\ k = q.cursor
  OBVIOUS
<1>3. q.reader \notin TextReaders /\ fresh' = n + 1 /\ UNCHANGED Cursors
  BY <1>1, <1>2, Limits DEF DiscoverMore
<1>4. CASE k \in LiveDiscovery
  <2>1. k \in DOMAIN DiscoveryCursors /\ DiscoveryCursors[k] \in ListCursor
    BY <1>4, LiveSubset DEF TablesOK, DiscoveryOK
  <2>2. PICK i \in Nat, o \in Nat : i = DiscoveryCursors[k].items /\ o = DiscoveryCursors[k].offset
    BY <2>1 DEF ListCursor
  <2>3. TablesKeep /\ (~Last(o) => At(q.reader, n, i, o + 1)')
    <3>1. CASE Last(o)
      <4>1. DiscoveryCursors' = Restricted(DiscoveryCursors, LiveDiscovery \ {k})
        BY <1>2, <1>4, <2>2, <3>1 DEF DiscoverMore
      <4>2. QED
        BY <1>1, <1>3, <3>1, <4>1, RestrictedIs, LiveSubset DEF TablesKeep
    <3>2. CASE ~Last(o)
      <4>1. StoreDiscoveryCursor(k, i, o + 1)
        BY <1>2, <1>4, <2>2, <3>2
        DEF DiscoverMore, StoreDiscoveryCursor, Items, NextOffset
      <4>2. QED
        BY <1>1, <1>3, <4>1, StoreDiscoveryIs
    <3>3. QED
      BY <3>1, <3>2
  <2>4. PICK answer : answer = Page(i, o, None, IF Last(o) THEN None ELSE n)
    OBVIOUS
  <2>5. answer \in Answers /\ answer.kind = "page" /\ answer.page = <<i, o>>
        /\ answer.cursor = IF Last(o) THEN None ELSE n
    BY <2>4 DEF Page, Answers
  <2>6. AnswerTo(q, answer)
    BY <1>1, <1>2, <1>4, <2>2, <2>4 DEF DiscoverMore, AnswerTo, Items
  <2>7. ASSUME NEW s \in ReaderRecord, NEW contents \in Nat, s.cursor = q.cursor,
               s.phase = "waiting", ReaderIs(q.reader, s, contents)
        PROVE  AnswerOK(q.reader, answer, contents, Len(s.got))'
    <3>1. At(q.reader, k, contents, Len(s.got))
      BY <1>2, <2>7 DEF ReaderIs, At
    <3>2. i = contents /\ o = Len(s.got)
      BY <1>3, <2>1, <2>2, <3>1 DEF At
    <3>3. ~Last(o) => At(q.reader, answer.cursor, contents, o + 1)'
      BY <2>3, <2>5, <3>2 DEF At
    <3>4. AnswerOK(q.reader, answer, contents, o)'
      BY <2>5, <3>2, <3>3 DEF AnswerOK, Last
    <3>5. QED
      BY <3>2, <3>4 DEF AnswerOK, At, Last
  <2>8. QED
    BY <2>3, <2>5, <2>6, <2>7, AnswerTold
<1>5. CASE k \notin LiveDiscovery
  <2>1. DiscoveryCursors' = Restricted(DiscoveryCursors, LiveDiscovery)
    BY <1>2, <1>5 DEF DiscoverMore
  <2>2. TablesKeep
    BY <1>1, <1>3, <2>1, RestrictedIs, LiveSubset DEF TablesKeep
  <2>3. PICK answer \in Answers : answer = Invalid /\ answer.kind = "invalid"
    BY InvalidIs
  <2>4. AnswerTo(q, answer)
    BY <1>2, <1>5, <2>3 DEF DiscoverMore, AnswerTo
  <2>5. \A r, contents, length : AnswerOK(r, answer, contents, length)'
    BY <2>3 DEF AnswerOK
  <2>6. QED
    BY <2>2, <2>4, <2>5, AnswerTold
<1>6. QED
  BY <1>4, <1>5

LEMMA InitReaders == Init => ReadersOK
<1> SUFFICES ASSUME Init PROVE ReadersOK
  OBVIOUS
<1>1. PICK s : s = [phase |-> "new", attempt |-> 1, id |-> None, cursor |-> None,
                    got |-> <<>>, answer |-> <<None, None>>]
  OBVIOUS
<1>2. <<None, None>> \in [{1, 2} -> Answers \cup {None}]
  <2>1. DOMAIN <<None, None>> = {1, 2}
    OBVIOUS
  <2>2. QED
    BY <2>1
<1>3. s \in ReaderRecord
  BY <1>1, <1>2 DEF ReaderRecord
<1>4. \A r : ReaderIs(r, s, 0)
  BY <1>1 DEF ReaderIs, AnswersOK, PagesOf
<1>5. reader = [r \in Readers |-> s]
  BY <1>1 DEF Init
<1>6. QED
  BY <1>3, <1>4, <1>5 DEF ReadersOK

LEMMA NextReaders == TablesOK /\ ReadersOK /\ [Next]_vars => ReadersOK'
<1> SUFFICES ASSUME TablesOK, ReadersOK, [Next]_vars PROVE ReadersOK'
  OBVIOUS
<1>1. CASE Tick \/ ChangeRegistry \/ UNCHANGED vars
  <2>1. TablesKeep /\ UNCHANGED reader
    BY <1>1 DEF Tick, ChangeRegistry, vars, gameVars, TablesKeep, TablesOK
  <2>2. QED
    BY <2>1, NoReader
<1>2. QED
  BY <1>1, ExecuteCommandReaders, DiscoverCommandsReaders, SendReaders, ReceiveReaders,
     LoseReaders, ReadPageReaders, DiscoverMoreReaders DEF Next

LEMMA ReadersContiguous == ReadersOK => PagesContiguous
<1> SUFFICES ASSUME ReadersOK, NEW r \in Readers
             PROVE  LET got == reader[r].got IN
                    /\ \A n \in 1 .. Len(got) : got[n] = <<got[1][1], n - 1>>
                    /\ reader[r].phase = "done" => Len(got) = Pages
  BY DEF PagesContiguous
<1>1. PICK s \in ReaderRecord : s = reader[r]
  BY DEF ReadersOK
<1>2. PICK contents \in Nat : ReaderIs(r, s, contents)
  BY <1>1 DEF ReadersOK
<1>3. /\ \A n \in 1 .. Len(s.got) : s.got[n] = <<contents, n - 1>>
      /\ Len(s.got) \in Nat /\ (s.phase = "done" => Len(s.got) = Pages)
  BY <1>2 DEF ReaderIs, PagesOf
<1>4. ASSUME NEW n \in 1 .. Len(s.got) PROVE s.got[n] = <<s.got[1][1], n - 1>>
  <2>1. 1 \in 1 .. Len(s.got)
    BY <1>3
  <2>2. s.got[1][1] = contents
    BY <1>3, <2>1
  <2>3. QED
    BY <1>3, <2>2
<1>5. QED
  BY <1>1, <1>3, <1>4

\* A reader's pages are those of one text, or of one version of the list, from
\* the first on with none skipped or repeated, and all of them once it is done,
\* whatever is lost, asked twice, evicted or registered in between.
THEOREM Contiguous == Spec => []PagesContiguous
BY InitTables, NextTables, InitReaders, NextReaders, ReadersContiguous, PTL DEF Spec
=============================================================================
