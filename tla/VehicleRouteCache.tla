-------------------------- MODULE VehicleRouteCache --------------------------
(***************************************************************************)
(* FPathFinderVehicleRouteCache: which directed segments the routes of the *)
(* vehicles use, how many vehicles use each, and which are to be drawn     *)
(* again.  The map and the tracer each have a cache of their own, so it is *)
(* a value, and an operation an operator on it.  A vehicle is traced when  *)
(* its route is new; that the network changed is not noticed.              *)
(***************************************************************************)
EXTENDS VehiclePaths

CONSTANT Unresolved     \* vehicles for which no path preset can be found

EmptyCache ==
    [entries |-> << >>,     \* CacheEntriesByVehicle
     counts |-> << >>,      \* RouteSegmentReferenceCounts
     samples |-> << >>,     \* PaintSamplesBySegmentKey
     dirty |-> {},          \* DirtySegmentKeys
     membershipChanged |-> FALSE]   \* of an update's result: bRouteMembershipChanged

Counted(cache) == DOMAIN cache.counts
Count(cache, k) == IF k \in Counted(cache) THEN cache.counts[k] ELSE 0

\* The first sample of a segment is kept while anybody uses the segment.
AddRouteContribution(cache, entry) ==
    LET keys == IF entry.valid THEN DOMAIN entry.samples ELSE {}
        new == {k \in keys : Count(cache, k) = 0}
    IN  [cache EXCEPT
            !.counts = Merged([k \in keys |-> Count(cache, k) + 1], @),
            !.samples = Merged(@, entry.samples),
            !.dirty = @ \cup new, !.membershipChanged = @ \/ new # {}]

KeysGivenBack(cache, entry) ==
    IF entry.valid THEN DOMAIN entry.samples \cap Counted(cache) ELSE {}
WithFewerUsers(cache, keys, unused) ==
    [cache EXCEPT
        !.counts = Merged([k \in keys \ unused |-> @[k] - 1], Restrict(@, DOMAIN @ \ unused)),
        !.samples = Restrict(@, DOMAIN @ \ unused),
        !.dirty = @ \ unused]

\* Mutant: that a segment went out of use is not reported.
RemoveRouteContributionQuietly(cache, entry) ==
    LET keys == KeysGivenBack(cache, entry) IN
    WithFewerUsers(cache, keys, {k \in keys : cache.counts[k] <= 1})

RemoveRouteContribution(cache, entry) ==
    LET keys == KeysGivenBack(cache, entry)
        unused == {k \in keys : cache.counts[k] <= 1}
    IN  [WithFewerUsers(cache, keys, unused) EXCEPT !.membershipChanged = @ \/ unused # {}]

\* What each route uses of each network, tabulated: it does not depend on
\* anything else.
LoadedRoutes == UNION {Range(fleet) : fleet \in LoadedFleets}
Scans == {[built |-> built, route |-> route, used |-> ScanRoute(NetworkOf(built), route)] :
             built \in SUBSET Segments, route \in Routes \cup LoadedRoutes}

\* The segment's samples are taken from its line as it is now.
PaintSamples(used) ==
    [k \in {KeyOf(seg) : seg \in used} |-> Line((CHOOSE seg \in used : KeyOf(seg) = k).actor)]

HasContext(v) == v \notin Unresolved
BuildCacheEntry(v) ==
    LET valid == HasContext(v)
        scan == CHOOSE x \in Scans : x.built = Built /\ x.route = vehicles[v].route
    IN  [vehicle |-> Identifier(v), changelist |-> vehicles[v].changelist,
         route |-> vehicles[v].route, valid |-> valid,
         samples |-> IF valid THEN PaintSamples(scan.used) ELSE << >>]

Outdated(cache, v) ==
    LET id == Identifier(v) IN
    \/ id \notin DOMAIN cache.entries
    \/ cache.entries[id].changelist # vehicles[v].changelist
    \/ cache.entries[id].route # vehicles[v].route

Store(cache, entry) == [cache EXCEPT !.entries = With(@, entry.vehicle, entry)]

\* Mutant: the old route's segments are not given back.
RefreshKeepsOld(cache, entry) == AddRouteContribution(Store(cache, entry), entry)

Refresh(cache, entry) ==
    AddRouteContribution(
        Store(IF entry.vehicle \in DOMAIN cache.entries
              THEN RemoveRouteContribution(cache, cache.entries[entry.vehicle]) ELSE cache, entry),
        entry)

RemoveStale(cache, id) ==
    LET without == RemoveRouteContribution(cache, cache.entries[id]) IN
    [without EXCEPT !.entries = Restrict(@, DOMAIN @ \ {id})]

\* New and changed vehicles first, in one fixed order, then those that are gone.
RefreshOutdated(cache) ==
    FoldSet(LAMBDA entry, c : Refresh(c, entry), [cache EXCEPT !.membershipChanged = FALSE],
            {BuildCacheEntry(v) : v \in {u \in DOMAIN vehicles : Outdated(cache, u)}})
RemoveGone(cache) ==
    FoldSet(LAMBDA id, c : RemoveStale(c, id), cache,
            DOMAIN cache.entries \ {Identifier(v) : v \in DOMAIN vehicles})
Update(cache) == RemoveGone(RefreshOutdated(cache))

\* What remains of an update's result.
Kept(cache) == [cache EXCEPT !.membershipChanged = FALSE]

MarkSegmentsDirty(cache, keys) == [cache EXCEPT !.dirty = @ \cup (keys \cap Counted(cache))]

-----------------------------------------------------------------------------
\* The counts are what the entries say, however routes overlapped, changed
\* and went: a segment has a sample exactly while some vehicle uses it, and
\* only such a segment is to be drawn.
Users(cache, k) == {id \in DOMAIN cache.entries : k \in DOMAIN cache.entries[id].samples}
CountsMatchEntries(cache) ==
    /\ Counted(cache) = UNION {DOMAIN cache.entries[id].samples : id \in DOMAIN cache.entries}
    /\ \A k \in Counted(cache) : cache.counts[k] = Cardinality(Users(cache, k))
    /\ DOMAIN cache.samples = Counted(cache)
    /\ cache.dirty \subseteq Counted(cache)
=============================================================================
