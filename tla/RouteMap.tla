------------------------------ MODULE RouteMap ------------------------------
(***************************************************************************)
(* The vehicle routes on the map: UPathFinderRouteMapSubsystem, its        *)
(* snapshot of the segments' geometry, the module's hooks that ask it to   *)
(* refresh, and the two widgets in the game's map.  Hooks only note what   *)
(* changed; a tick applies it, and draws at once or when somebody looks.   *)
(* The geometry is kept under a key that has no direction: two segments    *)
(* between the same nodes share it.                                        *)
(***************************************************************************)
EXTENDS VehicleRouteCache

CONSTANT NoWorld

ASSUME NoWorldAssumption == NoWorld \notin Nat

VARIABLES
    cachedWorld,
    snapshot,           \* [initialized, lines]: RouteSnapshot
    mapCache,           \* VehicleRouteCache
    pendingRefreshes, pendingRemovals,
    initialPopulationRequested, usageRefreshRequested, needsRedraw,
    visible,            \* bRouteLayerVisible
    target,             \* the render target exists
    layer,              \* what is drawn on it
    mapOpen,            \* the game's map is open, with both widgets
    layerShown, label   \* what the layer widget and the toggle show

drawVars == <<needsRedraw, layer, target>>
requestVars == <<pendingRefreshes, pendingRemovals, initialPopulationRequested,
                 usageRefreshRequested>>
dataVars == <<cachedWorld, snapshot, mapCache>>
widgetVars == <<mapOpen, layerShown, label>>
mapVars == <<dataVars, requestVars, drawVars, visible, widgetVars>>

MapInit ==
    /\ cachedWorld = NoWorld
    /\ snapshot = [initialized |-> FALSE, lines |-> << >>] /\ mapCache = EmptyCache
    /\ pendingRefreshes = {} /\ pendingRemovals = {}
    /\ initialPopulationRequested = TRUE /\ usageRefreshRequested = TRUE
    /\ needsRedraw = TRUE /\ visible = TRUE
    /\ target = FALSE /\ layer = << >>
    /\ mapOpen = FALSE /\ layerShown = FALSE /\ label = "none"

-----------------------------------------------------------------------------
(* Geometry and drawing                                                     *)

MakePathSegmentKey(first, second) == {first, second}
PathSegmentKey(s) == MakePathSegmentKey(Start[s], End[s])

\* The last of two segments that share a key counts; it is the same each time.
BuildAllPathSegmentGeometry ==
    [k \in {PathSegmentKey(s) : s \in Built} |-> Line(CHOOSE s \in Built : PathSegmentKey(s) = k)]

\* The snapshot's operations, [snapshot, changed].
ReplaceAllSegments(snap, lines) ==
    [snapshot |-> [initialized |-> TRUE, lines |-> lines],
     changed |-> ~snap.initialized \/ snap.lines # lines]
RemoveSegments(snap, keys) ==
    [snapshot |-> [initialized |-> snap.initialized \/ keys # {},
                   lines |-> Restrict(snap.lines, DOMAIN snap.lines \ keys)],
     changed |-> keys \cap DOMAIN snap.lines # {}]
UpdateSegment(snap, k, line) ==
    [snapshot |-> [initialized |-> TRUE,
                   lines |-> [j \in DOMAIN snap.lines \cup {k} |->
                                  IF j = k THEN line ELSE snap.lines[j]]],
     changed |-> k \notin DOMAIN snap.lines \/ snap.lines[k] # line]

\* A segment of routes is drawn in blue with the samples over it, each with
\* an arrow in its direction; any other in orange with the segment's arrow.
Drawn(lines, samples) ==
    LET Over(k) == {d \in DOMAIN samples : MakePathSegmentKey(d[1], d[2]) = k} IN
    [k \in DOMAIN lines |->
        [line |-> lines[k], assigned |-> Over(k) # {},
         arrows |-> {<<d, samples[d]>> : d \in Over(k)}]]

RedrawRouteLayer(snap, cache) ==
    /\ layer' = Drawn(snap.lines, cache.samples)
    /\ needsRedraw' = FALSE

\* The layer widget asks for the target when the layer is visible.
AcquireRenderTarget ==
    /\ target' = TRUE
    /\ IF needsRedraw \/ ~target THEN RedrawRouteLayer(snapshot, mapCache)
       ELSE UNCHANGED <<needsRedraw, layer>>

-----------------------------------------------------------------------------
(* Hooks                                                                    *)

RequestPathSegmentRefresh(s) ==
    /\ pendingRefreshes' = pendingRefreshes \cup {s}
    /\ UNCHANGED <<dataVars, pendingRemovals, initialPopulationRequested, usageRefreshRequested,
                   drawVars, visible, widgetVars>>
RequestPathSegmentRemoval(s) ==
    /\ pendingRemovals' = pendingRemovals \cup {PathSegmentKey(s)}
    /\ pendingRefreshes' = pendingRefreshes \ {s}
    /\ UNCHANGED <<dataVars, initialPopulationRequested, usageRefreshRequested,
                   drawVars, visible, widgetVars>>
RequestRouteUsageRefresh ==
    /\ usageRefreshRequested' = TRUE
    /\ UNCHANGED <<dataVars, pendingRefreshes, pendingRemovals, initialPopulationRequested,
                   drawVars, visible, widgetVars>>

\* A world's actors and its widgets are gone: weak pointers say so.
ForgetActors ==
    /\ pendingRefreshes' = {}
    /\ mapOpen' = FALSE /\ layerShown' = FALSE /\ label' = "none"
    /\ UNCHANGED <<dataVars, pendingRemovals, initialPopulationRequested, usageRefreshRequested,
                   drawVars, visible>>

\* The actors of a world may announce themselves while it is loaded.
RequestLoadedSegments(actors) ==
    /\ pendingRefreshes' = pendingRefreshes \cup actors
    /\ UNCHANGED <<dataVars, pendingRemovals, initialPopulationRequested, usageRefreshRequested,
                   drawVars, visible, widgetVars>>

-----------------------------------------------------------------------------
(* Tick                                                                     *)

AsBefore ==
    [snapshot |-> snapshot, cache |-> mapCache, refreshes |-> pendingRefreshes,
     removals |-> pendingRemovals, populate |-> initialPopulationRequested,
     usage |-> usageRefreshRequested, redraw |-> needsRedraw, layer |-> layer]
Emptied ==
    [snapshot |-> [initialized |-> FALSE, lines |-> << >>], cache |-> EmptyCache,
     refreshes |-> {}, removals |-> {}, populate |-> TRUE, usage |-> TRUE,
     redraw |-> TRUE, layer |-> << >>]

\* Mutant: a new world is not populated.
ResetForWorldUnpopulated ==
    IF cachedWorld = world THEN AsBefore
    ELSE [Emptied EXCEPT !.populate = initialPopulationRequested]

\* The state in which a tick works: that of a new world is empty.
ResetForWorld == IF cachedWorld = world THEN AsBefore ELSE Emptied

\* A segment without a spline has no geometry of its own; one that is gone is
\* skipped.
RefreshSegment(r, s) ==
    LET u == IF s \notin Built THEN [snapshot |-> r.snapshot, changed |-> FALSE]
             ELSE IF shape[s] = 0 THEN RemoveSegments(r.snapshot, {PathSegmentKey(s)})
             ELSE UpdateSegment(r.snapshot, PathSegmentKey(s), Line(s))
    IN  [snapshot |-> u.snapshot, changed |-> r.changed \/ u.changed]

\* The whole network first, then removals, then refreshes.
ApplyGeometry(s) ==
    LET populated == IF s.populate THEN ReplaceAllSegments(s.snapshot, BuildAllPathSegmentGeometry)
                     ELSE [snapshot |-> s.snapshot, changed |-> FALSE]
        removed == RemoveSegments(populated.snapshot, s.removals)
    IN  FoldSet(LAMBDA seg, r : RefreshSegment(r, seg),
                [snapshot |-> removed.snapshot, changed |-> populated.changed \/ removed.changed],
                s.refreshes)

Apply(s, geometry, used) ==
    LET redraw == geometry.changed \/ used.membershipChanged \/ s.redraw IN
    /\ snapshot' = geometry.snapshot /\ mapCache' = Kept(used)
    /\ pendingRefreshes' = {} /\ pendingRemovals' = {}
    /\ initialPopulationRequested' = FALSE /\ usageRefreshRequested' = FALSE
    /\ IF redraw /\ target /\ visible THEN RedrawRouteLayer(geometry.snapshot, used)
       ELSE needsRedraw' = redraw /\ layer' = s.layer
ProcessPendingPathChanges(s) ==
    Apply(s, ApplyGeometry(s), IF s.usage THEN Update(s.cache) ELSE s.cache)

Leave(s) ==
    /\ snapshot' = s.snapshot /\ mapCache' = s.cache
    /\ pendingRefreshes' = s.refreshes /\ pendingRemovals' = s.removals
    /\ initialPopulationRequested' = s.populate /\ usageRefreshRequested' = s.usage
    /\ needsRedraw' = s.redraw /\ layer' = s.layer

\* Mutant: the request for the vehicles' routes does not wait.
WaitOnlyForGeometry(s) == Leave([s EXCEPT !.usage = FALSE])

\* Until there is a vehicle subsystem the requests wait.
Wait(s) == Leave(s)

Requested(s) == s.populate \/ s.usage \/ s.refreshes # {} \/ s.removals # {}

MapTick ==
    /\ Requested(ResetForWorld)
    /\ cachedWorld' = world
    /\ IF subsystem THEN ProcessPendingPathChanges(ResetForWorld) ELSE Wait(ResetForWorld)
    /\ UNCHANGED <<target, visible, widgetVars>>

-----------------------------------------------------------------------------
(* Widgets                                                                  *)

RefreshLabel(open, on) == label' = IF open THEN (IF on THEN "ON" ELSE "OFF") ELSE "none"

\* The layer widget follows: it asks for the target while it is shown.
RefreshLayer(on) ==
    /\ layerShown' = on
    /\ IF on THEN AcquireRenderTarget ELSE UNCHANGED drawVars

\* NativeConstruct of both; NativeDestruct unbinds them.
OpenMap ==
    /\ ~mapOpen /\ mapOpen' = TRUE
    /\ RefreshLayer(visible) /\ RefreshLabel(TRUE, visible)
    /\ UNCHANGED <<dataVars, requestVars, visible>>
CloseMap ==
    /\ mapOpen /\ mapOpen' = FALSE
    /\ layerShown' = FALSE /\ RefreshLabel(FALSE, visible)
    /\ UNCHANGED <<dataVars, requestVars, drawVars, visible>>

\* The button in the map: the subsystem draws what is due, then tells both
\* widgets, of which the layer asks for the target.
ToggleRouteLayerVisibility ==
    /\ mapOpen
    /\ visible' = ~visible
    /\ RefreshLayer(~visible) /\ RefreshLabel(TRUE, ~visible)
    /\ UNCHANGED <<dataVars, requestVars, mapOpen>>
=============================================================================
