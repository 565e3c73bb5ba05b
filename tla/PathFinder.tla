------------------------------ MODULE PathFinder ------------------------------
(***************************************************************************)
(* The Path Finder mod in a game: players build and remove path segments   *)
(* and vehicles, change routes, load saves, look at the map, and switch    *)
(* the overlay.  The map and the overlay read the same world and share     *)
(* nothing else: neither reads what the other writes.  A behaviour         *)
(* therefore watches one of them, and the other stays as it began.         *)
(***************************************************************************)
EXTENDS RouteMap, RouteOverlay

VARIABLE watched    \* "map" or "overlay"

vars == <<pathVars, mapVars, overlayVars, watched>>

\* A save has been loaded; neither display has seen it yet.
Init ==
    /\ watched \in {"map", "overlay"}
    /\ world = 0 /\ subsystem = TRUE /\ changes = 0
    /\ \E built \in LoadedNetworks, fleet \in LoadedFleets :
          /\ shape = LoadedShape(built) /\ vehicles = LoadedVehicles(fleet)
    /\ MapInit /\ OverlayInit

\* What the module's hooks, and the engine, make of a change.
Seen(onMap, onOverlay) ==
    /\ IF watched = "map" THEN onMap /\ UNCHANGED overlayVars
       ELSE onOverlay /\ UNCHANGED mapVars
    /\ UNCHANGED watched

SegmentsNext ==
    \E s \in Segments :
        \/ /\ AddPathSegment(s) \/ SetSplinePointsAndValidatePath(s)
           /\ Seen(RequestPathSegmentRefresh(s), UNCHANGED overlayVars)
        \/ /\ RemovePathSegment(s)
           /\ Seen(RequestPathSegmentRemoval(s), SegmentDies(s))
VehiclesNext ==
    /\ \/ \E v \in Vehicles, route \in Routes : AddVehicle(v, route) \/ SetVehicleRoute(v, route)
       \/ \E v \in Vehicles : RemoveVehicle(v)
    /\ Seen(RequestRouteUsageRefresh, UNCHANGED overlayVars)
WorldsNext ==
    \/ LeaveWorld /\ Seen(ForgetActors, WorldDies)
    \/ \E built \in LoadedNetworks, fleet \in LoadedFleets :
          /\ EnterWorld(built, fleet)
          /\ \E announced \in {{}, built} :
                Seen(RequestLoadedSegments(announced), UNCHANGED overlayVars)

MapPart(A) == watched = "map" /\ A /\ UNCHANGED <<pathVars, overlayVars, watched>>
OverlayPart(A) == watched = "overlay" /\ A /\ UNCHANGED <<pathVars, mapVars, watched>>

TickMap == MapPart(MapTick)
Players ==
    \/ MapPart(OpenMap \/ CloseMap \/ ToggleRouteLayerVisibility)
    \/ \E mode \in {"off", "traffic", "network"} : OverlayPart(TracingCommand(mode))
    \/ OverlayPart(Equip \/ UnEquip \/ CycleControlMode \/ ApplyControlMode)
TickOverlay == OverlayPart(TickVehicleTracing)

Next == SegmentsNext \/ VehiclesNext \/ WorldsNext \/ Players \/ TickMap \/ TickOverlay

\* The game ticks the map's subsystem; nothing obliges a player.  A tick is
\* told by the requests it takes: no other step takes them all.
TakeRequests ==
    /\ watched = "map" /\ subsystem /\ Requested(ResetForWorld)
    /\ cachedWorld' = world
    /\ pendingRefreshes' = {} /\ pendingRemovals' = {}
    /\ initialPopulationRequested' = FALSE /\ usageRefreshRequested' = FALSE
Spec == Init /\ [][Next]_vars /\ WF_<<cachedWorld, requestVars>>(TakeRequests)

-----------------------------------------------------------------------------
\* Whatever network a save holds, the search repeats what the game's search
\* promises: a shortest path if there is one, else the closest node, and the
\* samples of a failed leg reach what can be reached.
ExactNetworks ==
    {built \in SUBSET Segments : SearchIsExact(NetworkOf(built)) /\ PaintsReachable(NetworkOf(built))}
SearchesAreExact == Built \in ExactNetworks

\* In both caches, however routes overlapped, changed and went.
UsageMatchesRoutes == CountsMatchEntries(mapCache) /\ CountsMatchEntries(tracerCache)

Settled == cachedWorld = world /\ subsystem /\ ~Requested(ResetForWorld)

\* With nothing left to apply, the snapshot has the present line of every
\* segment, and none of a segment or a world that is gone.  Of two segments
\* that share a key it has one, or none after the other was removed.
Alone(s) == \A t \in Segments : PathSegmentKey(t) = PathSegmentKey(s) => t = s
SnapshotIsCurrent ==
    Settled =>
        /\ \A k \in DOMAIN snapshot.lines :
              \E s \in Built : PathSegmentKey(s) = k /\ snapshot.lines[k] = Line(s)
        /\ \A s \in Built : Alone(s) /\ shape[s] > 0 => PathSegmentKey(s) \in DOMAIN snapshot.lines

\* The target is marked for drawing whenever it does not show the snapshot
\* and the routes, through hidden layers, worlds and routes that change.
LayerIsCurrent ==
    target /\ ~needsRedraw => layer = Drawn(snapshot.lines, mapCache.samples)

\* Every change reaches an open map in the end, by ticks alone: also one that
\* was announced while there was no vehicle subsystem.
MapIsCurrent ==
    /\ Settled /\ ~needsRedraw /\ layerShown
    /\ \A v \in DOMAIN vehicles : ~Outdated(mapCache, v)
    /\ DOMAIN mapCache.entries = {Identifier(v) : v \in DOMAIN vehicles}
MapShowsNetwork ==
    <>[](watched = "map" /\ mapOpen /\ visible /\ subsystem => MapIsCurrent)

\* A traffic tick leaves each segment of a route drawn or noted for the next
\* tick, unless it was forgotten before the tick.
Forgotten(k) == k \in Counted(tracerCache) /\ k \notin tracerCache.dirty /\ ~IsDrawn(overlay, k)
NothingForgotten ==
    [][tracing = "traffic" /\ tracing' = "traffic" /\ UNCHANGED pathVars =>
          \A k \in Counted(tracerCache)' : Forgotten(k)' => Forgotten(k)]_vars

\* A strip has the colour and the label of its segment's load.
OverlayMatchesTraffic ==
    tracing = "traffic" =>
        \A k \in DOMAIN overlay : IsDrawn(overlay, k) =>
            /\ k \in DOMAIN windows
            /\ overlay[k].colour = TrafficBucket(windows[k])
            /\ overlay[k].label = LoadText(windows[k])
=============================================================================
