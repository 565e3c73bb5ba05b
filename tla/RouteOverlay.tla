---------------------------- MODULE RouteOverlay ----------------------------
(***************************************************************************)
(* Vehicle tracing: coloured strips in the world along the segments routes *)
(* use (FPathFinderConsoleCommands, its ticker, route cache and load       *)
(* windows, and FPathFinderRouteOverlayRenderer), switched by console      *)
(* commands and by the control tool a player holds.  In traffic mode only  *)
(* what changed is drawn: a segment that came into use is dirty, and one   *)
(* whose traffic changes its class gets another colour.  A strip belongs   *)
(* to its segment actor and dies with it.                                  *)
(***************************************************************************)
EXTENDS VehicleRouteCache

CONSTANTS
    WindowSampleCount,
    MaxMoving,  \* a bound on the vehicles that are on segments at once
    Dead,   \* in place of an actor that is gone, of a strip the renderer still knows
    None

ASSUME RouteOverlayAssumption == None \notin Segments /\ Dead \notin Segments

VARIABLES
    tracing,        \* "off", "traffic" or "network"; the ticker runs unless off
    tracerCache,    \* VehicleTracingRouteCache
    windows,        \* VehicleTracingLoadWindowsBySegmentKey
    overlay,        \* OverlayComponentsBySegmentKey
    tool            \* the control tool's mode, or "none" while none is held

overlayVars == <<tracing, tracerCache, windows, overlay, tool>>

OverlayInit ==
    /\ tracing = "off" /\ tracerCache = EmptyCache
    /\ windows = << >> /\ overlay = << >> /\ tool = "none"

-----------------------------------------------------------------------------
(* Traffic load                                                             *)

Total(window) == FoldFunction(+, 0, window)
AddVehicleCountSample(window, count) ==
    LET longer == Append(window, count) IN
    IF Len(longer) > WindowSampleCount THEN Tail(longer) ELSE longer

\* The classes of load end at 0, a quarter and three quarters.
TrafficBucket(window) ==
    LET total == Total(window) IN
    CASE total = 0 -> 0
      [] total > 0 /\ 4 * total < WindowSampleCount -> 1
      [] 4 * total >= WindowSampleCount /\ 4 * total < 3 * WindowSampleCount -> 2
      [] OTHER -> 3

\* The load as its label shows it, to a tenth.  A half is rounded up: how the
\* formatting of the engine decides a tie is not told apart here.
LoadText(window) == (20 * Total(window) + WindowSampleCount) \div (2 * WindowSampleCount)

-----------------------------------------------------------------------------
(* The renderer                                                             *)

\* The actor of a segment, or the one that leads the other way.
ResolveVehiclePathSegmentActor(k) ==
    LET Between(a, b) == {s \in Built : Start[s] = a /\ End[s] = b} IN
    CASE Between(k[1], k[2]) # {} -> CHOOSE s \in Between(k[1], k[2]) : TRUE
      [] Between(k[1], k[2]) = {} /\ Between(k[2], k[1]) # {} ->
            CHOOSE s \in Between(k[2], k[1]) : TRUE
      [] OTHER -> None

Live(strips, k) == k \in DOMAIN strips /\ strips[k].owner # Dead
IsDrawn(strips, k) == Live(strips, k) /\ strips[k].drawn

NewStrip(owner) == [owner |-> owner, drawn |-> FALSE, colour |-> None, label |-> None]

\* A component is made before it is known whether it can be drawn; a label
\* that exists keeps its text.
DrawPathSegment(strips, s, k, colour, text) ==
    LET same == Live(strips, k) /\ strips[k].owner = s
        strip == IF same THEN strips[k] ELSE NewStrip(s)
        drawn == IF shape[s] = 0 THEN strip
                 ELSE [strip EXCEPT !.drawn = TRUE, !.colour = colour,
                                    !.label = IF @ = None THEN text ELSE @]
    IN  IF s = None THEN strips
        ELSE With(strips, k, drawn)

UpdateSegmentColor(strips, k, colour) ==
    IF IsDrawn(strips, k) THEN [strips EXCEPT ![k].colour = colour] ELSE strips

RemoveStaleSegments(strips, keys) == Restrict(strips, DOMAIN strips \cap keys)

\* The engine destroys the components of an actor with it.
StripsDie(actors) ==
    overlay' = [k \in DOMAIN overlay |->
                   IF Live(overlay, k) /\ overlay[k].owner \in actors THEN NewStrip(Dead) ELSE overlay[k]]
SegmentDies(s) == StripsDie({s}) /\ UNCHANGED <<tracing, tracerCache, windows, tool>>
\* The tool goes with the world; the ticker, the route cache and the windows
\* belong to the module and stay.
WorldDies == StripsDie(Segments) /\ tool' = "none" /\ UNCHANGED <<tracing, tracerCache, windows>>

-----------------------------------------------------------------------------
(* The ticker                                                               *)

ClearOverlay == windows' = << >> /\ overlay' = << >>

TickWithoutSubsystem ==
    /\ ~subsystem
    /\ tracerCache' = EmptyCache /\ ClearOverlay

\* Every segment actor, in one of two colours.
SegmentKey(s) == <<Start[s], End[s]>>
DrawNetwork(cache) ==
    LET strips == FoldSet(LAMBDA s, r : DrawPathSegment(r, s, SegmentKey(s),
                              IF SegmentKey(s) \in Counted(cache) THEN "assigned" ELSE "unused", None),
                          overlay, Built)
    IN  /\ tracerCache' = Kept(cache) /\ windows' = << >>
        /\ overlay' = RemoveStaleSegments(strips, {SegmentKey(s) : s \in Built})
TickNetwork == subsystem /\ tracing = "network" /\ DrawNetwork(Update(tracerCache))

\* How many vehicles are on each counted segment now; the others are parked.
Positions(keys) ==
    {at \in [DOMAIN vehicles -> keys \cup {None}] :
        Cardinality({v \in DOMAIN at : at[v] # None}) <= MaxMoving}
Sampled(keys, at) ==
    [k \in keys |->
        AddVehicleCountSample(IF k \in DOMAIN windows THEN windows[k] ELSE << >>,
                              Cardinality({v \in DOMAIN at : at[v] = k}))]

BucketBefore(k) == IF k \in DOMAIN windows THEN TrafficBucket(windows[k]) ELSE 0

\* What needs drawing: what is dirty, and what changed its class but has no
\* component to give another colour to.
NeedingDraw(cache, sampled) ==
    cache.dirty \cup {k \in DOMAIN sampled : TrafficBucket(sampled[k]) # BucketBefore(k)
                                             /\ ~Live(overlay, k)}

\* Mutant: a draw that fails is not tried again.
UndrawnForgotten(strips, keys) == {}

\* Draws that fail are tried again at the next tick.
Undrawn(strips, keys) == {k \in keys : ResolveVehiclePathSegmentActor(k) = None \/ ~IsDrawn(strips, k)}

\* Mutant: a segment that is calmer than before keeps its colour.
RecolouredBusier(sampled, needing) ==
    FoldSet(LAMBDA k, r : UpdateSegmentColor(r, k, TrafficBucket(sampled[k])), overlay,
            {k \in DOMAIN sampled \ needing : TrafficBucket(sampled[k]) > BucketBefore(k)})

\* Colours, draws, and then the labels that were queued.
Recoloured(sampled, needing) ==
    FoldSet(LAMBDA k, r : UpdateSegmentColor(r, k, TrafficBucket(sampled[k])), overlay,
            {k \in DOMAIN sampled \ needing : TrafficBucket(sampled[k]) # BucketBefore(k)})

Painted(strips, sampled, needing) ==
    FoldSet(LAMBDA k, r : DrawPathSegment(r, ResolveVehiclePathSegmentActor(k), k,
                              TrafficBucket(sampled[k]), LoadText(sampled[k])),
            strips, needing)
Labelled(strips, sampled) ==
    [k \in DOMAIN strips |->
        IF k \in DOMAIN sampled /\ IsDrawn(strips, k)
           /\ LoadText(sampled[k]) # (IF k \in DOMAIN windows THEN LoadText(windows[k]) ELSE 0)
        THEN [strips[k] EXCEPT !.label = LoadText(sampled[k])] ELSE strips[k]]

DrawSegments(cache, sampled, needing, painted) ==
    /\ tracerCache' = MarkSegmentsDirty([Kept(cache) EXCEPT !.dirty = {}], Undrawn(painted, needing))
    /\ windows' = sampled
    /\ overlay' = IF cache.membershipChanged
                  THEN RemoveStaleSegments(Labelled(painted, sampled), Counted(cache))
                  ELSE Labelled(painted, sampled)
DrawNeeding(cache, sampled, needing) ==
    DrawSegments(cache, sampled, needing, Painted(Recoloured(sampled, needing), sampled, needing))
DrawTraffic(cache, sampled) == DrawNeeding(cache, sampled, NeedingDraw(cache, sampled))

SampleTraffic(cache) ==
    IF Counted(cache) = {} THEN tracerCache' = Kept(cache) /\ ClearOverlay
    ELSE \E at \in Positions(Counted(cache)) : DrawTraffic(cache, Sampled(Counted(cache), at))
TickTraffic == subsystem /\ tracing = "traffic" /\ SampleTraffic(Update(tracerCache))

TickVehicleTracing ==
    /\ tracing # "off"
    /\ TickWithoutSubsystem \/ TickNetwork \/ TickTraffic
    /\ UNCHANGED <<tracing, tool>>

-----------------------------------------------------------------------------
(* Commands and the control tool                                            *)

\* The route cache stays.
StopVehicleTracing ==
    /\ tracing' = "off" /\ ClearOverlay
    /\ UNCHANGED tracerCache

SetVehicleTracing(mode) ==
    IF mode = "off" THEN StopVehicleTracing
    ELSE /\ tracing' = mode
         /\ IF tracing \notin {"off", mode} THEN tracerCache' = EmptyCache /\ ClearOverlay
            ELSE UNCHANGED <<tracerCache, windows, overlay>>

\* PathFinder.VehicleTracing, and PathFinder.Clear.  A bound: a player who
\* holds the tool switches on with the tool.
TracingCommand(mode) ==
    /\ tool = "none" \/ mode = "off"
    /\ SetVehicleTracing(mode)
    /\ UNCHANGED tool

Equip == tool = "none" /\ tool' = "off" /\ StopVehicleTracing
UnEquip == tool # "none" /\ tool' = "none" /\ StopVehicleTracing

NextMode == [off |-> "traffic", traffic |-> "network", network |-> "off"]
CycleControlMode ==
    /\ tool # "none"
    /\ tool' = NextMode[tool]
    /\ SetVehicleTracing(tool')
ApplyControlMode ==
    /\ tool # "none"
    /\ SetVehicleTracing(tool)
    /\ UNCHANGED tool
=============================================================================
