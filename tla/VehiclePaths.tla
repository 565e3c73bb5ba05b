---------------------------- MODULE VehiclePaths ----------------------------
(***************************************************************************)
(* The game's vehicle paths as the Path Finder mod sees them: segment      *)
(* actors between nodes, the path network made of them, and vehicles with  *)
(* routes.  Nothing here is the mod's code; its hooks are attached to      *)
(* these operations in RouteMap.                                           *)
(*                                                                         *)
(* A player loads saves: every load is another world, whose actors and     *)
(* vehicles are other objects even if they look the same, and for a while  *)
(* a world has no vehicle subsystem.                                       *)
(***************************************************************************)
EXTENDS RouteTrace

CONSTANTS
    Segments,       \* segment actors that may be built
    Start, End,     \* their nodes
    Length,
    Impassable,     \* segments no vehicle may use
    Vehicles,
    Routes,         \* sequences of nodes
    LoadedNetworks, \* sets of segments a save may hold
    LoadedFleets,   \* and routes of its vehicles
    MaxShape,       \* a bound on how often a segment gets another spline
    MaxChanges      \* a bound on the changes of the factory and the worlds

ASSUME VehiclePathsAssumption ==
    /\ Start \in [Segments -> Nodes] /\ End \in [Segments -> Nodes]
    /\ \A s, t \in Segments : Start[s] = Start[t] /\ End[s] = End[t] => s = t
    /\ Length \in [Segments -> Nat]
    /\ \A s \in Segments : Length[s] >= Apart[<<Start[s], End[s]>>]
    /\ IsFiniteSet(Segments) /\ IsFiniteSet(Vehicles)
    /\ LoadedNetworks \subseteq SUBSET Segments
    /\ \A fleet \in LoadedFleets : DOMAIN fleet \subseteq Vehicles

VARIABLES
    world,      \* the number of the world
    subsystem,  \* it has a vehicle subsystem
    shape,      \* of each segment actor: its spline; 0 has fewer than two points
    vehicles,   \* of each vehicle: its route and the changelist of the route
    changes     \* what has changed, counted

pathVars == <<world, subsystem, shape, vehicles, changes>>

Built == DOMAIN shape

\* A segment without a spline is drawn from node to node.
Line(s) == <<s, shape[s]>>

\* The path network of some segments.
NetworkOf(built) ==
    {[from |-> Start[s], to |-> End[s], length |-> Length[s],
      passable |-> s \notin Impassable, actor |-> s] : s \in built}

Change == subsystem /\ changes < MaxChanges /\ changes' = changes + 1

AddPathSegment(s) ==
    /\ Change /\ s \notin Built
    /\ \E spline \in {0, 1} :
          shape' = [t \in Built \cup {s} |-> IF t = s THEN spline ELSE shape[t]]
    /\ UNCHANGED <<world, subsystem, vehicles>>
RemovePathSegment(s) ==
    /\ Change /\ s \in Built
    /\ shape' = Restrict(shape, Built \ {s})
    /\ UNCHANGED <<world, subsystem, vehicles>>
SetSplinePointsAndValidatePath(s) ==
    /\ Change /\ s \in Built /\ shape[s] < MaxShape
    /\ shape' = [shape EXCEPT ![s] = @ + 1]
    /\ UNCHANGED <<world, subsystem, vehicles>>

\* A vehicle's identifier: one that was removed does not come back.
Identifier(v) == <<v, world>>
AddVehicle(v, route) ==
    /\ Change /\ v \notin DOMAIN vehicles
    /\ vehicles' = [u \in DOMAIN vehicles \cup {v} |->
                        IF u = v THEN [route |-> route, changelist |-> changes'] ELSE vehicles[u]]
    /\ UNCHANGED <<world, subsystem, shape>>
RemoveVehicle(v) ==
    /\ Change /\ v \in DOMAIN vehicles
    /\ vehicles' = Restrict(vehicles, DOMAIN vehicles \ {v})
    /\ UNCHANGED <<world, subsystem, shape>>
SetVehicleRoute(v, route) ==
    /\ Change /\ v \in DOMAIN vehicles
    /\ vehicles' = [vehicles EXCEPT ![v] = [route |-> route, changelist |-> changes']]
    /\ UNCHANGED <<world, subsystem, shape>>

LeaveWorld ==
    /\ Change
    /\ world' = world + 1 /\ subsystem' = FALSE
    /\ shape' = << >> /\ vehicles' = << >>

\* What a save holds.
LoadedShape(built) == [s \in built |-> 1]
LoadedVehicles(fleet) == [v \in DOMAIN fleet |-> [route |-> fleet[v], changelist |-> 0]]
EnterWorld(built, fleet) ==
    /\ ~subsystem /\ subsystem' = TRUE
    /\ shape' = LoadedShape(built) /\ vehicles' = LoadedVehicles(fleet)
    /\ UNCHANGED <<world, changes>>
=============================================================================
