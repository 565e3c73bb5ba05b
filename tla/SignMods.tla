------------------------------ MODULE SignMods ------------------------------
(***************************************************************************)
(* The two sign mods in one game: maps are left and loaded, players build, *)
(* rename, edit and dismantle, and either mod or both are installed.  A    *)
(* station's sign may stand at a lift: it then has a mirror like any other *)
(* sign.                                                                   *)
(***************************************************************************)
EXTENDS TruckStationSigns

CONSTANT Installations  \* sets of mods

ASSUME SignModsAssumption ==
    /\ IsFiniteSet(AllSigns \cup Lifts)
    /\ Signs \cap StationSigns = {} /\ Sources \cap Mirrors = {}
    /\ AllSigns \cap Lifts = {} /\ (AllSigns \cup Lifts) \cap Stations = {}
    /\ None \notin AllSigns \cup Lifts \cup Stations \cup Texts
    /\ None \notin Seq(Stations \cup {None})
    /\ Near \subseteq Sources \X Lifts
    /\ Cardinality(StationSigns) >= Cardinality(Stations)
    /\ Installations \subseteq SUBSET {"TruckStationSigns", "ConveyorSigns"}

vars == <<actors, worldVars, mirrorVars, truckVars>>

Init ==
    /\ mods \in Installations
    /\ phase = "menu" /\ authority = TRUE
    /\ actors = NoActors
    /\ initialized = FALSE /\ initialRefresh = FALSE
    /\ stationName \in [Stations -> Texts]
    /\ mapLoadInProgress = FALSE /\ pendingStations = << >>
    /\ controller = FALSE /\ generation = FALSE /\ initialization = None
    /\ ownership = << >> /\ appliedNames = << >> /\ refused = {}

\* LoadMap ends the play of all actors: their addresses are free again, and
\* no weak pointer to them, but a plain one stays what it is.
LeaveMap ==
    /\ phase # "ended"
    /\ phase' = "loading"
    /\ authority' \in BOOLEAN
    /\ actors' = [NoActors EXCEPT !.ignoredEndPlaySigns = actors.ignoredEndPlaySigns,
                                  !.mutated = actors.mutated]
    /\ initialized' = FALSE
    /\ OnPreLoadMap
    /\ UNCHANGED <<mods, initialRefresh>>

LoadingRoom == phase = "loading" /\ Cardinality(Buildables) < MaxBuildables

\* What a save holds: signs, lifts, and mirrors an earlier version saved.
LoadSign(g, text) ==
    /\ LoadingRoom /\ "ConveyorSigns" \in mods /\ g \notin actors.live
    /\ actors' = [Spawn(actors, g) EXCEPT !.text[g] = text]
    /\ UNCHANGED <<worldVars, mirrorVars, truckVars>>
LoadLift(l) ==
    /\ LoadingRoom /\ "ConveyorSigns" \in mods /\ l \notin actors.live
    /\ actors' = Spawn(actors, l)
    /\ UNCHANGED <<worldVars, mirrorVars, truckVars>>
LoadMirror(x, g) ==
    /\ LoadingRoom /\ "ConveyorSigns" \in mods /\ authority
    /\ g \in actors.live /\ Mirrors \cap actors.live = {}
    /\ actors' = [Spawn(actors, x) EXCEPT !.owner[x] = g, !.text[x] = actors.text[g]]
    /\ UNCHANGED <<worldVars, mirrorVars, truckVars>>

\* Both mods' PostLoadMapWithWorld; only a map without actors can be the menu.
EnterMap(map, assets) ==
    /\ phase = "loading"
    /\ map = "menu" => actors.live = {} /\ authority
    /\ phase' = map
    /\ initialRefresh' = (initialRefresh \/ "ConveyorSigns" \in mods)
    /\ OnPostLoadMap(map = "play", assets)
    /\ UNCHANGED <<actors, authority, mods, initialized>>

Shutdown ==
    /\ phase \in {"menu", "play"}
    /\ phase' = "ended"
    /\ IF "ConveyorSigns" \in mods THEN ShutdownMirrors
       ELSE UNCHANGED <<actors, mirrorVars>>
    /\ ShutdownTruck
    /\ UNCHANGED <<authority, mods>>

PlayerSigns ==
    \/ \E g \in Signs : BuildSign(g)
    \/ \E g \in Signs, text \in Texts : EditSign(g, text)
    \/ \E l \in Lifts : BuildLift(l)
    \/ \E a \in Signs \cup Mirrors \cup Lifts : Dismantle(a)
StationsNext ==
    \/ \E st \in Stations, name \in Texts :
          LoadStation(st, name) \/ BuildStation(st, name) \/ RenameStation(st, name)
    \/ \E st \in Stations : DismantleStation(st) \/ RecreateSignForVisualTest(st)
    \/ TickStationInitialization
MapNext ==
    \/ LeaveMap \/ Shutdown
    \/ \E g \in Signs, text \in Texts : LoadSign(g, text)
    \/ \E l \in Lifts : LoadLift(l)
    \/ \E x \in Mirrors, g \in Signs : LoadMirror(x, g)
    \/ \E map \in {"menu", "play"}, assets \in BOOLEAN : EnterMap(map, assets)
Next ==
    \/ (PlayerSigns \/ RunInitialRefresh) /\ UNCHANGED truckVars
    \/ StationsNext
    \/ MapNext

Spec == Init /\ [][Next]_vars

-----------------------------------------------------------------------------
InPlay == phase = "play"

\* A station's sign belongs to a station that still stands, which has no
\* other: through renaming, dismantling either or a mirror, and map loads.
OneSignPerStation ==
    InPlay => \A g \in StationSigns \cap actors.live :
                 LET station == actors.owner[g] IN
                 /\ station \in Stations \cap actors.live
                 /\ At(ownership, station) = g

\* A station's sign shows its present name: appliedNames, the queue of a map
\* load and the hook on renaming never leave an old one.
SignShowsName ==
    InPlay /\ generation =>
        \A g \in StationSigns \cap actors.live : actors.text[g] = stationName[actors.owner[g]]

\* Once the initial refresh has seen the map, a mirror has a source at a lift,
\* is that source's only mirror and shows what the source shows.
MirrorMatchesSource ==
    InPlay /\ initialized =>
        \A x \in Mirrors \cap actors.live :
            LET source == actors.owner[x] IN
            /\ source \in Sources \cap actors.live
            /\ MirrorOf(actors, source) = x
            /\ At(actors.liftsBySource, source) \in Lifts \cap actors.live
            /\ actors.text[x] = actors.text[source]

\* When a callback has ended no address is left to be ignored, where a later
\* sign would keep its partner, and no map was changed under an iteration.
CascadesEnd ==
    /\ actors.ignoredEndPlaySigns = {} /\ actors.dying = {}
    /\ ~actors.mutated

\* What stands and falls with an actor: a sign with its mirror, a lift with
\* its signs.
Pair(g) == {g} \cup {x \in Mirrors \cap actors.live : MirrorOf(actors, g) = x}
Group(a) ==
    IF a \in Lifts THEN {a} \cup UNION {Pair(g) : g \in {h \in Sources \cap actors.live :
                                                         At(actors.liftsBySource, h) = a}}
    ELSE IF a \in Mirrors THEN {a} \cup UNION {Pair(g) : g \in {actors.owner[a]} \ {None}}
    ELSE Pair(a)

\* Dismantling takes the whole group and nothing else, and no refresh of the
\* mirrors removes a sign (a client only repeats what its server did).
DismantledTogether ==
    [][/\ authority => \A a \in (Signs \cup Mirrors \cup Lifts) \cap (actors.live \ actors'.live) :
             Dismantle(a) => actors'.live = actors.live \ Group(a)
       /\ initialRefresh /\ ~initialRefresh' /\ RunInitialRefresh =>
             actors'.live \cap Sources = actors.live \cap Sources]_vars

\* No station is forgotten: while signs may be made, a station of the map has
\* had its sign, waits for the ticker, or could not be given one, whether it
\* began play while the map was loading or later.
NoStationForgotten ==
    InPlay /\ controller /\ generation /\ authority =>
        \A st \in Stations \cap actors.live :
            \/ st \in DOMAIN ownership \cup refused
            \/ initialization # None /\ Contains(initialization, st)
=============================================================================
