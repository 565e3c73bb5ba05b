------------------------- MODULE TruckStationSigns -------------------------
(***************************************************************************)
(* Truck Station Signs (FTruckStationSignsModule and its controller): each *)
(* truck station of the map has one transient sign that shows its name.    *)
(* Stations that begin play while a map loads wait in a queue; when it has *)
(* loaded they pass to the controller, whose ticker gives them their signs *)
(* within a budget of time per frame.                                      *)
(*                                                                         *)
(* Signs are actors of the world of ConveyorSigns: spawning, editing and   *)
(* destroying them runs the hooks of that mod where it is installed.       *)
(***************************************************************************)
EXTENDS ConveyorSigns, Sequences, SequencesExt

CONSTANT Stations

VARIABLES
    stationName,            \* of the station's identifier
    mapLoadInProgress,
    pendingStations,        \* FPendingInitializationQueue
    controller,             \* whether the module has one, and
    generation,             \* whether it may make signs (automaticSignGeneration..)
    initialization,         \* initializationState: what its ticker has left, or None
    ownership,              \* the controller's registry: station -> sign
    appliedNames,           \* sign -> the name it was last given
    refused                 \* history: stations whose sign could not be spawned

truckVars == <<stationName, mapLoadInProgress, pendingStations, controller,
               generation, initialization, ownership, appliedNames, refused>>

\* What the controller's operations change.
Truck == [s |-> actors, generation |-> generation, ownership |-> ownership,
          appliedNames |-> appliedNames, refused |-> refused]
SetTruck(t) ==
    /\ actors' = t.s /\ generation' = t.generation /\ ownership' = t.ownership
    /\ appliedNames' = t.appliedNames /\ refused' = t.refused

-----------------------------------------------------------------------------
(* FTruckStationSignController                                              *)

TrackedSign(t, station) == SavedPointer(t.s, t.ownership, station)
Attached(t, station) == {g \in StationSigns : IsValid(t.s, g) /\ t.s.owner[g] = station}
FindTrackedOrAttachedSign(t, station) ==
    IF TrackedSign(t, station) # None THEN TrackedSign(t, station)
    ELSE IF Attached(t, station) = {} THEN None
    ELSE CHOOSE g \in Attached(t, station) : TRUE

TryAdd(t, station, sign) == [t EXCEPT !.ownership = With(@, station, sign)]

DestroyGeneratedSign(t, sign) ==
    IF IsValid(t.s, sign) /\ authority
    THEN [t EXCEPT !.appliedNames = Without(@, {sign}), !.s = Destroy(@, sign)]
    ELSE t

\* No weak pointer refers to the new sign; its BeginPlay runs the other mod's
\* hook.
SpawnSign(t, station, order, luck) ==
    LET sign == CHOOSE g \in StationSigns \ t.s.live : TRUE
        spawned == [Spawn(t.s, sign) EXCEPT !.owner[sign] = station]
        Weak(f) == [st \in DOMAIN f |-> IF f[st] = sign THEN None ELSE f[st]]
    IN  [t EXCEPT
            !.ownership = With(Weak(@), station, sign),
            !.appliedNames = Without(@, {sign}),
            !.s = EnsureMirrorForSource(spawned, sign, order, luck)]

\* Mutant: a sign that has a name keeps it.
ApplyNameToSignOnce(t, sign, name) ==
    IF ~IsValid(t.s, sign) \/ ~authority \/ sign \in DOMAIN t.appliedNames THEN t
    ELSE [t EXCEPT !.s = SetPrefabSignData(@, sign, name),
                   !.appliedNames = With(@, sign, name)]
ApplyNameToSign(t, sign, name) ==
    IF ~IsValid(t.s, sign) \/ ~authority \/ At(t.appliedNames, sign) = name THEN t
    ELSE [t EXCEPT !.s = SetPrefabSignData(@, sign, name),
                   !.appliedNames = With(@, sign, name)]

Supported(t, station) == t.generation /\ IsValid(t.s, station) /\ authority

\* A sign that would be saved ends the generation of signs for good.
EnsureSign(t, station, name, order, luck) ==
    LET known == FindTrackedOrAttachedSign(t, station)
        failing == known = None /\ (luck = "fails" \/ StationSigns \subseteq t.s.live)
        ensured == IF known # None THEN TryAdd(t, station, known)
                   ELSE SpawnSign(t, station, order, luck)
        sign == ensured.ownership[station]
    IN  IF ~Supported(t, station) THEN t
        ELSE IF failing THEN [t EXCEPT !.refused = @ \cup {station}]
        ELSE IF luck = "saved"
        THEN DestroyGeneratedSign([ensured EXCEPT !.generation = FALSE], sign)
        ELSE ApplyNameToSign(ensured, sign, name)

\* Mutant: the present sign is not removed.
RecreateSignBeside(t, station, order, luck) ==
    IF ~Supported(t, station) \/ luck = "fails" \/ StationSigns \subseteq t.s.live THEN t
    ELSE LET remade == SpawnSign(t, station, order, luck) IN
         ApplyNameToSign(remade, remade.ownership[station], stationName[station])
\* For visual tests: the sign is made anew, at another place.
RecreateSign(t, station, order, luck) ==
    LET removed == DestroyGeneratedSign(
                       [t EXCEPT !.ownership = Without(@, {station})],
                       FindTrackedOrAttachedSign(t, station))
        remade == SpawnSign(removed, station, order, luck)
    IN  IF ~Supported(t, station) THEN t
        ELSE IF luck = "fails" \/ StationSigns \subseteq removed.s.live
        THEN [removed EXCEPT !.refused = @ \cup {station}]
        ELSE ApplyNameToSign(remade, remade.ownership[station], stationName[station])

\* The hook on EndPlay, for a station that is destroyed.
OnStationDestroyed(t, station) ==
    LET removed == DestroyGeneratedSign(
                       [t EXCEPT !.ownership = Without(@, {station})],
                       TrackedSign(t, station))
    IN  FoldSet(LAMBDA g, u : DestroyGeneratedSign(u, g), removed, Attached(removed, station))

-----------------------------------------------------------------------------
(* The module's hooks and the controller's ticker                           *)

TruckInstalled == "TruckStationSigns" \in mods
UnchangedWorld == UNCHANGED <<worldVars, mirrorVars>>

\* BeginPlay of a station of a map that is being loaded.
LoadStation(st, name) ==
    /\ phase = "loading" /\ TruckInstalled
    /\ st \notin actors.live /\ Cardinality(Buildables) < MaxBuildables
    /\ actors' = Spawn(actors, st)
    /\ stationName' = [stationName EXCEPT ![st] = name]
    /\ pendingStations' = Append(pendingStations, st)
    /\ UNCHANGED <<mapLoadInProgress, controller, generation, initialization,
                   ownership, appliedNames, refused>>
    /\ UnchangedWorld

BuildStation(st, name) ==
    /\ Room /\ TruckInstalled /\ st \notin actors.live
    /\ stationName' = [stationName EXCEPT ![st] = name]
    /\ LET t == [Truck EXCEPT !.s = Spawn(@, st), !.ownership = Without(@, {st})] IN
       IF mapLoadInProgress \/ ~controller
       THEN SetTruck(t) /\ pendingStations' = Append(pendingStations, st)
       ELSE /\ \E order \in ActorOrders, luck \in Lucks :
                  SetTruck(EnsureSign(t, st, name, order, luck))
            /\ UNCHANGED pendingStations
    /\ UNCHANGED <<mapLoadInProgress, controller, initialization>>
    /\ UnchangedWorld

\* Weak pointers to the station are null from now on.
DismantleStation(st) ==
    /\ phase = "play" /\ st \in actors.live
    /\ LET ended == IF controller THEN OnStationDestroyed(Truck, st) ELSE Truck IN
       SetTruck([ended EXCEPT !.s = Destroy(@, st), !.refused = @ \ {st}])
    /\ pendingStations' = SelectSeq(pendingStations, LAMBDA x : x # st)
    /\ initialization' = IF initialization = None THEN None
                         ELSE ReplaceAll(initialization, st, None)
    /\ UNCHANGED <<stationName, mapLoadInProgress, controller>>
    /\ UnchangedWorld

\* The hook on Internal_SetStationName: OnStationNameChanged.
RenameStation(st, name) ==
    /\ phase = "play" /\ st \in actors.live /\ stationName[st] # name
    /\ stationName' = [stationName EXCEPT ![st] = name]
    /\ IF controller
       THEN \E order \in ActorOrders, luck \in Lucks :
               SetTruck(EnsureSign(Truck, st, name, order, luck))
       ELSE SetTruck(Truck)
    /\ UNCHANGED <<mapLoadInProgress, pendingStations, controller, initialization>>
    /\ UnchangedWorld

RecreateSignForVisualTest(st) ==
    /\ phase = "play" /\ controller /\ st \in actors.live
    /\ \E order \in ActorOrders, luck \in {"spawned", "fails"} :
          SetTruck(RecreateSign(Truck, st, order, luck))
    /\ UNCHANGED <<stationName, mapLoadInProgress, pendingStations, controller, initialization>>
    /\ UnchangedWorld

\* The first n stations of the queue have been dealt with.
Initialized(n, order, luck) ==
    LET after[i \in 0 .. n] ==
            IF i = 0 THEN Truck
            ELSE EnsureSign(after[i - 1], initialization[i], At(stationName, initialization[i]),
                            order, luck)
    IN  after[n]

\* One station at least, and as many more as the frame's budget allows.
TickStationInitialization ==
    /\ phase = "play" /\ initialization # None
    /\ \E n \in 0 .. Len(initialization), order \in ActorOrders, luck \in Lucks :
          /\ n > 0 \/ initialization = << >>
          /\ SetTruck(Initialized(n, order, luck))
          /\ initialization' = IF n = Len(initialization) THEN None
                               ELSE SubSeq(initialization, n + 1, Len(initialization))
    /\ UNCHANGED <<stationName, mapLoadInProgress, pendingStations, controller>>
    /\ UnchangedWorld

-----------------------------------------------------------------------------
(* OnPreLoadMap, OnPostLoadMap, ShutdownModule                              *)

\* OnPreLoadMap, and EndPlay of the stations of the map that is left: signs
\* are not deleted there, the map's end takes them.
OnPreLoadMap ==
    IF TruckInstalled
    THEN /\ mapLoadInProgress' = TRUE
         /\ pendingStations' = << >> /\ initialization' = None
         /\ ownership' = << >> /\ appliedNames' = << >> /\ refused' = {}
         /\ UNCHANGED <<stationName, controller, generation>>
    ELSE UNCHANGED truckVars

\* Mutant: a map that finds no controller makes one and is done.
OnPostLoadMapEnds(game, assets) ==
    IF ~TruckInstalled THEN UNCHANGED truckVars
    ELSE /\ mapLoadInProgress' = FALSE
         /\ pendingStations' = << >>
         /\ controller' = (controller \/ (game /\ assets))
         /\ generation' = IF game /\ ~controller THEN assets ELSE generation
         /\ initialization' = IF game /\ controller /\ pendingStations # << >>
                              THEN pendingStations ELSE initialization
         /\ UNCHANGED <<stationName, ownership, appliedNames, refused>>
\* assets: the vanilla classes can be loaded; game: not the menu.
OnPostLoadMap(game, assets) ==
    IF ~TruckInstalled THEN UNCHANGED truckVars
    ELSE /\ mapLoadInProgress' = FALSE
         /\ pendingStations' = IF game /\ ~controller /\ ~assets THEN pendingStations ELSE << >>
         /\ controller' = (controller \/ (game /\ assets))
         /\ generation' = IF game /\ ~controller THEN assets ELSE generation
         /\ initialization' =
                IF ~game \/ ~controller' \/ pendingStations = << >> THEN initialization
                ELSE (IF initialization = None THEN << >> ELSE initialization) \o pendingStations
         /\ UNCHANGED <<stationName, ownership, appliedNames, refused>>

ShutdownTruck ==
    IF TruckInstalled
    THEN /\ pendingStations' = << >> /\ initialization' = None
         /\ controller' = FALSE /\ generation' = FALSE
         /\ ownership' = << >> /\ appliedNames' = << >>
         /\ UNCHANGED <<stationName, mapLoadInProgress, refused>>
    ELSE UNCHANGED truckVars

=============================================================================
