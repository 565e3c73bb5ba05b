--------------------------- MODULE ConveyorSigns ---------------------------
(***************************************************************************)
(* Conveyor Signs (FConveyorSignsMirrorController): a sign on the input    *)
(* face of a conveyor lift, the source, has a mirror on the output face.   *)
(* Everything happens on the game thread, in callbacks that call each      *)
(* other: destroying a sign runs its EndPlay, whose hook destroys the      *)
(* partner, whose EndPlay runs the hook again and finds that it is to be   *)
(* ignored.  So an operation is an operator from states to states, and     *)
(* Destroying calls the hook it is given.                                  *)
(*                                                                         *)
(* The engine's part: an actor that is being destroyed is still valid in   *)
(* its EndPlay, destroying it again does nothing, and what it owned has no *)
(* owner afterwards.  An address may be used again; a weak pointer never   *)
(* refers to the new actor.                                                *)
(***************************************************************************)
EXTENDS Naturals, FiniteSets, FiniteSetsExt, Functions

CONSTANTS
    Signs,          \* signs the player places
    StationSigns,   \* signs another mod spawns
    Mirrors,        \* addresses of mirrors: a bound on how many live at once
    Lifts,
    Near,           \* <<sign, lift>>: the sign is at an input face of the lift
    Texts,          \* what a sign may show
    None

Sources == Signs \cup StationSigns
AllSigns == Sources \cup Mirrors

VARIABLES
    actors,     \* the map's actors, and what the callbacks change with them
    mods,       \* the mods installed
    phase,      \* of the map: "menu", "loading", "play", and "ended" when the game exits
    authority,  \* FALSE: this game is the client of another
    initialized,    \* RemoveSavedMirrors has seen this world (initializedWorlds)
    initialRefresh  \* the ticker of RunInitialRefresh is set

worldVars == <<phase, authority, mods>>
mirrorVars == <<initialized, initialRefresh>>

\* live: valid actors, dying: those in EndPlay; iterated: mirrorsBySource is
\* being iterated, mutated: and was changed by somebody else meanwhile.
NoActors ==
    [live |-> {}, dying |-> {}, owner |-> [g \in StationSigns \cup Mirrors |-> None],
     text |-> [g \in AllSigns |-> None],
     mirrorsBySource |-> << >>, liftsBySource |-> << >>, ignoredEndPlaySigns |-> {},
     iterated |-> FALSE, mutated |-> FALSE]

Without(f, keys) == Restrict(f, DOMAIN f \ keys)
With(f, key, value) == [k \in DOMAIN f \cup {key} |-> IF k = key THEN value ELSE f[k]]
At(f, key) == IF key \in DOMAIN f THEN f[key] ELSE None
IsValid(s, a) == a \in s.live

\* SpawnActor at a free address: no weak pointer refers to it.
Spawn(s, a) ==
    LET Forgotten(f) == [k \in DOMAIN f \ {a} |-> IF f[k] = a THEN None ELSE f[k]]
    IN  [s EXCEPT !.live = @ \cup {a},
                  !.mirrorsBySource = Forgotten(@), !.liftsBySource = Forgotten(@)]

-----------------------------------------------------------------------------
(* Destruction: OnSignEndPlay, OnLiftEndPlay                                *)

IsMirror(s, a) == IsValid(s, a) /\ a \in Mirrors
SavedPointer(s, f, key) == IF IsValid(s, At(f, key)) THEN f[key] ELSE None
MirrorOf(s, source) == SavedPointer(s, s.mirrorsBySource, source)

\* Both maps forget a source; an iteration must not see it happen.
Forget(s, source) ==
    [s EXCEPT !.mutated = @ \/ (s.iterated /\ source \in DOMAIN s.mirrorsBySource),
              !.mirrorsBySource = Without(@, {source}),
              !.liftsBySource = Without(@, {source})]

\* What the engine does; Hook is what the mod does on AFGBuildable::EndPlay
\* of this actor.
Ended(s, a) ==
    [s EXCEPT !.live = @ \ {a}, !.dying = @ \ {a},
              !.owner = [g \in DOMAIN @ |-> IF g = a \/ @[g] = a THEN None ELSE @[g]],
              !.text = [g \in DOMAIN @ |-> IF g = a THEN None ELSE @[g]]]
Destroying(s, a, Hook(_, _)) ==
    LET begun == [s EXCEPT !.dying = @ \cup {a}]
    IN  IF a \notin s.live \ s.dying THEN s
        ELSE Ended(IF "ConveyorSigns" \in mods THEN Hook(begun, a) ELSE begun, a)

\* Mutant: an ignored sign stays ignored.
IgnoreEndPlayForEver(s, sign) == s
IgnoreEndPlay(s, sign) == [s EXCEPT !.ignoredEndPlaySigns = @ \ {sign}]

\* The partner's own EndPlay is to be ignored.
DestroyPartner(s, a) ==
    IF IsValid(s, a) /\ authority
    THEN Destroying([s EXCEPT !.ignoredEndPlaySigns = @ \cup {a}], a, IgnoreEndPlay)
    ELSE s

OnSignEndPlay(s, sign) ==
    IF sign \in s.ignoredEndPlaySigns
    THEN IgnoreEndPlay(s, sign)
    ELSE LET source == IF IsMirror(s, sign) THEN s.owner[sign] ELSE sign
             partner == IF IsMirror(s, sign) THEN source ELSE MirrorOf(s, sign)
         IN  DestroyPartner(Forget(s, source), partner)

DestroySign(s, sign) == Destroying(s, sign, OnSignEndPlay)

OnLiftEndPlay(s, lift) ==
    LET attached == {g \in DOMAIN s.liftsBySource : s.liftsBySource[g] = lift}
        Delete(source, t) ==
            IF IsValid(t, source) /\ authority THEN DestroySign(t, source)
            ELSE DestroyPartner(Forget(t, source), MirrorOf(t, source))
    IN  FoldSet(Delete, s, attached)

EndPlay(s, a) ==
    IF a \in AllSigns THEN OnSignEndPlay(s, a)
    ELSE IF a \in Lifts THEN OnLiftEndPlay(s, a)
    ELSE s

Destroy(s, a) == Destroying(s, a, EndPlay)

-----------------------------------------------------------------------------
(* Creation: EnsureMirror and its callers.  luck: how spawning a mirror     *)
(* ends, as a sign that stays, not at all, or as a sign that would be saved *)

\* SetPrefabSignData runs the hook that copies a source's text to its mirror;
\* on a mirror the hook does nothing.
SyncSource(s, source) ==
    IF IsMirror(s, source) \/ MirrorOf(s, source) = None THEN s
    ELSE [s EXCEPT !.text[MirrorOf(s, source)] = s.text[source]]

SetPrefabSignData(s, sign, text) ==
    LET set == [s EXCEPT !.text[sign] = text]
    IN  IF "ConveyorSigns" \in mods THEN SyncSource(set, sign) ELSE set

\* The lift that matches first in the order of the engine's actors.
ActorOrders == {q \in [1 .. Cardinality(Lifts) -> Lifts] : IsInjective(q)}
MatchedLift(s, source, order) ==
    LET near == {i \in DOMAIN order : order[i] \in s.live /\ <<source, order[i]>> \in Near}
    IN  IF near = {} THEN None ELSE order[Min(near)]

FindExistingMirror(s, source) ==
    LET found == {x \in Mirrors : IsValid(s, x) /\ s.owner[x] = source}
    IN  IF found = {} THEN None ELSE CHOOSE x \in found : TRUE

\* A mirror is tagged before its BeginPlay, whose hook then leaves it alone.
SpawnMirror(s, source, mirror) ==
    [Spawn(s, mirror) EXCEPT !.owner[mirror] = source,
                             !.mirrorsBySource = With(@, source, mirror)]

EnsureMirror(s, source, lift, luck) ==
    LET known == MirrorOf(s, source)
        mirror == IF known # None THEN known ELSE FindExistingMirror(s, source)
        free == Mirrors \ s.live
        fresh == CHOOSE x \in free : TRUE
        Show(t, m) == [t EXCEPT !.liftsBySource = With(@, source, lift),
                                !.text[m] = t.text[source]]
    IN  IF mirror # None
        THEN Show([s EXCEPT !.mirrorsBySource = With(@, source, known)], mirror)
        ELSE IF luck = "fails" \/ free = {}
        THEN [s EXCEPT !.mirrorsBySource = Without(@, {source})]
        ELSE IF luck = "saved"
        THEN LET gone == DestroyPartner(SpawnMirror(s, source, fresh), fresh)
             IN  [gone EXCEPT !.mirrorsBySource = Without(@, {source})]
        ELSE Show(SpawnMirror(s, source, fresh), fresh)

\* The hook on a sign's BeginPlay.
EnsureMirrorForSource(s, source, order, luck) ==
    IF \/ "ConveyorSigns" \notin mods \/ ~IsValid(s, source) \/ ~authority
       \/ IsMirror(s, source) \/ phase # "play" \/ MatchedLift(s, source, order) = None
    THEN s
    ELSE EnsureMirror(s, source, MatchedLift(s, source, order), luck)

\* Mutants: saved mirrors are kept, or destroyed like any sign.
RemoveSavedMirrorsNever(s) == s
RemoveSavedMirrorsUnmarked(s) ==
    IF initialized THEN s ELSE FoldSet(LAMBDA x, t : DestroySign(t, x), s, Mirrors \cap s.live)
RemoveSavedMirrors(s) ==
    IF initialized THEN s
    ELSE FoldSet(LAMBDA x, t : DestroyPartner(t, x), s, Mirrors \cap s.live)

\* The sources are given mirrors, and what is not the mirror of one of them
\* is removed, first of the map, then of the world.
RefreshWorld(s, order, luck) ==
    LET active == {g \in Sources \cap s.live : MatchedLift(s, g, order) # None}
        ensured == FoldSet(LAMBDA g, t : EnsureMirror(t, g, MatchedLift(s, g, order), luck),
                           RemoveSavedMirrors(s), active)
        stale == DOMAIN ensured.mirrorsBySource \ active
        Drop(g, t) ==
            LET mirror == MirrorOf(t, g)
                ended == DestroyPartner([t EXCEPT !.liftsBySource = Without(@, {g})], mirror)
            IN  [ended EXCEPT !.mirrorsBySource = Without(@, {g})]
        dropped == FoldSet(Drop, [ensured EXCEPT !.iterated = TRUE], stale)
        strays == {x \in Mirrors \cap dropped.live : dropped.owner[x] \notin active}
    IN  FoldSet(LAMBDA x, t : DestroyPartner(t, x),
                [dropped EXCEPT !.iterated = FALSE], strays)

ResetMirrors(s) ==
    LET destroyed == FoldSet(LAMBDA g, t : DestroyPartner(t, MirrorOf(t, g)),
                             [s EXCEPT !.iterated = TRUE], DOMAIN s.mirrorsBySource)
    IN  [destroyed EXCEPT !.iterated = FALSE, !.mirrorsBySource = << >>,
                          !.liftsBySource = << >>, !.ignoredEndPlaySigns = {}]

-----------------------------------------------------------------------------
(* What the player and the ticker do                                        *)

CONSTANT MaxBuildables  \* bound on the signs, lifts and stations of a map

Lucks == {"spawned", "fails", "saved"}
Buildables == actors.live \ (Mirrors \cup StationSigns)
Room == phase = "play" /\ Cardinality(Buildables) < MaxBuildables

BuildSign(g) ==
    /\ Room /\ "ConveyorSigns" \in mods /\ g \notin actors.live
    /\ \E order \in ActorOrders, luck \in Lucks, text \in Texts :
          actors' = EnsureMirrorForSource([Spawn(actors, g) EXCEPT !.text[g] = text],
                                          g, order, luck)
    /\ UNCHANGED <<worldVars, mirrorVars>>

\* The interaction is kept from mirrors (OnUse, IsUseable).
EditSign(g, text) ==
    /\ phase = "play" /\ g \in actors.live /\ actors.text[g] # text
    /\ actors' = SetPrefabSignData(actors, g, text)
    /\ UNCHANGED <<worldVars, mirrorVars>>

BuildLift(l) ==
    /\ Room /\ "ConveyorSigns" \in mods /\ l \notin actors.live
    /\ actors' = Spawn(actors, l)
    /\ UNCHANGED <<worldVars, mirrorVars>>

\* Mirrors keep their collision: they can be dismantled too.
Dismantle(a) ==
    /\ phase = "play" /\ a \in actors.live
    /\ actors' = Destroy(actors, a)
    /\ UNCHANGED <<worldVars, mirrorVars>>

RunInitialRefresh ==
    /\ phase \in {"menu", "play"} /\ initialRefresh
    /\ initialRefresh' = FALSE
    /\ IF authority
       THEN /\ \E order \in ActorOrders, luck \in Lucks :
                  actors' = RefreshWorld(actors, order, luck)
            /\ initialized' = TRUE
       ELSE UNCHANGED <<actors, initialized>>
    /\ UNCHANGED worldVars

ShutdownMirrors ==
    /\ actors' = ResetMirrors(actors)
    /\ initialized' = FALSE
    /\ initialRefresh' = FALSE

=============================================================================
