--------------------------- MODULE SignModsProofs ---------------------------
(* Proofs about SignMods for any signs, stations, lifts, mirrors and mods   *)
(* installed: what a chain of callbacks removes, that mirrors match their   *)
(* sources, that each station has one sign that shows its name, and that no *)
(* station is forgotten.                                                    *)
EXTENDS SignMods, FiniteSetTheorems, WellFoundedInduction, TLAPS

-----------------------------------------------------------------------------
(* The invariants                                                           *)

Conveyor == "ConveyorSigns" \in mods
Addresses == AllSigns \cup Lifts \cup Stations

\* A state of the actors is a record, and its maps are from sources to
\* mirrors and lifts, or to null.
Shape(s) ==
    /\ s = [live |-> s.live, dying |-> s.dying, owner |-> s.owner, text |-> s.text,
            mirrorsBySource |-> s.mirrorsBySource, liftsBySource |-> s.liftsBySource,
            ignoredEndPlaySigns |-> s.ignoredEndPlaySigns,
            iterated |-> s.iterated, mutated |-> s.mutated]
    /\ s.iterated \in BOOLEAN /\ s.mutated \in BOOLEAN
ActorsOK(s) ==
    /\ Shape(s)
    /\ s.live \subseteq Addresses
    /\ DOMAIN s.owner = StationSigns \cup Mirrors
    /\ \A g \in StationSigns : s.owner[g] \in Stations \cup {None}
    /\ \A x \in Mirrors : s.owner[x] \in Sources \cup {None}
    /\ DOMAIN s.text = AllSigns
    /\ DOMAIN s.mirrorsBySource \subseteq Sources
    /\ \A g \in DOMAIN s.mirrorsBySource : s.mirrorsBySource[g] \in Mirrors \cup {None}
    /\ DOMAIN s.liftsBySource \subseteq Sources
    /\ \A g \in DOMAIN s.liftsBySource : s.liftsBySource[g] \in Lifts \cup {None}

\* A mirror in the map is its source's own and only one; whoever owns a
\* mirror stands.
MirrorsLinked(s) ==
    /\ \A g \in DOMAIN s.mirrorsBySource :
          s.mirrorsBySource[g] \in s.live => s.owner[s.mirrorsBySource[g]] = g
    /\ \A x \in Mirrors \cap s.live : s.owner[x] \in s.live \cup {None}
    /\ \A x, y \in Mirrors \cap s.live : s.owner[x] = s.owner[y] /\ s.owner[x] # None => x = y

\* Lifts belong to the mod, mirrors to the host that has it.
MirrorsHosted(s) ==
    /\ ~Conveyor => Lifts \cap s.live = {}
    /\ ~(authority /\ Conveyor) => Mirrors \cap s.live = {}

Sound(s) ==
    /\ ActorsOK(s) /\ MirrorsLinked(s) /\ MirrorsHosted(s)
    /\ s.ignoredEndPlaySigns = {} /\ ~s.mutated

\* MirrorMatchesSource, of any state.
MatchedAt(s, x) ==
    /\ s.owner[x] \in Sources \cap s.live
    /\ MirrorOf(s, s.owner[x]) = x
    /\ At(s.liftsBySource, s.owner[x]) \in Lifts \cap s.live
    /\ s.text[x] = s.text[s.owner[x]]
Matched(s) == \A x \in Mirrors \cap s.live : MatchedAt(s, x)

\* The station mod: a sign and its station know each other, the name it was
\* given is the one it shows, and it is the host's.
TruckShape(t) ==
    t = [s |-> t.s, generation |-> t.generation, ownership |-> t.ownership,
         appliedNames |-> t.appliedNames, refused |-> t.refused]
Tracked(s, owned) ==
    /\ \A g \in StationSigns \cap s.live :
          s.owner[g] \in Stations \cap s.live /\ At(owned, s.owner[g]) = g
    /\ \A st \in DOMAIN owned : owned[st] \in s.live => s.owner[owned[st]] = st
Named(s, applied) ==
    \A g \in StationSigns \cap s.live : g \in DOMAIN applied => s.text[g] = applied[g]
TruckOK(t) ==
    /\ TruckShape(t)
    /\ DOMAIN t.ownership \subseteq Stations
    /\ \A st \in DOMAIN t.ownership : t.ownership[st] \in StationSigns \cup {None}
    /\ DOMAIN t.appliedNames \subseteq StationSigns
    /\ Tracked(t.s, t.ownership) /\ Named(t.s, t.appliedNames)
    /\ ~authority => StationSigns \cap t.s.live = {}

\* Signs show the names, except of the stations in but.
Current(t, names, but) ==
    t.generation =>
        \A g \in StationSigns \cap t.s.live :
            t.s.owner[g] \notin but => t.s.text[g] = names[t.s.owner[g]]

\* The module: what a station waits for.
ModuleOK ==
    /\ controller => TruckInstalled
    /\ Stations \cap actors.live # {} => TruckInstalled
    /\ StationSigns \cap actors.live # {} => controller
    /\ initialization # None => controller /\ initialization \in Seq(Stations \cup {None})
    /\ phase = "loading" \/ ~TruckInstalled => pendingStations \in Seq(Stations)
    /\ stationName \in [Stations -> Texts]
    /\ phase = "play" /\ TruckInstalled => ~mapLoadInProgress
    /\ phase = "loading" =>
          \A st \in Stations \cap actors.live : Contains(pendingStations, st)

Running ==
    /\ Sound(actors) /\ TruckOK(Truck) /\ Current(Truck, stationName, {}) /\ ModuleOK
    /\ NoStationForgotten
    /\ ~Conveyor => ~initialRefresh
    /\ initialized => ~initialRefresh /\ Matched(actors)
    /\ phase = "loading" => ~initialized
Quiet == CascadesEnd /\ ~actors.iterated
Inv == Quiet /\ (phase # "ended" => Running)
-----------------------------------------------------------------------------
(* Removing actors                                                          *)

LEMMA Kinds ==
    /\ IsFiniteSet(Sources) /\ IsFiniteSet(StationSigns) /\ IsFiniteSet(Mirrors) /\ IsFiniteSet(Lifts)
    /\ Signs \cap StationSigns = {} /\ Sources \cap Mirrors = {}
    /\ AllSigns \cap Lifts = {} /\ (AllSigns \cup Lifts) \cap Stations = {}
    /\ None \notin AllSigns \cup Lifts \cup Stations \cup Texts
    /\ None \notin Seq(Stations \cup {None})
    /\ AllSigns = Signs \cup StationSigns \cup Mirrors
<1>1. IsFiniteSet(AllSigns \cup Lifts)
  BY SignModsAssumption DEF SignModsAssumption
<1>2. IsFiniteSet(Sources) /\ IsFiniteSet(StationSigns) /\ IsFiniteSet(Mirrors) /\ IsFiniteSet(Lifts)
  BY <1>1, FS_Subset DEF AllSigns, Sources
<1>3. QED
  BY <1>2, SignModsAssumption DEF SignModsAssumption, AllSigns, Sources

\* What is left when the actors of gone are destroyed and the maps forget
\* some sources.
Removed(s, t, gone, forgotten) ==
    /\ Shape(t)
    /\ t.live = s.live \ gone /\ t.dying = s.dying
    /\ DOMAIN t.owner = DOMAIN s.owner
    /\ \A g \in DOMAIN s.owner :
          t.owner[g] = IF g \in gone \/ s.owner[g] \in gone THEN None ELSE s.owner[g]
    /\ DOMAIN t.text = DOMAIN s.text
    /\ \A g \in DOMAIN s.text : t.text[g] = IF g \in gone THEN None ELSE s.text[g]
    /\ DOMAIN t.mirrorsBySource = DOMAIN s.mirrorsBySource \ forgotten
    /\ \A g \in DOMAIN t.mirrorsBySource : t.mirrorsBySource[g] = s.mirrorsBySource[g]
    /\ DOMAIN t.liftsBySource = DOMAIN s.liftsBySource \ forgotten
    /\ \A g \in DOMAIN t.liftsBySource : t.liftsBySource[g] = s.liftsBySource[g]
    /\ t.ignoredEndPlaySigns = s.ignoredEndPlaySigns
    /\ t.iterated = s.iterated /\ t.mutated = s.mutated

\* What goes takes its mirrors along, and no source that keeps its mirror is
\* forgotten.
Cut(s, gone, forgotten) ==
    \A g \in (gone \cap Sources) \cup forgotten : MirrorOf(s, g) \in gone \cup {None}
Takes(s, t, gone) ==
    /\ gone \subseteq s.live
    /\ \E F \in SUBSET (Sources \cup {None}) : Removed(s, t, gone, F) /\ Cut(s, gone, F)

LEMMA NothingRemoved == ASSUME NEW s, Shape(s) PROVE Removed(s, s, {}, {})
BY DEF Removed

\* What the engine does around a hook that removes actors.
LEMMA EndedIs ==
    ASSUME NEW s, Shape(s), NEW a, a \notin s.dying,
           NEW b, b = [s EXCEPT !.dying = s.dying \cup {a}],
           NEW h, NEW gone, NEW F, Removed(b, h, gone, F)
    PROVE  Removed(s, Ended(h, a), gone \cup {a}, F)
<1>1. PICK l, d, o, x, m, f, i, r, u :
          h = [live |-> l, dying |-> d, owner |-> o, text |-> x, mirrorsBySource |-> m,
               liftsBySource |-> f, ignoredEndPlaySigns |-> i, iterated |-> r, mutated |-> u]
  BY DEF Removed, Shape
<1>2. PICK o1 : o1 = [g \in DOMAIN o |-> IF g = a \/ o[g] = a THEN None ELSE o[g]]
  OBVIOUS
<1>3. PICK x1 : x1 = [g \in DOMAIN x |-> IF g = a THEN None ELSE x[g]]
  OBVIOUS
<1>4. PICK t : t = Ended(h, a)
  OBVIOUS
<1>5. t = [h EXCEPT !.live = l \ {a}, !.dying = d \ {a}, !.owner = o1, !.text = x1]
  BY <1>1, <1>2, <1>3, <1>4 DEF Ended
<1>6. t = [live |-> l \ {a}, dying |-> d \ {a}, owner |-> o1, text |-> x1, mirrorsBySource |-> m,
           liftsBySource |-> f, ignoredEndPlaySigns |-> i, iterated |-> r, mutated |-> u]
  BY <1>1, <1>5
<1>7. /\ b.live = s.live /\ b.dying = s.dying \cup {a} /\ b.owner = s.owner /\ b.text = s.text
      /\ b.mirrorsBySource = s.mirrorsBySource /\ b.liftsBySource = s.liftsBySource
      /\ b.ignoredEndPlaySigns = s.ignoredEndPlaySigns
      /\ b.iterated = s.iterated /\ b.mutated = s.mutated
  BY DEF Shape
<1>8. /\ Shape(t) /\ t.live = s.live \ (gone \cup {a}) /\ t.dying = s.dying
      /\ t.ignoredEndPlaySigns = s.ignoredEndPlaySigns
      /\ t.iterated = s.iterated /\ t.mutated = s.mutated
  BY <1>1, <1>6, <1>7 DEF Removed, Shape
<1>9. /\ DOMAIN t.owner = DOMAIN s.owner
      /\ \A g \in DOMAIN s.owner :
            t.owner[g] = IF g \in gone \cup {a} \/ s.owner[g] \in gone \cup {a} THEN None ELSE s.owner[g]
  BY <1>1, <1>2, <1>6, <1>7 DEF Removed
<1>10. /\ DOMAIN t.text = DOMAIN s.text
       /\ \A g \in DOMAIN s.text : t.text[g] = IF g \in gone \cup {a} THEN None ELSE s.text[g]
  BY <1>1, <1>3, <1>6, <1>7 DEF Removed
<1>11. /\ DOMAIN t.mirrorsBySource = DOMAIN s.mirrorsBySource \ F
       /\ \A g \in DOMAIN t.mirrorsBySource : t.mirrorsBySource[g] = s.mirrorsBySource[g]
       /\ DOMAIN t.liftsBySource = DOMAIN s.liftsBySource \ F
       /\ \A g \in DOMAIN t.liftsBySource : t.liftsBySource[g] = s.liftsBySource[g]
  BY <1>1, <1>6, <1>7 DEF Removed
<1>12. QED
  BY <1>4, <1>8, <1>9, <1>10, <1>11 DEF Removed

LEMMA PartnerDestroyed ==
    ASSUME NEW s, Shape(s), s.ignoredEndPlaySigns = {}, authority, Conveyor,
           NEW a \in s.live, a \notin s.dying
    PROVE  Removed(s, DestroyPartner(s, a), {a}, {})
<1>1. PICK l, d, o, x, m, f, r, u :
          /\ s = [live |-> l, dying |-> d, owner |-> o, text |-> x, mirrorsBySource |-> m,
                  liftsBySource |-> f, ignoredEndPlaySigns |-> {}, iterated |-> r, mutated |-> u]
          /\ r \in BOOLEAN /\ u \in BOOLEAN
  BY DEF Shape
<1>2. PICK b : b = [s EXCEPT !.dying = s.dying \cup {a}]
  OBVIOUS
<1>3. b = [live |-> l, dying |-> d \cup {a}, owner |-> o, text |-> x, mirrorsBySource |-> m,
           liftsBySource |-> f, ignoredEndPlaySigns |-> {}, iterated |-> r, mutated |-> u]
  BY <1>1, <1>2
<1>4. DestroyPartner(s, a) = Ended(b, a)
  <2>1. PICK c : c = [s EXCEPT !.ignoredEndPlaySigns = s.ignoredEndPlaySigns \cup {a}]
    OBVIOUS
  <2>2. c = [live |-> l, dying |-> d, owner |-> o, text |-> x, mirrorsBySource |-> m,
             liftsBySource |-> f, ignoredEndPlaySigns |-> {a}, iterated |-> r, mutated |-> u]
    BY <1>1, <2>1
  <2>3. DestroyPartner(s, a) = Destroying(c, a, IgnoreEndPlay)
    BY <2>1 DEF DestroyPartner, IsValid
  <2>4. PICK e : e = [c EXCEPT !.dying = c.dying \cup {a}]
    OBVIOUS
  <2>5. e = [live |-> l, dying |-> d \cup {a}, owner |-> o, text |-> x, mirrorsBySource |-> m,
             liftsBySource |-> f, ignoredEndPlaySigns |-> {a}, iterated |-> r, mutated |-> u]
    BY <2>2, <2>4
  <2>6. a \in c.live \ c.dying
    BY <1>1, <2>2
  <2>7. Destroying(c, a, IgnoreEndPlay) = Ended(IgnoreEndPlay(e, a), a)
    BY <2>4, <2>6 DEF Destroying, Conveyor
  <2>8. IgnoreEndPlay(e, a) = b
    BY <1>3, <2>5 DEF IgnoreEndPlay
  <2>9. QED
    BY <2>3, <2>7, <2>8
<1>5. Removed(b, b, {}, {})
  BY <1>1, <1>3, NothingRemoved DEF Shape
<1>6. Removed(s, Ended(b, a), {} \cup {a}, {})
  BY <1>2, <1>5, EndedIs
<1>7. {} \cup {a} = {a}
  OBVIOUS
<1>8. QED
  BY <1>4, <1>6, <1>7

LEMMA RemovedTwice ==
    ASSUME NEW s, NEW t, NEW u, NEW A, NEW B, NEW F, NEW G,
           Removed(s, t, A, F), Removed(t, u, B, G)
    PROVE  Removed(s, u, A \cup B, F \cup G)
<1>1. /\ Shape(u) /\ u.live = s.live \ (A \cup B) /\ u.dying = s.dying
      /\ u.ignoredEndPlaySigns = s.ignoredEndPlaySigns
      /\ u.iterated = s.iterated /\ u.mutated = s.mutated
  BY DEF Removed
<1>2. /\ DOMAIN u.owner = DOMAIN s.owner
      /\ \A g \in DOMAIN s.owner :
            u.owner[g] = IF g \in A \cup B \/ s.owner[g] \in A \cup B THEN None ELSE s.owner[g]
  BY DEF Removed
<1>3. /\ DOMAIN u.text = DOMAIN s.text
      /\ \A g \in DOMAIN s.text : u.text[g] = IF g \in A \cup B THEN None ELSE s.text[g]
  BY DEF Removed
<1>4. /\ DOMAIN u.mirrorsBySource = DOMAIN s.mirrorsBySource \ (F \cup G)
      /\ \A g \in DOMAIN u.mirrorsBySource : u.mirrorsBySource[g] = s.mirrorsBySource[g]
      /\ DOMAIN u.liftsBySource = DOMAIN s.liftsBySource \ (F \cup G)
      /\ \A g \in DOMAIN u.liftsBySource : u.liftsBySource[g] = s.liftsBySource[g]
  BY DEF Removed
<1>5. QED
  BY <1>1, <1>2, <1>3, <1>4 DEF Removed

LEMMA ForgetIs ==
    ASSUME NEW s, Shape(s), ~s.iterated, NEW source
    PROVE  Removed(s, Forget(s, source), {}, {source})
<1>1. PICK l, d, o, x, m, f, i, r, u :
          /\ s = [live |-> l, dying |-> d, owner |-> o, text |-> x, mirrorsBySource |-> m,
                  liftsBySource |-> f, ignoredEndPlaySigns |-> i, iterated |-> r, mutated |-> u]
          /\ r = FALSE /\ u \in BOOLEAN
  BY DEF Shape
<1>2. PICK m1 : m1 = [k \in DOMAIN m \ {source} |-> m[k]]
  OBVIOUS
<1>3. PICK f1 : f1 = [k \in DOMAIN f \ {source} |-> f[k]]
  OBVIOUS
<1>4. PICK t : t = Forget(s, source)
  OBVIOUS
<1>5. t = [live |-> l, dying |-> d, owner |-> o, text |-> x, mirrorsBySource |-> m1,
           liftsBySource |-> f1, ignoredEndPlaySigns |-> i, iterated |-> r, mutated |-> u]
  <2>1. m1 = Without(s.mirrorsBySource, {source}) /\ f1 = Without(s.liftsBySource, {source})
    BY <1>1, <1>2, <1>3 DEF Without, Restrict
  <2>2. PICK u1 : u1 = (s.mutated \/ (s.iterated /\ source \in DOMAIN s.mirrorsBySource))
    OBVIOUS
  <2>3. t = [s EXCEPT !.mutated = u1, !.mirrorsBySource = m1, !.liftsBySource = f1]
    BY <1>4, <2>1, <2>2 DEF Forget
  <2>4. u1 = u
    BY <1>1, <2>2
  <2>5. QED
    BY <1>1, <2>3, <2>4
<1>6. /\ t.live = s.live /\ t.dying = s.dying /\ t.owner = s.owner /\ t.text = s.text
      /\ t.ignoredEndPlaySigns = s.ignoredEndPlaySigns
      /\ t.iterated = s.iterated /\ t.mutated = s.mutated /\ Shape(t)
  BY <1>1, <1>5 DEF Shape
<1>7. t.mirrorsBySource = m1 /\ t.liftsBySource = f1 /\ s.mirrorsBySource = m /\ s.liftsBySource = f
  BY <1>1, <1>5
<1>8. QED
  BY <1>2, <1>3, <1>4, <1>6, <1>7 DEF Removed

LEMMA MirrorOfIs ==
    ASSUME NEW s, ActorsOK(s), NEW h
    PROVE  /\ MirrorOf(s, h) # None =>
                 /\ h \in DOMAIN s.mirrorsBySource /\ MirrorOf(s, h) = s.mirrorsBySource[h]
                 /\ MirrorOf(s, h) \in Mirrors \cap s.live
           /\ h \in DOMAIN s.mirrorsBySource /\ s.mirrorsBySource[h] \in s.live =>
                 MirrorOf(s, h) = s.mirrorsBySource[h]
<1>1. None \notin s.live
  BY Kinds DEF ActorsOK, Addresses
<1>2. QED
  BY <1>1 DEF MirrorOf, SavedPointer, At, IsValid, ActorsOK

LEMMA WithoutMirrors ==
    ASSUME NEW s, ActorsOK(s), Mirrors \cap s.live = {}, NEW h
    PROVE  MirrorOf(s, h) = None
BY MirrorOfIs

\* A sign with its partner.
SourceOf(s, a) == IF a \in Mirrors THEN s.owner[a] ELSE a
PartnerOf(s, a) == IF a \in Mirrors THEN s.owner[a] ELSE MirrorOf(s, a)
Companions(s, a) == IF authority THEN {a, PartnerOf(s, a)} \cap s.live ELSE {a}

LEMMA PartnerIs ==
    ASSUME NEW s, ActorsOK(s), NEW a \in AllSigns \cap s.live
    PROVE  /\ PartnerOf(s, a) \in AllSigns \cup {None} /\ PartnerOf(s, a) # a
           /\ SourceOf(s, a) \in Sources \cup {None}
<1>1. CASE a \in Mirrors
  BY <1>1, Kinds DEF ActorsOK, PartnerOf, SourceOf, AllSigns
<1>2. CASE a \notin Mirrors
  BY <1>2, Kinds, MirrorOfIs DEF PartnerOf, SourceOf, AllSigns
<1>3. QED
  BY <1>1, <1>2

LEMMA SignEndPlayIs ==
    ASSUME NEW s, ActorsOK(s), s.ignoredEndPlaySigns = {}, ~s.iterated, Conveyor,
           NEW a \in AllSigns \cap s.live, s.dying \cap AllSigns = {a}
    PROVE  Removed(s, OnSignEndPlay(s, a), Companions(s, a) \ {a}, {SourceOf(s, a)})
<1>1. PICK src : src = SourceOf(s, a)
  OBVIOUS
<1>2. PICK p : p = PartnerOf(s, a)
  OBVIOUS
<1>3. PICK f : f = Forget(s, src)
  OBVIOUS
<1>4. OnSignEndPlay(s, a) = DestroyPartner(f, p)
  BY <1>1, <1>2, <1>3 DEF OnSignEndPlay, IsMirror, IsValid, SourceOf, PartnerOf
<1>5. Removed(s, f, {}, {src})
  BY <1>3, ForgetIs DEF ActorsOK
<1>6. /\ Shape(f) /\ f.ignoredEndPlaySigns = {} /\ f.live = s.live /\ f.dying = s.dying
  BY <1>5 DEF Removed
<1>7. p \in AllSigns \cup {None} /\ p # a
  BY <1>2, PartnerIs
<1>8. CASE p \in s.live /\ authority
  <2>1. p \notin f.dying /\ p \in f.live
    <3>1. None \notin s.live
      BY Kinds DEF ActorsOK, Addresses
    <3>2. QED
      BY <1>6, <1>7, <1>8, <3>1
  <2>2. Removed(f, DestroyPartner(f, p), {p}, {})
    BY <1>6, <1>8, <2>1, PartnerDestroyed
  <2>3. Removed(s, DestroyPartner(f, p), {} \cup {p}, {src} \cup {})
    BY <1>5, <2>2, RemovedTwice
  <2>4. {} \cup {p} = Companions(s, a) \ {a} /\ {src} \cup {} = {SourceOf(s, a)}
    BY <1>1, <1>2, <1>7, <1>8 DEF Companions
  <2>5. QED
    BY <1>4, <2>3, <2>4
<1>9. CASE ~(p \in s.live /\ authority)
  <2>1. DestroyPartner(f, p) = f
    BY <1>6, <1>9 DEF DestroyPartner, IsValid
  <2>2. Companions(s, a) \ {a} = {}
    BY <1>2, <1>9 DEF Companions
  <2>3. QED
    BY <1>1, <1>4, <1>5, <2>1, <2>2
<1>10. QED
  BY <1>8, <1>9

LEMMA SignDestroyedIs ==
    ASSUME NEW s, ActorsOK(s), s.ignoredEndPlaySigns = {}, ~s.iterated,
           NEW a \in AllSigns \cap s.live, s.dying \cap AllSigns = {}, NEW t,
           NEW b, b = [s EXCEPT !.dying = s.dying \cup {a}],
           t = IF Conveyor THEN Ended(OnSignEndPlay(b, a), a) ELSE Ended(b, a)
    PROVE  /\ Conveyor => Removed(s, t, Companions(s, a), {SourceOf(s, a)})
           /\ ~Conveyor => Removed(s, t, {a}, {})
<1>1. PICK l, d, o, x, m, f, r, u :
          /\ s = [live |-> l, dying |-> d, owner |-> o, text |-> x, mirrorsBySource |-> m,
                  liftsBySource |-> f, ignoredEndPlaySigns |-> {}, iterated |-> r, mutated |-> u]
          /\ r \in BOOLEAN /\ u \in BOOLEAN
  BY DEF ActorsOK, Shape
<1>2. b = [live |-> l, dying |-> d \cup {a}, owner |-> o, text |-> x, mirrorsBySource |-> m,
           liftsBySource |-> f, ignoredEndPlaySigns |-> {}, iterated |-> r, mutated |-> u]
  BY <1>1
<1>3. /\ Shape(b) /\ b.live = s.live /\ b.dying = s.dying \cup {a} /\ b.owner = s.owner
      /\ b.text = s.text /\ b.mirrorsBySource = s.mirrorsBySource
      /\ b.liftsBySource = s.liftsBySource /\ b.ignoredEndPlaySigns = {} /\ b.iterated = s.iterated
  BY <1>1, <1>2 DEF Shape
<1>4. ActorsOK(b) /\ b.dying \cap AllSigns = {a} /\ a \in AllSigns \cap b.live
  BY <1>3 DEF ActorsOK
<1>5. Companions(b, a) = Companions(s, a) /\ SourceOf(b, a) = SourceOf(s, a)
  BY <1>3 DEF Companions, SourceOf, PartnerOf, MirrorOf, SavedPointer, IsValid
<1>6. Shape(s) /\ a \notin s.dying
  BY DEF ActorsOK
<1>7. ASSUME Conveyor PROVE Removed(s, t, Companions(s, a), {SourceOf(s, a)})
  <2>1. PICK h : h = OnSignEndPlay(b, a)
    OBVIOUS
  <2>2. Removed(b, h, Companions(s, a) \ {a}, {SourceOf(s, a)})
    BY <1>3, <1>4, <1>5, <1>7, <2>1, SignEndPlayIs
  <2>3. Removed(s, Ended(h, a), (Companions(s, a) \ {a}) \cup {a}, {SourceOf(s, a)})
    BY <1>6, <2>2, EndedIs
  <2>4. (Companions(s, a) \ {a}) \cup {a} = Companions(s, a)
    BY DEF Companions
  <2>5. QED
    BY <1>7, <2>1, <2>3, <2>4
<1>8. ASSUME ~Conveyor PROVE Removed(s, t, {a}, {})
  <2>1. Removed(b, b, {}, {})
    BY <1>3, NothingRemoved
  <2>2. Removed(s, Ended(b, a), {} \cup {a}, {})
    BY <1>6, <2>1, EndedIs
  <2>3. {} \cup {a} = {a}
    OBVIOUS
  <2>4. QED
    BY <1>8, <2>2, <2>3
<1>9. QED
  BY <1>7, <1>8

\* What the two hooks take, once they are installed or not.
LEMMA SignCut ==
    ASSUME NEW s, Sound(s), NEW a \in AllSigns \cap s.live
    PROVE  /\ Conveyor => Cut(s, Companions(s, a), {SourceOf(s, a)})
           /\ ~Conveyor => Cut(s, {a}, {}) /\ Companions(s, a) = {a}
           /\ Companions(s, a) \subseteq AllSigns \cap s.live /\ a \in Companions(s, a)
<1>1. ActorsOK(s) /\ MirrorsLinked(s) /\ MirrorsHosted(s)
  BY DEF Sound
<1>2. None \notin s.live
  BY <1>1, Kinds DEF ActorsOK, Addresses
<1>3. PartnerOf(s, a) \in AllSigns \cup {None} /\ PartnerOf(s, a) # a
  BY <1>1, PartnerIs
<1>4. Companions(s, a) \subseteq AllSigns \cap s.live /\ a \in Companions(s, a)
  BY <1>2, <1>3 DEF Companions
<1>5. ASSUME Mirrors \cap s.live = {} PROVE \A gone, F : Cut(s, gone, F)
  BY <1>1, <1>5, WithoutMirrors DEF Cut
<1>6. ASSUME ~Conveyor PROVE Cut(s, {a}, {}) /\ Companions(s, a) = {a}
  <2>1. Mirrors \cap s.live = {}
    BY <1>1, <1>6 DEF MirrorsHosted
  <2>2. a \notin Mirrors /\ MirrorOf(s, a) = None
    BY <1>1, <2>1, WithoutMirrors
  <2>3. QED
    BY <1>2, <1>5, <2>1, <2>2 DEF Companions, PartnerOf
<1>7. ASSUME Conveyor, authority PROVE Cut(s, Companions(s, a), {SourceOf(s, a)})
  <2>1. CASE a \in Mirrors
    <3>1. SourceOf(s, a) = s.owner[a] /\ PartnerOf(s, a) = s.owner[a] /\ a \notin Sources
      BY <2>1, Kinds DEF SourceOf, PartnerOf
    <3>2. (Companions(s, a) \cap Sources) \cup {SourceOf(s, a)} = {s.owner[a]}
      BY <1>7, <3>1 DEF Companions
    <3>3. MirrorOf(s, s.owner[a]) \in {a, None}
      <4>1. SUFFICES ASSUME NEW y, y = MirrorOf(s, s.owner[a]), y # None PROVE y = a
        OBVIOUS
      <4>2. /\ s.owner[a] \in DOMAIN s.mirrorsBySource /\ y = s.mirrorsBySource[s.owner[a]]
            /\ y \in Mirrors \cap s.live
        BY <1>1, <4>1, MirrorOfIs
      <4>3. s.owner[y] = s.owner[a] /\ s.owner[a] # None
        BY <1>1, <4>2, Kinds DEF MirrorsLinked, ActorsOK, AllSigns
      <4>4. QED
        BY <1>1, <2>1, <4>2, <4>3 DEF MirrorsLinked
    <3>4. QED
      BY <1>4, <3>2, <3>3 DEF Cut
  <2>2. CASE a \notin Mirrors
    <3>1. SourceOf(s, a) = a /\ PartnerOf(s, a) = MirrorOf(s, a) /\ MirrorOf(s, a) \notin Sources
      BY <1>1, <2>2, MirrorOfIs, Kinds DEF SourceOf, PartnerOf, AllSigns
    <3>2. (Companions(s, a) \cap Sources) \cup {SourceOf(s, a)} = {a}
      BY <1>4, <1>7, <3>1 DEF Companions
    <3>3. MirrorOf(s, a) \in Companions(s, a) \cup {None}
      BY <1>1, <1>7, <3>1, MirrorOfIs DEF Companions
    <3>4. QED
      BY <3>2, <3>3 DEF Cut
  <2>3. QED
    BY <2>1, <2>2
<1>8. ASSUME ~authority PROVE \A gone, F : Cut(s, gone, F)
  BY <1>1, <1>5, <1>8 DEF MirrorsHosted
<1>9. QED
  BY <1>4, <1>6, <1>7, <1>8

LEMMA SignDestroyed ==
    ASSUME NEW s, Sound(s), ~s.iterated, NEW a \in AllSigns \cap s.live, s.dying \cap AllSigns = {}
    PROVE  /\ Takes(s, DestroySign(s, a), Companions(s, a))
           /\ Takes(s, Destroy(s, a), Companions(s, a))
           /\ Conveyor => a \notin Sources \/ a \notin DOMAIN DestroySign(s, a).liftsBySource
<1>1. PICK b : b = [s EXCEPT !.dying = s.dying \cup {a}]
  OBVIOUS
<1>2. PICK t : t = IF Conveyor THEN Ended(OnSignEndPlay(b, a), a) ELSE Ended(b, a)
  OBVIOUS
<1>3. a \in s.live \ s.dying
  OBVIOUS
<1>4. DestroySign(s, a) = t
  BY <1>1, <1>2, <1>3 DEF DestroySign, Destroying, Conveyor
<1>5. Destroy(s, a) = t
  BY <1>1, <1>2, <1>3 DEF Destroy, Destroying, EndPlay, Conveyor
<1>6. /\ Conveyor => Removed(s, t, Companions(s, a), {SourceOf(s, a)})
      /\ ~Conveyor => Removed(s, t, {a}, {})
  BY <1>1, <1>2, SignDestroyedIs DEF Sound
<1>7. SourceOf(s, a) \in Sources \cup {None}
  BY PartnerIs DEF Sound
<1>8. Takes(s, t, Companions(s, a))
  <2>1. CASE Conveyor
    <3>1. {SourceOf(s, a)} \in SUBSET (Sources \cup {None})
      BY <1>7
    <3>2. Cut(s, Companions(s, a), {SourceOf(s, a)}) /\ Companions(s, a) \subseteq s.live
      BY <2>1, SignCut
    <3>3. QED
      BY <1>6, <2>1, <3>1, <3>2 DEF Takes
  <2>2. CASE ~Conveyor
    <3>1. {} \in SUBSET (Sources \cup {None})
      OBVIOUS
    <3>2. Cut(s, {a}, {}) /\ Companions(s, a) = {a}
      BY <2>2, SignCut
    <3>3. QED
      BY <1>6, <2>2, <3>1, <3>2 DEF Takes
  <2>3. QED
    BY <2>1, <2>2
<1>9. Conveyor => a \notin Sources \/ a \notin DOMAIN t.liftsBySource
  BY <1>6, Kinds DEF Removed, SourceOf
<1>10. QED
  BY <1>4, <1>5, <1>8, <1>9

LEMMA TakesTwice ==
    ASSUME NEW s, ActorsOK(s), NEW t, NEW u, NEW A, NEW B, Takes(s, t, A), Takes(t, u, B)
    PROVE  Takes(s, u, A \cup B)
<1>1. PICK F \in SUBSET (Sources \cup {None}) : Removed(s, t, A, F) /\ Cut(s, A, F)
  BY DEF Takes
<1>2. PICK G \in SUBSET (Sources \cup {None}) : Removed(t, u, B, G) /\ Cut(t, B, G)
  BY DEF Takes
<1>3. A \cup B \subseteq s.live /\ F \cup G \in SUBSET (Sources \cup {None})
  BY <1>1 DEF Takes, Removed
<1>4. Removed(s, u, A \cup B, F \cup G)
  BY <1>1, <1>2, RemovedTwice
<1>5. Cut(s, A \cup B, F \cup G)
  <2>1. SUFFICES ASSUME NEW g \in (B \cap Sources) \cup G, MirrorOf(s, g) \notin A \cup {None}
                 PROVE  MirrorOf(s, g) \in B
    BY <1>1 DEF Cut
  <2>2. PICK y : y = MirrorOf(s, g)
    OBVIOUS
  <2>3. g \in DOMAIN s.mirrorsBySource /\ y = s.mirrorsBySource[g] /\ y \in s.live /\ y # None
    BY <2>1, <2>2, MirrorOfIs
  <2>4. g \notin F
    BY <1>1, <2>1 DEF Cut
  <2>5. g \in DOMAIN t.mirrorsBySource /\ t.mirrorsBySource[g] = y /\ y \in t.live
    BY <1>1, <2>1, <2>2, <2>3, <2>4 DEF Removed
  <2>6. MirrorOf(t, g) = y
    BY <2>5 DEF MirrorOf, SavedPointer, At, IsValid
  <2>7. QED
    BY <1>2, <2>2, <2>3, <2>6 DEF Cut
<1>6. QED
  BY <1>3, <1>4, <1>5 DEF Takes

LEMMA TakesNothing == ASSUME NEW s, Shape(s) PROVE Takes(s, s, {})
<1>1. Removed(s, s, {}, {}) /\ Cut(s, {}, {}) /\ {} \in SUBSET (Sources \cup {None})
  BY NothingRemoved DEF Cut
<1>2. QED
  BY <1>1 DEF Takes

LEMMA TakesSound ==
    ASSUME NEW s, Sound(s), NEW t, NEW gone, Takes(s, t, gone)
    PROVE  /\ Sound(t) /\ t.live = s.live \ gone /\ gone \subseteq s.live
           /\ t.iterated = s.iterated /\ t.dying = s.dying
           /\ DOMAIN t.liftsBySource \subseteq DOMAIN s.liftsBySource
           /\ \A g \in DOMAIN t.liftsBySource : t.liftsBySource[g] = s.liftsBySource[g]
<1>1. PICK F \in SUBSET (Sources \cup {None}) : Removed(s, t, gone, F) /\ Cut(s, gone, F)
  BY DEF Takes
<1>2. ActorsOK(s) /\ MirrorsLinked(s) /\ MirrorsHosted(s) /\ None \notin s.live
  BY Kinds DEF Sound, ActorsOK, Addresses
<1>3. ActorsOK(t)
  BY <1>1, <1>2 DEF ActorsOK, Removed
<1>4. MirrorsLinked(t)
  <2>1. ASSUME NEW g \in DOMAIN t.mirrorsBySource, t.mirrorsBySource[g] \in t.live
        PROVE  t.owner[t.mirrorsBySource[g]] = g
    <3>1. PICK m : m = t.mirrorsBySource[g]
      OBVIOUS
    <3>2. /\ g \in DOMAIN s.mirrorsBySource /\ s.mirrorsBySource[g] = m /\ m \in s.live /\ m \notin gone
          /\ g \in Sources
      BY <1>1, <1>2, <2>1, <3>1 DEF Removed, ActorsOK
    <3>3. s.owner[m] = g /\ m \in Mirrors
      BY <1>2, <3>2 DEF MirrorsLinked, ActorsOK
    <3>4. MirrorOf(s, g) = m
      BY <3>2 DEF MirrorOf, SavedPointer, At, IsValid
    <3>5. g \notin gone
      BY <1>1, <1>2, <3>2, <3>4 DEF Cut
    <3>6. QED
      BY <1>1, <1>2, <3>1, <3>2, <3>3, <3>5 DEF Removed, ActorsOK
  <2>2. \A x \in Mirrors \cap t.live : t.owner[x] \in t.live \cup {None}
    BY <1>1, <1>2 DEF Removed, ActorsOK, MirrorsLinked
  <2>3. \A x, y \in Mirrors \cap t.live : t.owner[x] = t.owner[y] /\ t.owner[x] # None => x = y
    BY <1>1, <1>2 DEF Removed, ActorsOK, MirrorsLinked
  <2>4. QED
    BY <2>1, <2>2, <2>3 DEF MirrorsLinked
<1>5. QED
  BY <1>1, <1>2, <1>3, <1>4 DEF Sound, Removed, MirrorsHosted, Takes

\* Destruction keeps what remains matched, named and tracked.
LEMMA TakesMatchedAt ==
    ASSUME NEW s, Sound(s), NEW t, NEW gone, Takes(s, t, gone),
           \A g \in DOMAIN t.liftsBySource : t.liftsBySource[g] \notin gone,
           NEW x \in (Mirrors \cap s.live) \ gone, MatchedAt(s, x)
    PROVE  MatchedAt(t, x)
<1>1. PICK F \in SUBSET (Sources \cup {None}) : Removed(s, t, gone, F) /\ Cut(s, gone, F)
  BY DEF Takes
<1>2. ActorsOK(s) /\ None \notin s.live /\ None \notin Lifts
  BY Kinds DEF Sound, ActorsOK, Addresses
<1>3. x \in Mirrors \cap t.live
  BY <1>1 DEF Removed
<1>4. x \in Mirrors \cap s.live /\ x \notin gone
  OBVIOUS
<1>5. PICK g : g = s.owner[x]
  OBVIOUS
<1>6. /\ g \in Sources \cap s.live /\ MirrorOf(s, g) = x /\ At(s.liftsBySource, g) \in Lifts \cap s.live
      /\ s.text[x] = s.text[g]
  BY <1>4, <1>5 DEF MatchedAt
<1>7. g \notin gone /\ g \notin F
  BY <1>1, <1>2, <1>4, <1>6 DEF Cut
<1>8. t.owner[x] = g /\ g \in t.live /\ t.text[x] = t.text[g]
  BY <1>1, <1>2, <1>4, <1>5, <1>6, <1>7 DEF Removed, ActorsOK, AllSigns
<1>9. MirrorOf(t, g) = x
  <2>1. g \in DOMAIN s.mirrorsBySource /\ s.mirrorsBySource[g] = x
    BY <1>2, <1>4, <1>6, MirrorOfIs
  <2>2. g \in DOMAIN t.mirrorsBySource /\ t.mirrorsBySource[g] = x
    BY <1>1, <1>7, <2>1 DEF Removed
  <2>3. QED
    BY <1>3, <2>2 DEF MirrorOf, SavedPointer, At, IsValid
<1>10. At(t.liftsBySource, g) \in Lifts \cap t.live
  <2>1. g \in DOMAIN s.liftsBySource /\ s.liftsBySource[g] \in Lifts \cap s.live
    BY <1>2, <1>6 DEF At
  <2>2. g \in DOMAIN t.liftsBySource /\ t.liftsBySource[g] = s.liftsBySource[g]
    BY <1>1, <1>7, <2>1 DEF Removed
  <2>3. QED
    BY <1>1, <2>1, <2>2 DEF At, Removed
<1>11. QED
  BY <1>6, <1>8, <1>9, <1>10 DEF MatchedAt

LEMMA TakesMatched ==
    ASSUME NEW s, Sound(s), Matched(s), NEW t, NEW gone, Takes(s, t, gone),
           \A g \in DOMAIN t.liftsBySource : t.liftsBySource[g] \notin gone
    PROVE  Matched(t)
<1>1. \A x \in Mirrors \cap t.live : x \in (Mirrors \cap s.live) \ gone
  BY TakesSound
<1>2. QED
  BY <1>1, TakesMatchedAt DEF Matched

\* The station mod sees nothing of its signs but that some are gone.
SeenBelow(s, t) ==
    /\ StationSigns \cap t.live \subseteq s.live /\ t.live \cap Stations = s.live \cap Stations
    /\ \A g \in StationSigns \cap t.live : t.owner[g] = s.owner[g] /\ t.text[g] = s.text[g]

LEMMA TakesSeen ==
    ASSUME NEW s, ActorsOK(s), NEW t, NEW gone, Takes(s, t, gone), gone \cap Stations = {}
    PROVE  SeenBelow(s, t)
<1>1. PICK F \in SUBSET (Sources \cup {None}) : Removed(s, t, gone, F)
  BY DEF Takes
<1>2. QED
  BY <1>1, Kinds DEF SeenBelow, Removed, ActorsOK, AllSigns, Sources, Addresses

-----------------------------------------------------------------------------
(* Lifts and stations                                                       *)

LEMMA Begun ==
    ASSUME NEW s, Sound(s), NEW a, NEW b, b = [s EXCEPT !.dying = s.dying \cup {a}]
    PROVE  /\ Sound(b) /\ b.live = s.live /\ b.dying = s.dying \cup {a} /\ b.iterated = s.iterated
           /\ b.mirrorsBySource = s.mirrorsBySource /\ b.liftsBySource = s.liftsBySource
           /\ \A g : MirrorOf(b, g) = MirrorOf(s, g)
<1>1. PICK l, d, o, x, m, f, i, r, u :
          /\ s = [live |-> l, dying |-> d, owner |-> o, text |-> x, mirrorsBySource |-> m,
                  liftsBySource |-> f, ignoredEndPlaySigns |-> i, iterated |-> r, mutated |-> u]
          /\ r \in BOOLEAN /\ u \in BOOLEAN
  BY DEF Sound, ActorsOK, Shape
<1>2. b = [live |-> l, dying |-> d \cup {a}, owner |-> o, text |-> x, mirrorsBySource |-> m,
           liftsBySource |-> f, ignoredEndPlaySigns |-> i, iterated |-> r, mutated |-> u]
  BY <1>1
<1>3. /\ Shape(b) /\ b.live = s.live /\ b.dying = s.dying \cup {a} /\ b.owner = s.owner
      /\ b.text = s.text /\ b.mirrorsBySource = s.mirrorsBySource
      /\ b.liftsBySource = s.liftsBySource /\ b.ignoredEndPlaySigns = s.ignoredEndPlaySigns
      /\ b.iterated = s.iterated /\ b.mutated = s.mutated
  BY <1>1, <1>2 DEF Shape
<1>4. \A g : MirrorOf(b, g) = MirrorOf(s, g)
  BY <1>3 DEF MirrorOf, SavedPointer, IsValid
<1>5. ActorsOK(b)
  BY <1>3 DEF Sound, ActorsOK
<1>6. MirrorsLinked(b) /\ MirrorsHosted(b)
  BY <1>3 DEF Sound, MirrorsLinked, MirrorsHosted
<1>7. QED
  BY <1>3, <1>4, <1>5, <1>6 DEF Sound

LEMMA EndedTakes ==
    ASSUME NEW s, Sound(s), NEW a \in s.live, a \notin s.dying, a \notin AllSigns,
           NEW b, b = [s EXCEPT !.dying = s.dying \cup {a}],
           NEW h, NEW gone, Takes(b, h, gone)
    PROVE  /\ Takes(s, Ended(h, a), gone \cup {a})
           /\ DOMAIN Ended(h, a).liftsBySource = DOMAIN h.liftsBySource
<1>1. PICK F \in SUBSET (Sources \cup {None}) : Removed(b, h, gone, F) /\ Cut(b, gone, F)
  BY DEF Takes
<1>2. Removed(s, Ended(h, a), gone \cup {a}, F)
  BY <1>1, EndedIs DEF Sound, ActorsOK
<1>3. b.live = s.live /\ b.liftsBySource = s.liftsBySource /\ \A g : MirrorOf(b, g) = MirrorOf(s, g)
  BY Begun
<1>4. Cut(s, gone \cup {a}, F)
  BY <1>1, <1>3, Kinds DEF Cut, AllSigns
<1>5. gone \cup {a} \subseteq s.live
  BY <1>3 DEF Takes
<1>6. DOMAIN Ended(h, a).liftsBySource = DOMAIN h.liftsBySource
  BY <1>1, <1>2, <1>3 DEF Removed
<1>7. QED
  BY <1>2, <1>4, <1>5, <1>6 DEF Takes

LEMMA StationDestroyed ==
    ASSUME NEW s, Sound(s), NEW a \in Stations \cap s.live, a \notin s.dying
    PROVE  Takes(s, Destroy(s, a), {a})
<1>1. PICK b : b = [s EXCEPT !.dying = s.dying \cup {a}]
  OBVIOUS
<1>2. a \notin AllSigns /\ a \notin Lifts
  BY Kinds
<1>3. Destroy(s, a) = Ended(b, a)
  BY <1>1, <1>2 DEF Destroy, Destroying, EndPlay
<1>4. Takes(b, b, {})
  BY <1>1, Begun, TakesNothing DEF Sound, ActorsOK
<1>5. Takes(s, Ended(b, a), {} \cup {a})
  BY <1>1, <1>2, <1>4, EndedTakes
<1>6. {} \cup {a} = {a}
  OBVIOUS
<1>7. QED
  BY <1>3, <1>5, <1>6

PairOf(s, g) == {g} \cup {x \in Mirrors \cap s.live : MirrorOf(s, g) = x}
PairsOf(s, S) == UNION {PairOf(s, g) : g \in S}

\* The signs of a lift, one after the other.
DeleteOne(source, t) ==
    IF IsValid(t, source) /\ authority THEN DestroySign(t, source)
    ELSE DestroyPartner(Forget(t, source), MirrorOf(t, source))
DeleteStep(s, source, t) == DeleteOne(source, t)
Deleted(s, done, t) ==
    /\ done \cap DOMAIN t.liftsBySource = {}
    /\ \E gone \in SUBSET AllSigns :
          /\ Takes(s, t, gone)
          /\ authority => done \cap s.live \subseteq gone
          /\ gone \subseteq PairsOf(s, done \cap s.live)
Deleting == INSTANCE FiniteFolds WITH Op <- DeleteStep, Holds <- Deleted

LEMMA DeleteTakes ==
    ASSUME NEW t, Sound(t), ~t.iterated, Conveyor, t.dying \cap AllSigns = {}, NEW source \in Sources
    PROVE  /\ source \notin DOMAIN DeleteOne(source, t).liftsBySource
           /\ Takes(t, DeleteOne(source, t),
                    IF source \in t.live /\ authority THEN PairOf(t, source) ELSE {})
<1>1. ActorsOK(t) /\ None \notin t.live /\ source \notin Mirrors /\ source \in AllSigns
  BY Kinds DEF Sound, ActorsOK, Addresses, AllSigns
<1>2. CASE source \in t.live /\ authority
  <2>1. DeleteOne(source, t) = DestroySign(t, source)
    BY <1>2 DEF DeleteOne, IsValid
  <2>2. Companions(t, source) = PairOf(t, source)
    BY <1>1, <1>2, MirrorOfIs DEF Companions, PartnerOf, PairOf
  <2>3. QED
    BY <1>1, <1>2, <2>1, <2>2, SignDestroyed
<1>3. CASE ~(source \in t.live /\ authority)
  <2>1. MirrorOf(t, source) = None
    <3>1. SUFFICES ASSUME MirrorOf(t, source) # None PROVE FALSE
      OBVIOUS
    <3>2. PICK m : m = MirrorOf(t, source)
      OBVIOUS
    <3>3. source \in DOMAIN t.mirrorsBySource /\ m = t.mirrorsBySource[source] /\ m \in Mirrors \cap t.live
      BY <1>1, <3>1, <3>2, MirrorOfIs
    <3>4. authority /\ t.owner[m] = source
      BY <3>3 DEF Sound, MirrorsHosted, MirrorsLinked
    <3>5. QED
      BY <1>1, <1>3, <3>3, <3>4, Kinds DEF Sound, MirrorsLinked, AllSigns
  <2>2. PICK f : f = Forget(t, source)
    OBVIOUS
  <2>3. Removed(t, f, {}, {source})
    BY <1>1, <2>2, ForgetIs DEF ActorsOK
  <2>4. DeleteOne(source, t) = f
    <3>1. None \notin f.live
      BY <1>1, <2>3 DEF Removed
    <3>2. QED
      BY <1>3, <2>1, <2>2, <3>1 DEF DeleteOne, IsValid, DestroyPartner
  <2>5. Cut(t, {}, {source})
    BY <2>1 DEF Cut
  <2>6. {source} \in SUBSET (Sources \cup {None})
    OBVIOUS
  <2>7. Takes(t, f, {})
    BY <2>3, <2>5, <2>6 DEF Takes
  <2>8. source \notin DOMAIN f.liftsBySource
    BY <2>3 DEF Removed
  <2>9. QED
    BY <1>3, <2>4, <2>7, <2>8
<1>4. QED
  BY <1>2, <1>3

LEMMA TakesMirrorOf ==
    ASSUME NEW s, ActorsOK(s), NEW t, ActorsOK(t), NEW gone, Takes(s, t, gone), NEW g
    PROVE  MirrorOf(t, g) \in {MirrorOf(s, g), None}
<1>1. PICK F \in SUBSET (Sources \cup {None}) : Removed(s, t, gone, F)
  BY DEF Takes
<1>2. SUFFICES ASSUME MirrorOf(t, g) # None PROVE MirrorOf(t, g) = MirrorOf(s, g)
  OBVIOUS
<1>3. PICK m : m = MirrorOf(t, g)
  OBVIOUS
<1>4. g \in DOMAIN t.mirrorsBySource /\ m = t.mirrorsBySource[g] /\ m \in t.live
  BY <1>2, <1>3, MirrorOfIs
<1>5. g \in DOMAIN s.mirrorsBySource /\ m = s.mirrorsBySource[g] /\ m \in s.live
  BY <1>1, <1>4 DEF Removed
<1>6. QED
  BY <1>3, <1>5, MirrorOfIs

LEMMA LiftTaken ==
    ASSUME NEW s, Sound(s), ~s.iterated, Conveyor, s.dying \cap AllSigns = {}, NEW lift,
           NEW S, S = {g \in DOMAIN s.liftsBySource : s.liftsBySource[g] = lift}
    PROVE  Deleted(s, S, OnLiftEndPlay(s, lift))
<1>1. ActorsOK(s) /\ S \subseteq Sources
  BY DEF Sound, ActorsOK
<1>2. IsFiniteSet(S)
  BY <1>1, Kinds, FS_Subset
<1>3. OnLiftEndPlay(s, lift) = Deleting!Fold(s, s, S)
  BY DEF OnLiftEndPlay, FoldSet, MapThenFoldSet, Deleting!Fold, Deleting!Pick, DeleteStep, DeleteOne
<1>4. Deleted(s, {}, s)
  <2>1. Takes(s, s, {})
    BY <1>1, TakesNothing DEF ActorsOK
  <2>2. QED
    BY <2>1 DEF Deleted
<1>5. ASSUME NEW T \in SUBSET S, NEW g \in T, NEW t, Deleted(s, T \ {g}, t)
      PROVE  Deleted(s, T, DeleteStep(s, g, t))
  <2>1. PICK gone \in SUBSET AllSigns :
            /\ Takes(s, t, gone)
            /\ authority => (T \ {g}) \cap s.live \subseteq gone
            /\ gone \subseteq PairsOf(s, (T \ {g}) \cap s.live)
    BY <1>5 DEF Deleted
  <2>2. /\ Sound(t) /\ ~t.iterated /\ t.dying \cap AllSigns = {} /\ t.live = s.live \ gone
        /\ (T \ {g}) \cap DOMAIN t.liftsBySource = {}
    BY <1>5, <2>1, TakesSound DEF Deleted
  <2>3. PICK more : more = IF g \in t.live /\ authority THEN PairOf(t, g) ELSE {}
    OBVIOUS
  <2>4. PICK u : u = DeleteOne(g, t)
    OBVIOUS
  <2>5. g \notin DOMAIN u.liftsBySource /\ Takes(t, u, more)
    BY <1>1, <2>2, <2>3, <2>4, DeleteTakes
  <2>6. T \cap DOMAIN u.liftsBySource = {}
    BY <2>2, <2>5, TakesSound
  <2>7. Takes(s, u, gone \cup more)
    BY <1>1, <2>1, <2>5, TakesTwice
  <2>8. more \subseteq (IF g \in s.live THEN PairOf(s, g) ELSE {}) /\ more \subseteq AllSigns
    <3>1. MirrorOf(t, g) \in {MirrorOf(s, g), None} /\ None \notin Mirrors
      BY <1>1, <2>1, <2>2, TakesMirrorOf, Kinds DEF Sound, AllSigns
    <3>2. QED
      BY <1>1, <2>2, <2>3, <3>1 DEF PairOf, AllSigns
  <2>9. authority => T \cap s.live \subseteq gone \cup more
    BY <2>1, <2>2, <2>3 DEF PairOf
  <2>10. gone \cup more \subseteq PairsOf(s, T \cap s.live)
    BY <2>1, <2>8 DEF PairsOf
  <2>11. QED
    BY <2>4, <2>6, <2>7, <2>8, <2>9, <2>10 DEF Deleted, DeleteStep
<1>6. Deleted(s, S, Deleting!Fold(s, s, S))
  BY <1>2, <1>4, <1>5, Deleting!FoldHolds DEF IsFiniteSet, Deleting!IsFiniteSet
<1>7. QED
  BY <1>3, <1>6

\* A lift takes its signs along, and their mirrors.
LEMMA LiftDestroyed ==
    ASSUME NEW s, Sound(s), ~s.iterated, s.dying \cap AllSigns = {},
           NEW a \in Lifts \cap s.live, a \notin s.dying,
           NEW S, S = {g \in DOMAIN s.liftsBySource : s.liftsBySource[g] = a}
    PROVE  \E gone \in SUBSET AllSigns :
              /\ Takes(s, Destroy(s, a), gone \cup {a})
              /\ Conveyor =>
                    /\ S \cap DOMAIN Destroy(s, a).liftsBySource = {}
                    /\ authority => S \cap s.live \subseteq gone
              /\ gone \subseteq PairsOf(s, S \cap s.live)
<1>1. PICK b : b = [s EXCEPT !.dying = s.dying \cup {a}]
  OBVIOUS
<1>2. /\ Sound(b) /\ b.live = s.live /\ b.dying = s.dying \cup {a} /\ b.iterated = s.iterated
      /\ b.liftsBySource = s.liftsBySource /\ \A g : MirrorOf(b, g) = MirrorOf(s, g)
  BY <1>1, Begun
<1>3. a \notin AllSigns
  BY Kinds
<1>4. PICK h : h = IF Conveyor THEN OnLiftEndPlay(b, a) ELSE b
  OBVIOUS
<1>5. Destroy(s, a) = Ended(h, a)
  BY <1>1, <1>3, <1>4 DEF Destroy, Destroying, EndPlay, Conveyor
<1>6. PICK gone \in SUBSET AllSigns :
          /\ Takes(b, h, gone)
          /\ Conveyor => S \cap DOMAIN h.liftsBySource = {} /\ (authority => S \cap b.live \subseteq gone)
          /\ gone \subseteq PairsOf(b, S \cap b.live)
  <2>1. CASE Conveyor
    <3>1. b.dying \cap AllSigns = {}
      BY <1>2, <1>3
    <3>2. Deleted(b, S, h)
      BY <1>2, <1>4, <2>1, <3>1, LiftTaken
    <3>3. QED
      BY <3>2 DEF Deleted
  <2>2. CASE ~Conveyor
    <3>1. Takes(b, b, {})
      BY <1>2, TakesNothing DEF Sound, ActorsOK
    <3>2. QED
      BY <1>4, <2>2, <3>1
  <2>3. QED
    BY <2>1, <2>2
<1>7. /\ Takes(s, Ended(h, a), gone \cup {a})
      /\ DOMAIN Ended(h, a).liftsBySource = DOMAIN h.liftsBySource
  BY <1>1, <1>3, <1>6, EndedTakes
<1>8. PairsOf(b, S \cap b.live) = PairsOf(s, S \cap s.live)
  BY <1>2 DEF PairsOf, PairOf
<1>9. QED
  BY <1>2, <1>5, <1>6, <1>7, <1>8

\* An operation begins with nobody dying and no map iterated.
Still(s) == Sound(s) /\ ~s.iterated /\ s.dying = {}

\* A sign, a mirror, a lift or a station that is destroyed.
LEMMA DestroyKeeps ==
    ASSUME NEW s, Still(s), NEW a \in s.live
    PROVE  \E gone :
              /\ Takes(s, Destroy(s, a), gone) /\ a \in gone /\ gone \cap Stations \subseteq {a}
              /\ Matched(s) => Matched(Destroy(s, a))
<1>1. PICK t : t = Destroy(s, a)
  OBVIOUS
<1>2. Sound(s) /\ ~s.iterated /\ s.dying = {} /\ ActorsOK(s) /\ None \notin s.live
  BY Kinds DEF Still, Sound, ActorsOK, Addresses
<1>3. ASSUME NEW gone, Takes(s, t, gone), gone \cap Lifts = {}, Matched(s) PROVE Matched(t)
  <2>1. \A g \in DOMAIN t.liftsBySource : t.liftsBySource[g] \in Lifts \cup {None}
    BY <1>2, <1>3, TakesSound DEF Sound, ActorsOK
  <2>2. \A g \in DOMAIN t.liftsBySource : t.liftsBySource[g] \notin gone
    BY <1>2, <1>3, <2>1, TakesSound
  <2>3. QED
    BY <1>2, <1>3, <2>2, TakesMatched
<1>4. CASE a \in AllSigns
  <2>1. Takes(s, t, Companions(s, a))
    BY <1>1, <1>2, <1>4, SignDestroyed
  <2>2. Companions(s, a) \subseteq AllSigns /\ a \in Companions(s, a)
    BY <1>2, <1>4, SignCut
  <2>3. Companions(s, a) \cap Lifts = {} /\ Companions(s, a) \cap Stations = {}
    BY <2>2, Kinds
  <2>4. QED
    BY <1>1, <1>3, <2>1, <2>2, <2>3
<1>5. CASE a \in Lifts
  <2>1. PICK S : S = {g \in DOMAIN s.liftsBySource : s.liftsBySource[g] = a}
    OBVIOUS
  <2>2. PICK gone \in SUBSET AllSigns :
            /\ Takes(s, t, gone \cup {a})
            /\ Conveyor => S \cap DOMAIN t.liftsBySource = {}
    <3>1. s.dying \cap AllSigns = {} /\ a \in Lifts \cap s.live /\ a \notin s.dying
      BY <1>2, <1>5
    <3>2. \E gone \in SUBSET AllSigns :
              /\ Takes(s, Destroy(s, a), gone \cup {a})
              /\ Conveyor =>
                    /\ S \cap DOMAIN Destroy(s, a).liftsBySource = {}
                    /\ authority => S \cap s.live \subseteq gone
              /\ gone \subseteq PairsOf(s, S \cap s.live)
      BY <1>2, <2>1, <3>1, LiftDestroyed
    <3>3. QED
      BY <1>1, <3>2
  <2>3. (gone \cup {a}) \cap Stations \subseteq {a}
    BY Kinds
  <2>4. Conveyor
    BY <1>2, <1>5 DEF Sound, MirrorsHosted
  <2>5. ASSUME NEW g \in DOMAIN t.liftsBySource PROVE t.liftsBySource[g] \notin gone \cup {a}
    <3>1. g \in DOMAIN s.liftsBySource /\ t.liftsBySource[g] = s.liftsBySource[g]
      BY <1>2, <2>2, <2>5, TakesSound
    <3>2. s.liftsBySource[g] # a
      BY <2>1, <2>2, <2>4, <2>5, <3>1
    <3>3. s.liftsBySource[g] \in Lifts \cup {None}
      BY <1>2, <3>1 DEF ActorsOK
    <3>4. None \notin gone
      BY Kinds
    <3>5. QED
      BY <3>1, <3>2, <3>3, <3>4, Kinds
  <2>6. Matched(s) => Matched(t)
    BY <1>2, <2>2, <2>5, TakesMatched
  <2>7. QED
    BY <1>1, <2>2, <2>3, <2>6
<1>6. CASE a \in Stations
  <2>1. Takes(s, t, {a})
    BY <1>1, <1>2, <1>6, StationDestroyed
  <2>2. {a} \cap Lifts = {}
    BY <1>6, Kinds
  <2>3. QED
    BY <1>1, <1>3, <2>1, <2>2
<1>7. QED
  BY <1>2, <1>4, <1>5, <1>6 DEF ActorsOK, Addresses

LEMMA TakesStill ==
    ASSUME NEW s, Still(s), NEW t, NEW gone, Takes(s, t, gone)
    PROVE  Still(t)
BY TakesSound DEF Still

-----------------------------------------------------------------------------
(* New actors                                                               *)

\* An actor begins play at the address a, which no weak pointer refers to;
\* its own owner and text are set.
Appears(s, t, a) ==
    /\ Shape(t)
    /\ t.live = s.live \cup {a} /\ t.dying = s.dying
    /\ DOMAIN t.owner = DOMAIN s.owner
    /\ \A g \in DOMAIN s.owner : g # a => t.owner[g] = s.owner[g]
    /\ DOMAIN t.text = DOMAIN s.text
    /\ \A g \in DOMAIN s.text : g # a => t.text[g] = s.text[g]
    /\ DOMAIN t.mirrorsBySource = DOMAIN s.mirrorsBySource \ {a}
    /\ \A g \in DOMAIN t.mirrorsBySource :
          t.mirrorsBySource[g] = IF s.mirrorsBySource[g] = a THEN None ELSE s.mirrorsBySource[g]
    /\ DOMAIN t.liftsBySource = DOMAIN s.liftsBySource \ {a}
    /\ \A g \in DOMAIN t.liftsBySource :
          t.liftsBySource[g] = IF s.liftsBySource[g] = a THEN None ELSE s.liftsBySource[g]
    /\ t.ignoredEndPlaySigns = s.ignoredEndPlaySigns
    /\ t.iterated = s.iterated /\ t.mutated = s.mutated

\* All ways in which the model has an actor begin play.
LEMMA SpawnAppears ==
    ASSUME NEW s, Shape(s), NEW a, NEW o, NEW x
    PROVE  /\ Appears(s, Spawn(s, a), a)
           /\ Appears(s, [Spawn(s, a) EXCEPT !.text[a] = x], a)
           /\ a \in DOMAIN s.text => [Spawn(s, a) EXCEPT !.text[a] = x].text[a] = x
           /\ Appears(s, [Spawn(s, a) EXCEPT !.owner[a] = o], a)
           /\ a \in DOMAIN s.owner => [Spawn(s, a) EXCEPT !.owner[a] = o].owner[a] = o
           /\ Appears(s, [Spawn(s, a) EXCEPT !.owner[a] = o, !.text[a] = x], a)
           /\ a \in DOMAIN s.owner => [Spawn(s, a) EXCEPT !.owner[a] = o, !.text[a] = x].owner[a] = o
<1>1. PICK l, d, w, v, m, f, i, r, u :
          /\ s = [live |-> l, dying |-> d, owner |-> w, text |-> v, mirrorsBySource |-> m,
                  liftsBySource |-> f, ignoredEndPlaySigns |-> i, iterated |-> r, mutated |-> u]
          /\ r \in BOOLEAN /\ u \in BOOLEAN
  BY DEF Shape
<1>2. PICK m1 : m1 = [k \in DOMAIN m \ {a} |-> IF m[k] = a THEN None ELSE m[k]]
  OBVIOUS
<1>3. PICK f1 : f1 = [k \in DOMAIN f \ {a} |-> IF f[k] = a THEN None ELSE f[k]]
  OBVIOUS
<1>4. PICK t : t = Spawn(s, a)
  OBVIOUS
<1>5. t = [live |-> l \cup {a}, dying |-> d, owner |-> w, text |-> v, mirrorsBySource |-> m1,
           liftsBySource |-> f1, ignoredEndPlaySigns |-> i, iterated |-> r, mutated |-> u]
  <2>1. t = [s EXCEPT !.live = l \cup {a}, !.mirrorsBySource = m1, !.liftsBySource = f1]
    BY <1>1, <1>2, <1>3, <1>4 DEF Spawn
  <2>2. QED
    BY <1>1, <2>1
<1>6. ASSUME NEW o1, NEW x1, NEW z,
             z = [live |-> l \cup {a}, dying |-> d, owner |-> o1, text |-> x1, mirrorsBySource |-> m1,
                  liftsBySource |-> f1, ignoredEndPlaySigns |-> i, iterated |-> r, mutated |-> u],
             DOMAIN o1 = DOMAIN w, \A g \in DOMAIN w : g # a => o1[g] = w[g],
             DOMAIN x1 = DOMAIN v, \A g \in DOMAIN v : g # a => x1[g] = v[g]
      PROVE  Appears(s, z, a)
  <2>1. /\ z.live = l \cup {a} /\ z.dying = d /\ z.owner = o1 /\ z.text = x1
        /\ z.mirrorsBySource = m1 /\ z.liftsBySource = f1 /\ z.ignoredEndPlaySigns = i
        /\ z.iterated = r /\ z.mutated = u /\ Shape(z)
    BY <1>1, <1>6 DEF Shape
  <2>2. /\ s.live = l /\ s.dying = d /\ s.owner = w /\ s.text = v
        /\ s.mirrorsBySource = m /\ s.liftsBySource = f /\ s.ignoredEndPlaySigns = i
        /\ s.iterated = r /\ s.mutated = u
    BY <1>1
  <2>3. QED
    BY <1>2, <1>3, <1>6, <2>1, <2>2 DEF Appears
<1>7. PICK o1 : o1 = [w EXCEPT ![a] = o]
  OBVIOUS
<1>8. PICK x1 : x1 = [v EXCEPT ![a] = x]
  OBVIOUS
<1>9. /\ [t EXCEPT !.text[a] = x] =
            [live |-> l \cup {a}, dying |-> d, owner |-> w, text |-> x1, mirrorsBySource |-> m1,
             liftsBySource |-> f1, ignoredEndPlaySigns |-> i, iterated |-> r, mutated |-> u]
      /\ [t EXCEPT !.owner[a] = o] =
            [live |-> l \cup {a}, dying |-> d, owner |-> o1, text |-> v, mirrorsBySource |-> m1,
             liftsBySource |-> f1, ignoredEndPlaySigns |-> i, iterated |-> r, mutated |-> u]
      /\ [t EXCEPT !.owner[a] = o, !.text[a] = x] =
            [live |-> l \cup {a}, dying |-> d, owner |-> o1, text |-> x1, mirrorsBySource |-> m1,
             liftsBySource |-> f1, ignoredEndPlaySigns |-> i, iterated |-> r, mutated |-> u]
  <2>1. t.text = v /\ t.owner = w
    BY <1>5
  <2>2. /\ [t EXCEPT !.text[a] = x] = [t EXCEPT !.text = x1]
        /\ [t EXCEPT !.owner[a] = o] = [t EXCEPT !.owner = o1]
        /\ [t EXCEPT !.owner[a] = o, !.text[a] = x] = [t EXCEPT !.owner = o1, !.text = x1]
    BY <1>5, <1>7, <1>8, <2>1
  <2>3. [t EXCEPT !.text = x1] =
            [live |-> l \cup {a}, dying |-> d, owner |-> w, text |-> x1, mirrorsBySource |-> m1,
             liftsBySource |-> f1, ignoredEndPlaySigns |-> i, iterated |-> r, mutated |-> u]
    BY <1>5
  <2>4. [t EXCEPT !.owner = o1] =
            [live |-> l \cup {a}, dying |-> d, owner |-> o1, text |-> v, mirrorsBySource |-> m1,
             liftsBySource |-> f1, ignoredEndPlaySigns |-> i, iterated |-> r, mutated |-> u]
    BY <1>5
  <2>5. [t EXCEPT !.owner = o1, !.text = x1] =
            [live |-> l \cup {a}, dying |-> d, owner |-> o1, text |-> x1, mirrorsBySource |-> m1,
             liftsBySource |-> f1, ignoredEndPlaySigns |-> i, iterated |-> r, mutated |-> u]
    <3>1. PICK z : z = [t EXCEPT !.owner = o1, !.text = x1]
      OBVIOUS
    <3>2. z = [live |-> l \cup {a}, dying |-> d, owner |-> o1, text |-> x1, mirrorsBySource |-> m1,
               liftsBySource |-> f1, ignoredEndPlaySigns |-> i, iterated |-> r, mutated |-> u]
      BY <1>5, <3>1
    <3>3. QED
      BY <3>1, <3>2
  <2>6. QED
    BY <2>2, <2>3, <2>4, <2>5
<1>10. /\ Appears(s, t, a) /\ Appears(s, [t EXCEPT !.text[a] = x], a)
       /\ Appears(s, [t EXCEPT !.owner[a] = o], a)
       /\ Appears(s, [t EXCEPT !.owner[a] = o, !.text[a] = x], a)
  BY <1>5, <1>6, <1>7, <1>8, <1>9
<1>11. /\ a \in DOMAIN s.text => [t EXCEPT !.text[a] = x].text[a] = x
       /\ a \in DOMAIN s.owner => [t EXCEPT !.owner[a] = o].owner[a] = o
       /\ a \in DOMAIN s.owner => [t EXCEPT !.owner[a] = o, !.text[a] = x].owner[a] = o
  BY <1>1, <1>7, <1>8, <1>9
<1>12. QED
  BY <1>4, <1>10, <1>11

\* Whether a may begin play: with an owner of its own.
Welcome(s, t, a) ==
    /\ a \in Addresses \ s.live
    /\ a \in Lifts => Conveyor
    /\ a \in StationSigns => t.owner[a] \in Stations \cup {None}
    /\ a \in Mirrors =>
          /\ authority /\ Conveyor /\ t.owner[a] \in Sources \cap s.live
          /\ \A x \in Mirrors \cap s.live : s.owner[x] # t.owner[a]

LEMMA AppearsStill ==
    ASSUME NEW s, Still(s), NEW t, NEW a, Appears(s, t, a), Welcome(s, t, a)
    PROVE  /\ Still(t)
           /\ \A x \in Mirrors \cap s.live : MatchedAt(s, x) => MatchedAt(t, x)
           /\ a \notin Mirrors /\ Matched(s) => Matched(t)
           /\ MirrorOf(t, a) = None
<1>1. ActorsOK(s) /\ MirrorsLinked(s) /\ MirrorsHosted(s) /\ None \notin s.live
  BY Kinds DEF Still, Sound, ActorsOK, Addresses
<1>2. \A g \in DOMAIN s.owner : s.owner[g] = a => g \notin Mirrors \cap s.live
  BY <1>1, Kinds DEF Welcome, MirrorsLinked, Addresses
<1>3. ActorsOK(t)
  <2>1. t.live \subseteq Addresses /\ Shape(t) /\ DOMAIN t.owner = StationSigns \cup Mirrors /\ DOMAIN t.text = AllSigns
    BY <1>1 DEF Appears, Welcome, ActorsOK
  <2>2. /\ \A g \in StationSigns : t.owner[g] \in Stations \cup {None}
        /\ \A x \in Mirrors : t.owner[x] \in Sources \cup {None}
    BY <1>1 DEF Appears, Welcome, ActorsOK
  <2>3. /\ DOMAIN t.mirrorsBySource \subseteq Sources /\ DOMAIN t.liftsBySource \subseteq Sources
        /\ \A g \in DOMAIN t.mirrorsBySource : t.mirrorsBySource[g] \in Mirrors \cup {None}
        /\ \A g \in DOMAIN t.liftsBySource : t.liftsBySource[g] \in Lifts \cup {None}
    BY <1>1 DEF Appears, ActorsOK
  <2>4. QED
    BY <2>1, <2>2, <2>3 DEF ActorsOK
<1>4. a # None
  BY Kinds DEF Welcome, Addresses
<1>5. MirrorsLinked(t)
  <2>1. ASSUME NEW g \in DOMAIN t.mirrorsBySource, t.mirrorsBySource[g] \in t.live
        PROVE  t.owner[t.mirrorsBySource[g]] = g
    <3>1. t.mirrorsBySource[g] # a /\ t.mirrorsBySource[g] # None
      BY <1>1, <1>4, <2>1 DEF Appears
    <3>2. g \in DOMAIN s.mirrorsBySource /\ t.mirrorsBySource[g] = s.mirrorsBySource[g]
      BY <2>1, <3>1 DEF Appears
    <3>3. s.mirrorsBySource[g] \in s.live
      BY <2>1, <3>1, <3>2 DEF Appears
    <3>4. QED
      BY <1>1, <3>1, <3>2, <3>3 DEF Appears, MirrorsLinked, ActorsOK
  <2>2. \A x \in Mirrors \cap t.live : t.owner[x] \in t.live \cup {None}
    BY <1>1 DEF Appears, Welcome, ActorsOK, MirrorsLinked
  <2>3. \A x, y \in Mirrors \cap t.live : t.owner[x] = t.owner[y] /\ t.owner[x] # None => x = y
    BY <1>1 DEF Appears, Welcome, ActorsOK, MirrorsLinked
  <2>4. QED
    BY <2>1, <2>2, <2>3 DEF MirrorsLinked
<1>6. MirrorsHosted(t)
  BY <1>1 DEF Appears, Welcome, MirrorsHosted
<1>7. Still(t)
  BY <1>3, <1>5, <1>6 DEF Still, Sound, Appears
<1>8. ASSUME NEW x \in Mirrors \cap s.live, MatchedAt(s, x) PROVE MatchedAt(t, x)
  <2>1. x \in Mirrors \cap t.live
    BY DEF Appears
  <2>2. x \in s.live /\ x # a
    BY DEF Welcome
  <2>3. PICK g : g = s.owner[x]
    OBVIOUS
  <2>4. /\ g \in Sources \cap s.live /\ MirrorOf(s, g) = x /\ At(s.liftsBySource, g) \in Lifts \cap s.live
        /\ s.text[x] = s.text[g]
    BY <1>8, <2>1, <2>2, <2>3 DEF MatchedAt
  <2>5. g # a
    BY <2>4 DEF Welcome
  <2>6. t.owner[x] = g /\ g \in t.live /\ t.text[x] = t.text[g]
    BY <1>1, <2>1, <2>2, <2>3, <2>4, <2>5 DEF Appears, ActorsOK, AllSigns
  <2>7. MirrorOf(t, g) = x
    <3>1. g \in DOMAIN s.mirrorsBySource /\ s.mirrorsBySource[g] = x
      BY <1>1, <2>2, <2>4, MirrorOfIs
    <3>2. g \in DOMAIN t.mirrorsBySource /\ t.mirrorsBySource[g] = x
      BY <2>2, <2>5, <3>1 DEF Appears
    <3>3. QED
      BY <2>1, <3>2 DEF MirrorOf, SavedPointer, At, IsValid
  <2>8. At(t.liftsBySource, g) \in Lifts \cap t.live
    <3>1. g \in DOMAIN s.liftsBySource /\ s.liftsBySource[g] \in Lifts \cap s.live
      BY <2>4, Kinds DEF At
    <3>2. s.liftsBySource[g] # a
      BY <3>1 DEF Welcome
    <3>3. g \in DOMAIN t.liftsBySource /\ t.liftsBySource[g] = s.liftsBySource[g]
      BY <2>5, <3>1, <3>2 DEF Appears
    <3>4. QED
      BY <3>1, <3>3 DEF At, Appears
  <2>9. QED
    BY <2>3, <2>4, <2>6, <2>7, <2>8 DEF MatchedAt
<1>9. MirrorOf(t, a) = None
  <2>1. a \notin DOMAIN t.mirrorsBySource /\ None \notin t.live
    BY <1>3, Kinds DEF Appears, ActorsOK, Addresses
  <2>2. QED
    BY <2>1 DEF MirrorOf, SavedPointer, At, IsValid
<1>10. a \notin Mirrors /\ Matched(s) => Matched(t)
  BY <1>8 DEF Matched, Appears
<1>11. QED
  BY <1>7, <1>8, <1>9, <1>10

-----------------------------------------------------------------------------
(* Mirrors                                                                  *)

\* The world is as it was but for the mirror m.
Beside(s, u, m) ==
    /\ u.live \ {m} = s.live \ {m}
    /\ DOMAIN u.owner = DOMAIN s.owner /\ \A g \in DOMAIN s.owner : g # m => u.owner[g] = s.owner[g]
    /\ DOMAIN u.text = DOMAIN s.text /\ \A g \in DOMAIN s.text : g # m => u.text[g] = s.text[g]
    /\ \A x \in (Mirrors \cap s.live) \ {m} : MatchedAt(s, x) => MatchedAt(u, x)

\* The maps may forget a source that has no mirror.
Trimmed(s, m, f) == [s EXCEPT !.mirrorsBySource = m, !.liftsBySource = f]
Shown(s, f, v) == [s EXCEPT !.liftsBySource = f, !.text = v]

\* The actors are as they were, whatever mirror one looks at.
SameActors(s, u) ==
    /\ \A k : Beside(s, u, k)
    /\ u.live = s.live /\ u.owner = s.owner /\ u.text = s.text

Trimming(s, g, u) ==
    \E m, f : /\ m = Without(s.mirrorsBySource, {g})
              /\ f = s.liftsBySource \/ f = Without(s.liftsBySource, {g})
              /\ u = Trimmed(s, m, f)

LEMMA TrimmingKeeps ==
    ASSUME NEW s, Sound(s), NEW g, MirrorOf(s, g) = None, NEW u, Trimming(s, g, u)
    PROVE  Sound(u) /\ SameActors(s, u) /\ u.iterated = s.iterated /\ u.dying = s.dying
<1>0. PICK m, f : /\ m = Without(s.mirrorsBySource, {g})
                  /\ f = s.liftsBySource \/ f = Without(s.liftsBySource, {g})
                  /\ u = Trimmed(s, m, f)
  BY DEF Trimming
<1>1. PICK l, d, w, v, m0, f0, i, r, e :
          /\ s = [live |-> l, dying |-> d, owner |-> w, text |-> v, mirrorsBySource |-> m0,
                  liftsBySource |-> f0, ignoredEndPlaySigns |-> i, iterated |-> r, mutated |-> e]
          /\ r \in BOOLEAN /\ e \in BOOLEAN
  BY DEF Sound, ActorsOK, Shape
<1>2. u = [live |-> l, dying |-> d, owner |-> w, text |-> v, mirrorsBySource |-> m,
           liftsBySource |-> f, ignoredEndPlaySigns |-> i, iterated |-> r, mutated |-> e]
  BY <1>0, <1>1 DEF Trimmed
<1>3. /\ Shape(u) /\ u.live = s.live /\ u.dying = s.dying /\ u.owner = s.owner /\ u.text = s.text
      /\ u.mirrorsBySource = m /\ u.liftsBySource = f
      /\ u.ignoredEndPlaySigns = s.ignoredEndPlaySigns
      /\ u.iterated = s.iterated /\ u.mutated = s.mutated
  BY <1>1, <1>2 DEF Shape
<1>4. /\ DOMAIN m = DOMAIN s.mirrorsBySource \ {g}
      /\ \A h \in DOMAIN m : m[h] = s.mirrorsBySource[h]
      /\ DOMAIN f = DOMAIN s.liftsBySource \/ DOMAIN f = DOMAIN s.liftsBySource \ {g}
      /\ \A h \in DOMAIN f : f[h] = s.liftsBySource[h]
  BY <1>0 DEF Without, Restrict
<1>5. ActorsOK(s) /\ MirrorsLinked(s) /\ MirrorsHosted(s)
  BY DEF Sound
<1>6. Sound(u)
  <2>0. /\ DOMAIN m \subseteq Sources /\ \A h \in DOMAIN m : m[h] \in Mirrors \cup {None}
        /\ DOMAIN f \subseteq Sources /\ \A h \in DOMAIN f : f[h] \in Lifts \cup {None}
    BY <1>4, <1>5 DEF ActorsOK
  <2>1. ActorsOK(u)
    BY <1>3, <1>5, <2>0 DEF ActorsOK
  <2>2. MirrorsLinked(u)
    BY <1>3, <1>4, <1>5 DEF MirrorsLinked
  <2>3. QED
    BY <1>3, <1>5, <2>1, <2>2 DEF Sound, MirrorsHosted
<1>7. ASSUME NEW x \in Mirrors \cap s.live, MatchedAt(s, x) PROVE MatchedAt(u, x)
  <2>1. PICK o : o = s.owner[x]
    OBVIOUS
  <2>2. o \in Sources \cap s.live /\ MirrorOf(s, o) = x /\ At(s.liftsBySource, o) \in Lifts \cap s.live
    BY <1>7, <2>1 DEF MatchedAt
  <2>3. x # None
    BY Kinds DEF AllSigns
  <2>4. o # g
    BY <2>2, <2>3
  <2>5. o \in DOMAIN s.mirrorsBySource /\ s.mirrorsBySource[o] = x
    BY <1>5, <2>2, <2>3, MirrorOfIs
  <2>6. MirrorOf(u, o) = x
    BY <1>3, <1>4, <2>4, <2>5 DEF MirrorOf, SavedPointer, At, IsValid
  <2>7. At(u.liftsBySource, o) = At(s.liftsBySource, o)
    BY <1>3, <1>4, <2>4 DEF At
  <2>8. QED
    BY <1>3, <1>7, <2>1, <2>2, <2>6, <2>7 DEF MatchedAt
<1>8. QED
  BY <1>3, <1>6, <1>7 DEF Beside, SameActors

\* A mirror is entered in the map of mirrors.
LEMMA LinkKeeps ==
    ASSUME NEW s, Still(s), NEW x \in Mirrors \cap s.live, NEW g \in Sources \cap s.live,
           s.owner[x] = g, NEW m, m = With(s.mirrorsBySource, g, x),
           NEW u, u = [s EXCEPT !.mirrorsBySource = m]
    PROVE  /\ Still(u) /\ Beside(s, u, x) /\ MirrorOf(u, g) = x
           /\ u.live = s.live /\ u.owner = s.owner
<1>1. PICK l, d, w, v, m0, f, i, r, e :
          /\ s = [live |-> l, dying |-> d, owner |-> w, text |-> v, mirrorsBySource |-> m0,
                  liftsBySource |-> f, ignoredEndPlaySigns |-> i, iterated |-> r, mutated |-> e]
          /\ r \in BOOLEAN /\ e \in BOOLEAN
  BY DEF Still, Sound, ActorsOK, Shape
<1>2. u = [live |-> l, dying |-> d, owner |-> w, text |-> v, mirrorsBySource |-> m,
           liftsBySource |-> f, ignoredEndPlaySigns |-> i, iterated |-> r, mutated |-> e]
  BY <1>1
<1>3. /\ Shape(u) /\ u.live = s.live /\ u.dying = s.dying /\ u.owner = s.owner /\ u.text = s.text
      /\ u.mirrorsBySource = m /\ u.liftsBySource = s.liftsBySource
      /\ u.ignoredEndPlaySigns = s.ignoredEndPlaySigns
      /\ u.iterated = s.iterated /\ u.mutated = s.mutated
  BY <1>1, <1>2 DEF Shape
<1>4. /\ DOMAIN m = DOMAIN s.mirrorsBySource \cup {g} /\ m[g] = x
      /\ \A h \in DOMAIN m : h # g => m[h] = s.mirrorsBySource[h]
  BY DEF With
<1>5. ActorsOK(s) /\ MirrorsLinked(s) /\ MirrorsHosted(s)
  BY DEF Still, Sound
<1>6. Still(u)
  <2>1. ActorsOK(u)
    BY <1>3, <1>4, <1>5 DEF ActorsOK
  <2>2. MirrorsLinked(u)
    BY <1>3, <1>4, <1>5 DEF MirrorsLinked
  <2>3. QED
    BY <1>3, <1>5, <2>1, <2>2 DEF Still, Sound, MirrorsHosted
<1>7. ASSUME NEW y \in (Mirrors \cap s.live) \ {x}, MatchedAt(s, y) PROVE MatchedAt(u, y)
  <2>1. PICK o : o = s.owner[y]
    OBVIOUS
  <2>2. o \in Sources \cap s.live /\ MirrorOf(s, o) = y
    BY <1>7, <2>1 DEF MatchedAt
  <2>3. y # None /\ o # None
    BY <2>2, Kinds DEF AllSigns
  <2>4. o # g
    BY <1>5, <1>7, <2>1, <2>3 DEF MirrorsLinked
  <2>5. o \in DOMAIN s.mirrorsBySource /\ s.mirrorsBySource[o] = y
    BY <1>5, <2>2, <2>3, MirrorOfIs
  <2>6. MirrorOf(u, o) = y
    BY <1>3, <1>4, <2>4, <2>5 DEF MirrorOf, SavedPointer, At, IsValid
  <2>7. QED
    BY <1>3, <1>7, <2>1, <2>2, <2>6 DEF MatchedAt
<1>8. MirrorOf(u, g) = x
  BY <1>3, <1>4 DEF MirrorOf, SavedPointer, At, IsValid
<1>9. QED
  BY <1>3, <1>6, <1>7, <1>8 DEF Beside

LEMMA ShownOK ==
    ASSUME NEW s, NEW u, ActorsOK(s), MirrorsLinked(s), Shape(u), u.live = s.live, u.owner = s.owner,
           u.mirrorsBySource = s.mirrorsBySource, DOMAIN u.text = DOMAIN s.text,
           NEW g \in Sources, NEW lift \in Lifts,
           NEW f, u.liftsBySource = f, DOMAIN f = DOMAIN s.liftsBySource \cup {g}, f[g] = lift,
           \A h \in DOMAIN f : h # g => f[h] = s.liftsBySource[h]
    PROVE  ActorsOK(u) /\ MirrorsLinked(u)
<1>1. MirrorsLinked(u)
  BY DEF MirrorsLinked
<1>2. DOMAIN f \subseteq Sources /\ \A h \in DOMAIN f : f[h] \in Lifts \cup {None}
  BY DEF ActorsOK
<1>3. QED
  BY <1>1, <1>2 DEF ActorsOK

\* It is at a lift, and shows what its source shows.
LEMMA ShowKeeps ==
    ASSUME NEW s, Still(s), NEW x \in Mirrors \cap s.live, NEW g \in Sources \cap s.live,
           s.owner[x] = g, MirrorOf(s, g) = x, NEW lift \in Lifts \cap s.live,
           NEW f, f = With(s.liftsBySource, g, lift), NEW v, v = [s.text EXCEPT ![x] = s.text[g]],
           NEW u, u = Shown(s, f, v)
    PROVE  /\ Still(u) /\ Beside(s, u, x) /\ MatchedAt(u, x)
           /\ u.live = s.live /\ u.owner = s.owner
<1>1. PICK l, d, w, v0, m, f0, i, r, e :
          /\ s = [live |-> l, dying |-> d, owner |-> w, text |-> v0, mirrorsBySource |-> m,
                  liftsBySource |-> f0, ignoredEndPlaySigns |-> i, iterated |-> r, mutated |-> e]
          /\ r \in BOOLEAN /\ e \in BOOLEAN
  BY DEF Still, Sound, ActorsOK, Shape
<1>2. u = [live |-> l, dying |-> d, owner |-> w, text |-> v, mirrorsBySource |-> m,
           liftsBySource |-> f, ignoredEndPlaySigns |-> i, iterated |-> r, mutated |-> e]
  BY <1>1 DEF Shown
<1>3. /\ Shape(u) /\ u.live = s.live /\ u.dying = s.dying /\ u.owner = s.owner /\ u.text = v
      /\ u.mirrorsBySource = s.mirrorsBySource /\ u.liftsBySource = f
      /\ u.ignoredEndPlaySigns = s.ignoredEndPlaySigns
      /\ u.iterated = s.iterated /\ u.mutated = s.mutated
  <2>1. /\ u.live = l /\ u.dying = d /\ u.owner = w /\ u.text = v /\ u.mirrorsBySource = m
        /\ u.liftsBySource = f /\ u.ignoredEndPlaySigns = i /\ u.iterated = r /\ u.mutated = e
    BY <1>2
  <2>2. /\ s.live = l /\ s.dying = d /\ s.owner = w /\ s.mirrorsBySource = m
        /\ s.ignoredEndPlaySigns = i /\ s.iterated = r /\ s.mutated = e
    BY <1>1
  <2>3. Shape(u)
    BY <1>1, <1>2, <2>1 DEF Shape
  <2>4. QED
    BY <2>1, <2>2, <2>3
<1>4. /\ DOMAIN f = DOMAIN s.liftsBySource \cup {g} /\ f[g] = lift
      /\ \A h \in DOMAIN f : h # g => f[h] = s.liftsBySource[h]
  BY DEF With
<1>5. ActorsOK(s) /\ MirrorsLinked(s) /\ MirrorsHosted(s)
  BY DEF Still, Sound
<1>6. x \in DOMAIN s.text /\ g \in DOMAIN s.text /\ g # x
  BY <1>5, Kinds DEF ActorsOK, AllSigns
<1>7. DOMAIN v = DOMAIN s.text /\ v[x] = v[g] /\ \A h \in DOMAIN s.text : h # x => v[h] = s.text[h]
  BY <1>6
<1>8. Still(u)
  <2>1. ActorsOK(u) /\ MirrorsLinked(u)
    BY <1>3, <1>4, <1>5, <1>7, ShownOK
  <2>2. QED
    BY <1>3, <1>5, <2>1 DEF Still, Sound, MirrorsHosted
<1>9. \A h : MirrorOf(u, h) = MirrorOf(s, h)
  BY <1>3 DEF MirrorOf, SavedPointer, At, IsValid
<1>10. ASSUME NEW y \in (Mirrors \cap s.live) \ {x}, MatchedAt(s, y) PROVE MatchedAt(u, y)
  <2>1. PICK o : o = s.owner[y]
    OBVIOUS
  <2>2. /\ o \in Sources \cap s.live /\ MirrorOf(s, o) = y /\ At(s.liftsBySource, o) \in Lifts \cap s.live
        /\ s.text[y] = s.text[o]
    BY <1>10, <2>1 DEF MatchedAt
  <2>3. y # None /\ o # None /\ o # x /\ y \in AllSigns /\ o \in AllSigns
    BY <2>2, Kinds DEF AllSigns
  <2>4. o # g
    BY <1>5, <1>10, <2>1, <2>3 DEF MirrorsLinked
  <2>5. At(u.liftsBySource, o) = At(s.liftsBySource, o)
    BY <1>3, <1>4, <2>4 DEF At
  <2>6. v[y] = v[o]
    BY <1>5, <1>7, <1>10, <2>2, <2>3 DEF ActorsOK
  <2>7. u.owner[y] = o /\ MirrorOf(u, o) = y
    BY <1>3, <1>9, <2>1, <2>2
  <2>8. u.text[y] = u.text[o] /\ o \in Sources \cap u.live
    BY <1>3, <2>2, <2>6
  <2>9. At(u.liftsBySource, o) \in Lifts \cap u.live
    BY <1>3, <2>2, <2>5
  <2>10. QED
    BY <2>7, <2>8, <2>9 DEF MatchedAt
<1>11. MatchedAt(u, x)
  <2>1. u.owner[x] = g /\ MirrorOf(u, g) = x /\ u.text[x] = u.text[g]
    BY <1>3, <1>7, <1>9
  <2>2. At(u.liftsBySource, g) = lift /\ u.live = s.live
    BY <1>3, <1>4 DEF At
  <2>3. QED
    BY <2>1, <2>2 DEF MatchedAt
<1>12. QED
  BY <1>3, <1>7, <1>8, <1>10, <1>11 DEF Beside

\* What is there stays as it is, mirrors are new and those of sources in S.
Mirrored(s, u, S) ==
    /\ Still(u) /\ s.live \subseteq u.live /\ u.live \subseteq s.live \cup Mirrors
    /\ \A g \in (StationSigns \cup Mirrors) \cap s.live : u.owner[g] = s.owner[g]
    /\ \A g \in AllSigns \cap s.live : u.text[g] = s.text[g]
    /\ \A x \in (Mirrors \cap u.live) \ s.live : u.owner[x] \in S
    /\ Matched(s) => Matched(u)

NoMirror(s, g) == MirrorOf(s, g) = None /\ \A x \in Mirrors \cap s.live : s.owner[x] # g

LEMMA MirroredNothing == ASSUME NEW s, Still(s), NEW S PROVE Mirrored(s, s, S)
BY DEF Mirrored

LEMMA MirroredBeside ==
    ASSUME NEW s, Still(s), NEW u, Still(u), NEW m \in Mirrors \ s.live, Beside(s, u, m), NEW S,
           m \in u.live => u.owner[m] \in S /\ MatchedAt(u, m)
    PROVE  Mirrored(s, u, S)
<1>1. DOMAIN s.owner = StationSigns \cup Mirrors /\ DOMAIN s.text = AllSigns
  BY DEF Still, Sound, ActorsOK
<1>2. u.live \ {m} = s.live
  BY DEF Beside
<1>3. Matched(s) => Matched(u)
  BY <1>2 DEF Beside, Matched
<1>4. QED
  BY <1>1, <1>2, <1>3 DEF Mirrored, Beside

LEMMA PartnerTakes ==
    ASSUME NEW s, Still(s), NEW x \in Mirrors \cap s.live
    PROVE  Takes(s, DestroyPartner(s, x), {x})
<1>1. authority /\ Conveyor
  BY DEF Still, Sound, MirrorsHosted
<1>2. Removed(s, DestroyPartner(s, x), {x}, {})
  BY <1>1, PartnerDestroyed DEF Still, Sound, ActorsOK
<1>3. Cut(s, {x}, {}) /\ {} \in SUBSET (Sources \cup {None})
  BY Kinds DEF Cut
<1>4. QED
  BY <1>2, <1>3 DEF Takes

LEMMA SpawnedMirror ==
    ASSUME NEW s, Still(s), authority, Conveyor, NEW g \in Sources \cap s.live, NoMirror(s, g),
           NEW x \in Mirrors \ s.live, NEW u, u = SpawnMirror(s, g, x)
    PROVE  /\ Still(u) /\ Beside(s, u, x) /\ MirrorOf(u, g) = x
           /\ u.live = s.live \cup {x} /\ u.owner[x] = g
<1>1. PICK z : z = [Spawn(s, x) EXCEPT !.owner[x] = g]
  OBVIOUS
<1>2. PICK m : m = With(z.mirrorsBySource, g, x)
  OBVIOUS
<1>3. Appears(s, z, x) /\ z.owner[x] = g
  BY <1>1, SpawnAppears DEF Still, Sound, ActorsOK
<1>4. Welcome(s, z, x)
  <2>1. x \in Addresses \ s.live /\ x \notin Lifts /\ x \notin StationSigns
    BY Kinds DEF Addresses, AllSigns, Sources
  <2>2. z.owner[x] \in Sources \cap s.live /\ \A y \in Mirrors \cap s.live : s.owner[y] # z.owner[x]
    BY <1>3 DEF NoMirror
  <2>3. QED
    BY <2>1, <2>2 DEF Welcome
<1>5. Still(z) /\ \A y \in Mirrors \cap s.live : MatchedAt(s, y) => MatchedAt(z, y)
  BY <1>3, <1>4, AppearsStill
<1>6. u = [z EXCEPT !.mirrorsBySource = m]
  <2>1. PICK t : t = Spawn(s, x)
    OBVIOUS
  <2>2. Appears(s, t, x)
    BY <2>1, SpawnAppears DEF Still, Sound, ActorsOK
  <2>3. PICK l, d, w, v, m0, f, i, r, e :
            t = [live |-> l, dying |-> d, owner |-> w, text |-> v, mirrorsBySource |-> m0,
                 liftsBySource |-> f, ignoredEndPlaySigns |-> i, iterated |-> r, mutated |-> e]
    BY <2>2 DEF Appears, Shape
  <2>4. PICK w1 : w1 = [w EXCEPT ![x] = g]
    OBVIOUS
  <2>5. t.owner = w /\ t.mirrorsBySource = m0
    BY <2>3
  <2>6. z = [t EXCEPT !.owner = w1]
    BY <1>1, <2>1, <2>4, <2>5
  <2>7. z = [live |-> l, dying |-> d, owner |-> w1, text |-> v, mirrorsBySource |-> m0,
             liftsBySource |-> f, ignoredEndPlaySigns |-> i, iterated |-> r, mutated |-> e]
    BY <2>3, <2>6
  <2>8. m = With(m0, g, x)
    BY <1>2, <2>7
  <2>9. u = [t EXCEPT !.owner = w1, !.mirrorsBySource = m]
    BY <2>1, <2>4, <2>5, <2>8 DEF SpawnMirror
  <2>10. u = [live |-> l, dying |-> d, owner |-> w1, text |-> v, mirrorsBySource |-> m,
              liftsBySource |-> f, ignoredEndPlaySigns |-> i, iterated |-> r, mutated |-> e]
    BY <2>3, <2>9
  <2>11. QED
    BY <2>7, <2>10
<1>7. x \in Mirrors \cap z.live /\ g \in Sources \cap z.live
  BY <1>3 DEF Appears
<1>8. Still(u) /\ Beside(z, u, x) /\ MirrorOf(u, g) = x /\ u.live = z.live /\ u.owner = z.owner
  BY <1>2, <1>3, <1>5, <1>6, <1>7, LinkKeeps
<1>9. Beside(s, z, x)
  BY <1>3, <1>5 DEF Beside, Appears
<1>10. Beside(s, u, x)
  BY <1>3, <1>8, <1>9 DEF Beside, Appears
<1>11. QED
  BY <1>3, <1>8, <1>10 DEF Appears

LEMMA EnsureMirrorIs ==
    ASSUME NEW s, Still(s), authority, Conveyor, NEW g \in Sources \cap s.live, NoMirror(s, g),
           NEW lift \in Lifts \cap s.live, NEW luck
    PROVE  Mirrored(s, EnsureMirror(s, g, lift, luck), {g})
<1> DEFINE free == Mirrors \ s.live
<1>1. PICK u : u = EnsureMirror(s, g, lift, luck)
  OBVIOUS
<1>2. MirrorOf(s, g) = None /\ FindExistingMirror(s, g) = None
  <2>1. {x \in Mirrors : IsValid(s, x) /\ s.owner[x] = g} = {}
    BY DEF NoMirror, IsValid
  <2>2. QED
    BY <2>1 DEF NoMirror, FindExistingMirror
<1>3. CASE luck = "fails" \/ free = {}
  <2>1. PICK m : m = Without(s.mirrorsBySource, {g})
    OBVIOUS
  <2>2. u = [s EXCEPT !.mirrorsBySource = m]
    BY <1>1, <1>2, <1>3, <2>1 DEF EnsureMirror
  <2>3. PICK l, d, w, v, m0, f, i, r, e :
            s = [live |-> l, dying |-> d, owner |-> w, text |-> v, mirrorsBySource |-> m0,
                 liftsBySource |-> f, ignoredEndPlaySigns |-> i, iterated |-> r, mutated |-> e]
    BY DEF Still, Sound, ActorsOK, Shape
  <2>4. u = Trimmed(s, m, f) /\ (f = s.liftsBySource \/ f = Without(s.liftsBySource, {g}))
    <3>1. u = [live |-> l, dying |-> d, owner |-> w, text |-> v, mirrorsBySource |-> m,
               liftsBySource |-> f, ignoredEndPlaySigns |-> i, iterated |-> r, mutated |-> e]
      BY <2>2, <2>3
    <3>2. PICK y : y = Trimmed(s, m, f)
      OBVIOUS
    <3>3. y = [live |-> l, dying |-> d, owner |-> w, text |-> v, mirrorsBySource |-> m,
               liftsBySource |-> f, ignoredEndPlaySigns |-> i, iterated |-> r, mutated |-> e]
      BY <2>3, <3>2 DEF Trimmed
    <3>4. QED
      BY <2>3, <3>1, <3>2, <3>3
  <2>5. Still(u) /\ SameActors(s, u)
    <3>1. Trimming(s, g, u)
      BY <2>1, <2>4 DEF Trimming
    <3>2. Sound(s) /\ MirrorOf(s, g) = None
      BY <1>2 DEF Still
    <3>3. Sound(u) /\ SameActors(s, u) /\ u.iterated = s.iterated /\ u.dying = s.dying
      BY <3>1, <3>2, TrimmingKeeps
    <3>4. QED
      BY <3>3 DEF Still
  <2>6. None \notin Mirrors /\ Beside(s, u, None)
    BY <2>5, Kinds DEF AllSigns, SameActors
  <2>7. Matched(s) => Matched(u)
    BY <2>5, <2>6 DEF Beside, Matched, SameActors
  <2>8. QED
    BY <1>1, <2>5, <2>7 DEF Mirrored, SameActors
<1>4. CASE ~(luck = "fails" \/ free = {})
  <2>1. PICK x : x = CHOOSE y \in free : TRUE
    OBVIOUS
  <2>2. x \in free
    BY <1>4, <2>1
  <2>3. PICK z : z = SpawnMirror(s, g, x)
    OBVIOUS
  <2>4. /\ Still(z) /\ Beside(s, z, x) /\ MirrorOf(z, g) = x
        /\ z.live = s.live \cup {x} /\ z.owner[x] = g
    BY <2>2, <2>3, SpawnedMirror
  <2>5. PICK l, d, w, v, m0, f, i, r, e :
            z = [live |-> l, dying |-> d, owner |-> w, text |-> v, mirrorsBySource |-> m0,
                 liftsBySource |-> f, ignoredEndPlaySigns |-> i, iterated |-> r, mutated |-> e]
    BY <2>4 DEF Still, Sound, ActorsOK, Shape
  <2>6. CASE luck = "saved"
    <3>1. PICK t : t = DestroyPartner(z, x)
      OBVIOUS
    <3>2. Takes(z, t, {x})
      BY <2>2, <2>4, <3>1, PartnerTakes
    <3>3. /\ Still(t) /\ t.live = s.live /\ Sound(t) /\ Sound(z)
          /\ \A h \in DOMAIN t.liftsBySource : t.liftsBySource[h] = z.liftsBySource[h]
          /\ DOMAIN t.liftsBySource \subseteq DOMAIN z.liftsBySource
      <4>1. Sound(z)
        BY <2>4 DEF Still
      <4>2. Still(t)
        BY <2>4, <3>2, TakesStill
      <4>3. /\ Sound(t) /\ t.live = z.live \ {x}
            /\ \A h \in DOMAIN t.liftsBySource : t.liftsBySource[h] = z.liftsBySource[h]
            /\ DOMAIN t.liftsBySource \subseteq DOMAIN z.liftsBySource
        BY <3>2, <4>1, TakesSound
      <4>4. QED
        BY <2>2, <2>4, <4>1, <4>2, <4>3
    <3>4. MirrorOf(t, g) = None
      <4>1. MirrorOf(t, g) \in {x, None}
        BY <2>4, <3>2, <3>3, TakesMirrorOf DEF Sound
      <4>2. MirrorOf(t, g) # None => MirrorOf(t, g) \in t.live
        BY <3>3, MirrorOfIs DEF Sound
      <4>3. QED
        BY <2>2, <3>3, <4>1, <4>2
    <3>5. PICK m : m = Without(t.mirrorsBySource, {g})
      OBVIOUS
    <3>6. u = [t EXCEPT !.mirrorsBySource = m]
      BY <1>1, <1>2, <1>4, <2>1, <2>3, <2>6, <3>1, <3>5 DEF EnsureMirror
    <3>7. PICK f1 : f1 = t.liftsBySource
      OBVIOUS
    <3>8. u = Trimmed(t, m, f1) /\ (f1 = t.liftsBySource \/ f1 = Without(t.liftsBySource, {g}))
      <4>1. PICK l2, d2, w2, v2, m2, i2, r2, e2 :
                t = [live |-> l2, dying |-> d2, owner |-> w2, text |-> v2, mirrorsBySource |-> m2,
                     liftsBySource |-> f1, ignoredEndPlaySigns |-> i2, iterated |-> r2, mutated |-> e2]
        BY <3>3, <3>7 DEF Sound, ActorsOK, Shape
      <4>2. u = [live |-> l2, dying |-> d2, owner |-> w2, text |-> v2, mirrorsBySource |-> m,
                 liftsBySource |-> f1, ignoredEndPlaySigns |-> i2, iterated |-> r2, mutated |-> e2]
        BY <3>6, <4>1
      <4>3. PICK y : y = Trimmed(t, m, f1)
        OBVIOUS
      <4>4. y = [live |-> l2, dying |-> d2, owner |-> w2, text |-> v2, mirrorsBySource |-> m,
                 liftsBySource |-> f1, ignoredEndPlaySigns |-> i2, iterated |-> r2, mutated |-> e2]
        BY <4>1, <4>3 DEF Trimmed
      <4>5. QED
        BY <3>7, <4>2, <4>3, <4>4
    <3>9. /\ Still(u) /\ Beside(t, u, x)
          /\ u.live = t.live /\ u.owner = t.owner /\ u.text = t.text
      <4>1. Sound(t) /\ ~t.iterated /\ t.dying = {}
        BY <3>3 DEF Still
      <4>2. Sound(u) /\ SameActors(t, u) /\ u.iterated = t.iterated /\ u.dying = t.dying
        <5>1. Trimming(t, g, u)
          BY <3>5, <3>8 DEF Trimming
        <5>2. QED
          BY <3>4, <4>1, <5>1, TrimmingKeeps
      <4>3. QED
        BY <4>1, <4>2 DEF SameActors, Still
    <3>10. Beside(z, t, x)
      <4>1. \A h \in DOMAIN t.liftsBySource : t.liftsBySource[h] \notin {x}
        <5>1. \A h \in DOMAIN t.liftsBySource : t.liftsBySource[h] \in Lifts \cup {None}
          BY <3>3 DEF Sound, ActorsOK
        <5>2. QED
          BY <2>2, <5>1, Kinds DEF AllSigns
      <4>2. \A y \in (Mirrors \cap z.live) \ {x} : MatchedAt(z, y) => MatchedAt(t, y)
        BY <3>2, <3>3, <4>1, TakesMatchedAt
      <4>3. PICK F : Removed(z, t, {x}, F)
        BY <3>2 DEF Takes
      <4>4. \A h \in DOMAIN z.owner : h # x /\ z.owner[h] = x => FALSE
        <5>1. /\ DOMAIN z.owner = StationSigns \cup Mirrors
              /\ \A h \in StationSigns : z.owner[h] \in Stations \cup {None}
              /\ \A h \in Mirrors : z.owner[h] \in Sources \cup {None}
          BY <2>4 DEF Still, Sound, ActorsOK
        <5>2. QED
          BY <2>2, <5>1, Kinds DEF AllSigns
      <4>5. QED
        BY <4>2, <4>3, <4>4 DEF Beside, Removed
    <3>11. Beside(s, u, x)
      BY <2>2, <2>4, <3>3, <3>9, <3>10 DEF Beside
    <3>12. Mirrored(s, u, {g})
      BY <2>2, <3>3, <3>9, <3>11, MirroredBeside
    <3>13. QED
      BY <1>1, <3>12
  <2>7. CASE luck # "saved"
    <3>1. PICK f1 : f1 = With(z.liftsBySource, g, lift)
      OBVIOUS
    <3>2. PICK v1 : v1 = [z.text EXCEPT ![x] = z.text[g]]
      OBVIOUS
    <3>3. u = [z EXCEPT !.liftsBySource = f1, !.text[x] = z.text[g]]
      BY <1>1, <1>2, <1>4, <2>1, <2>3, <2>7, <3>1 DEF EnsureMirror
    <3>4. u = Shown(z, f1, v1)
      BY <3>2, <3>3 DEF Shown
    <3>5. x \in Mirrors \cap z.live /\ g \in Sources \cap z.live /\ lift \in Lifts \cap z.live
      BY <2>2, <2>4
    <3>6. /\ Still(u) /\ Beside(z, u, x) /\ MatchedAt(u, x)
          /\ u.live = z.live /\ u.owner = z.owner
      BY <2>4, <3>1, <3>2, <3>4, <3>5, ShowKeeps
    <3>7. Beside(s, u, x)
      BY <2>2, <2>4, <3>6 DEF Beside
    <3>8. Mirrored(s, u, {g})
      BY <2>2, <2>4, <3>6, <3>7, MirroredBeside
    <3>9. QED
      BY <1>1, <3>8
  <2>8. QED
    BY <2>6, <2>7
<1>5. QED
  BY <1>3, <1>4

LEMMA MatchedLiftIs ==
    ASSUME NEW s, NEW g, NEW order \in ActorOrders
    PROVE  MatchedLift(s, g, order) \in (Lifts \cap s.live) \cup {None}
<1> DEFINE near == {i \in DOMAIN order : order[i] \in s.live /\ <<g, order[i]>> \in Near}
<1>1. Cardinality(Lifts) \in Nat /\ order \in [1 .. Cardinality(Lifts) -> Lifts]
  BY Kinds, FS_CardinalityType DEF ActorOrders
<1>2. near \subseteq Nat /\ near \subseteq DOMAIN order
  BY <1>1
<1>3. ASSUME near # {} PROVE Min(near) \in near
  <2> DEFINE Less == {ss \in Nat \X Nat : ss[1] < ss[2]}
  <2>1. IsWellFoundedOn(Less, Nat)
    BY NatLessThanWellFounded DEF OpToRel
  <2>2. PICK m \in near : \A k \in near : <<k, m>> \notin Less
    <3> HIDE DEF Less, near
    <3>1. QED
      BY <1>2, <1>3, <2>1, WFMin
  <2>3. \A k \in near : m =< k
    <3>1. ASSUME NEW k \in near, k < m PROVE FALSE
      <4>1. k \in Nat /\ m \in Nat
        BY <1>2, <2>2
      <4>2. <<k, m>> \in Less
        BY <3>1, <4>1
      <4>3. QED
        BY <2>2, <4>2
    <3>2. QED
      BY <1>2, <3>1
  <2> HIDE DEF near
  <2>4. QED
    BY <2>3 DEF Min
<1>4. near # {} => order[Min(near)] \in Lifts \cap s.live
  BY <1>1, <1>3
<1>5. MatchedLift(s, g, order) = IF near = {} THEN None ELSE order[Min(near)]
  BY DEF MatchedLift
<1>6. QED
  BY <1>4, <1>5

LEMMA EnsureMirrorForSourceIs ==
    ASSUME NEW s, Still(s), NEW g \in Sources \cap s.live, NoMirror(s, g),
           NEW order \in ActorOrders, NEW luck
    PROVE  Mirrored(s, EnsureMirrorForSource(s, g, order, luck), {g})
<1>1. PICK lift : lift = MatchedLift(s, g, order)
  OBVIOUS
<1>2. lift \in (Lifts \cap s.live) \cup {None}
  BY <1>1, MatchedLiftIs
<1>3. CASE Conveyor /\ authority /\ phase = "play" /\ lift # None
  <2>1. EnsureMirrorForSource(s, g, order, luck) = EnsureMirror(s, g, lift, luck)
    BY <1>1, <1>3, Kinds DEF EnsureMirrorForSource, Conveyor, IsMirror, IsValid
  <2>2. QED
    BY <1>2, <1>3, <2>1, EnsureMirrorIs
<1>4. CASE ~(Conveyor /\ authority /\ phase = "play" /\ lift # None)
  <2>1. EnsureMirrorForSource(s, g, order, luck) = s
    BY <1>1, <1>4 DEF EnsureMirrorForSource, Conveyor
  <2>2. QED
    BY <2>1, MirroredNothing
<1>5. QED
  BY <1>3, <1>4

-----------------------------------------------------------------------------
(* Texts                                                                    *)

LEMMA RetextKeeps ==
    ASSUME NEW s, Still(s), NEW v, DOMAIN v = AllSigns, NEW u, u = [s EXCEPT !.text = v]
    PROVE  /\ Still(u) /\ u.text = v /\ u.live = s.live /\ u.owner = s.owner
           /\ u.liftsBySource = s.liftsBySource /\ \A h : MirrorOf(u, h) = MirrorOf(s, h)
<1>1. PICK l, d, w, v0, m, f, i, r, e :
          /\ s = [live |-> l, dying |-> d, owner |-> w, text |-> v0, mirrorsBySource |-> m,
                  liftsBySource |-> f, ignoredEndPlaySigns |-> i, iterated |-> r, mutated |-> e]
          /\ r \in BOOLEAN /\ e \in BOOLEAN
  BY DEF Still, Sound, ActorsOK, Shape
<1>2. u = [live |-> l, dying |-> d, owner |-> w, text |-> v, mirrorsBySource |-> m,
           liftsBySource |-> f, ignoredEndPlaySigns |-> i, iterated |-> r, mutated |-> e]
  BY <1>1
<1>3. /\ Shape(u) /\ u.live = s.live /\ u.dying = s.dying /\ u.owner = s.owner /\ u.text = v
      /\ u.mirrorsBySource = s.mirrorsBySource /\ u.liftsBySource = s.liftsBySource
      /\ u.ignoredEndPlaySigns = s.ignoredEndPlaySigns
      /\ u.iterated = s.iterated /\ u.mutated = s.mutated
  BY <1>1, <1>2 DEF Shape
<1>4. Still(u)
  BY <1>3 DEF Still, Sound, ActorsOK, MirrorsLinked, MirrorsHosted
<1>5. \A h : MirrorOf(u, h) = MirrorOf(s, h)
  BY <1>3 DEF MirrorOf, SavedPointer, IsValid
<1>6. QED
  BY <1>3, <1>4, <1>5

\* A sign is given a text, and its mirror.
LEMMA SetPrefabSignDataIs ==
    ASSUME NEW s, Still(s), NEW g \in Sources \cap s.live, NEW text,
           NEW u, u = SetPrefabSignData(s, g, text)
    PROVE  /\ Still(u) /\ u.live = s.live /\ u.owner = s.owner
           /\ u.text[g] = text /\ \A h \in Sources \ {g} : u.text[h] = s.text[h]
           /\ Matched(s) => Matched(u)
<1>1. ActorsOK(s) /\ g \notin Mirrors /\ g \in AllSigns
  BY Kinds DEF Still, Sound, AllSigns
<1>2. PICK v : v = [s.text EXCEPT ![g] = text]
  OBVIOUS
<1>3. PICK z : z = [s EXCEPT !.text = v]
  OBVIOUS
<1>4. z = [s EXCEPT !.text[g] = text]
  BY <1>2, <1>3
<1>5. DOMAIN v = AllSigns /\ v[g] = text /\ \A h \in AllSigns \ {g} : v[h] = s.text[h]
  BY <1>1, <1>2 DEF ActorsOK
<1>6. /\ Still(z) /\ z.text = v /\ z.live = s.live /\ z.owner = s.owner
      /\ z.liftsBySource = s.liftsBySource /\ \A h : MirrorOf(z, h) = MirrorOf(s, h)
  BY <1>3, <1>5, RetextKeeps
<1>7. PICK m : m = MirrorOf(s, g)
  OBVIOUS
<1>8. m # None => m \in Mirrors \cap s.live /\ s.owner[m] = g
  BY <1>1, <1>7, MirrorOfIs DEF Still, Sound, MirrorsLinked
<1>9. m # None => Conveyor
  BY <1>8 DEF Still, Sound, MirrorsHosted
<1>10. PICK y : y = IF m = None THEN v ELSE [v EXCEPT ![m] = text]
  OBVIOUS
<1>11. u = [z EXCEPT !.text = y]
  <2>1. CASE m = None
    <3>1. u = z
      BY <1>1, <1>4, <1>6, <1>7, <2>1 DEF SetPrefabSignData, SyncSource, Conveyor, IsMirror
    <3>2. Shape(z)
      BY <1>6 DEF Still, Sound, ActorsOK
    <3>3. PICK l, d, w, m0, f, i, r, e :
              z = [live |-> l, dying |-> d, owner |-> w, text |-> v, mirrorsBySource |-> m0,
                   liftsBySource |-> f, ignoredEndPlaySigns |-> i, iterated |-> r, mutated |-> e]
      BY <1>6, <3>2 DEF Shape
    <3>4. [z EXCEPT !.text = v] = z
      BY <3>3
    <3>5. QED
      BY <1>10, <2>1, <3>1, <3>4
  <2>2. CASE m # None
    <3>1. SetPrefabSignData(s, g, text) = SyncSource(z, g)
      BY <1>4, <1>9, <2>2 DEF SetPrefabSignData, Conveyor
    <3>2. SyncSource(z, g) = [z EXCEPT !.text[m] = z.text[g]]
      BY <1>1, <1>6, <1>7, <2>2 DEF SyncSource, IsMirror
    <3>3. z.text = v /\ v[g] = text
      BY <1>5, <1>6
    <3>4. QED
      BY <1>10, <2>2, <3>1, <3>2, <3>3
  <2>3. QED
    BY <2>1, <2>2
<1>12. /\ DOMAIN y = AllSigns /\ y[g] = text /\ (m # None => y[m] = text)
       /\ \A h \in AllSigns \ {g, m} : y[h] = s.text[h]
  <2>1. CASE m = None
    BY <1>1, <1>5, <1>10, <2>1
  <2>2. CASE m # None
    <3>1. m \in AllSigns /\ y = [v EXCEPT ![m] = text]
      BY <1>8, <1>10, <2>2 DEF AllSigns
    <3>2. DOMAIN y = AllSigns /\ y[m] = text /\ \A h \in AllSigns \ {m} : y[h] = v[h]
      BY <1>5, <3>1
    <3>3. QED
      BY <1>1, <1>5, <3>2
  <2>3. QED
    BY <2>1, <2>2
<1>13. /\ Still(u) /\ u.text = y /\ u.live = s.live /\ u.owner = s.owner
       /\ u.liftsBySource = s.liftsBySource /\ \A h : MirrorOf(u, h) = MirrorOf(s, h)
  <2>1. DOMAIN y = AllSigns /\ Still(z)
    BY <1>6, <1>12
  <2>2. /\ Still(u) /\ u.text = y /\ u.live = z.live /\ u.owner = z.owner
        /\ u.liftsBySource = z.liftsBySource /\ \A h : MirrorOf(u, h) = MirrorOf(z, h)
    BY <1>11, <2>1, RetextKeeps
  <2>3. QED
    BY <1>6, <2>2
<1>14. \A h \in Sources \ {g} : u.text[h] = s.text[h]
  BY <1>8, <1>12, <1>13, Kinds DEF AllSigns
<1>15. ASSUME NEW x \in Mirrors \cap u.live, MatchedAt(s, x) PROVE MatchedAt(u, x)
  <2>1. PICK o : o = s.owner[x]
    OBVIOUS
  <2>2. /\ o \in Sources \cap s.live /\ MirrorOf(s, o) = x /\ At(s.liftsBySource, o) \in Lifts \cap s.live
        /\ s.text[x] = s.text[o]
    BY <1>15, <2>1 DEF MatchedAt
  <2>3. y[x] = y[o]
    <3>1. CASE o = g
      <4>1. x = m /\ m # None
        BY <1>7, <2>2, <3>1, Kinds DEF AllSigns
      <4>2. QED
        BY <1>12, <3>1, <4>1
    <3>2. CASE o # g
      <4>1. x # m /\ o # m /\ x # g
        BY <1>1, <1>8, <2>1, <2>2, <3>2, Kinds DEF AllSigns
      <4>2. x \in AllSigns /\ o \in AllSigns
        BY <2>2 DEF AllSigns
      <4>3. QED
        BY <1>12, <2>2, <3>2, <4>1, <4>2
    <3>3. QED
      BY <3>1, <3>2
  <2>4. QED
    BY <1>13, <2>1, <2>2, <2>3 DEF MatchedAt
<1>16. Matched(s) => Matched(u)
  BY <1>13, <1>15 DEF Matched
<1>17. QED
  BY <1>12, <1>13, <1>14, <1>16

-----------------------------------------------------------------------------
(* The refresh of a world                                                   *)

\* Saved mirrors are destroyed, sources are given mirrors, and what the maps
\* still name is forgotten: one step each.
SaveStep(s, x, t) == DestroyPartner(t, x)
SavedGone(s, done, t) == Takes(s, t, done)
Saving == INSTANCE FiniteFolds WITH Op <- SaveStep, Holds <- SavedGone

EnsureStep(p, g, t) == EnsureMirror(t, g, MatchedLift(p.s, g, p.order), p.luck)
Ensured(p, done, t) == Mirrored(p.r, t, done)
Ensuring == INSTANCE FiniteFolds WITH Op <- EnsureStep, Holds <- Ensured

DropOne(g, t) ==
    LET mirror == MirrorOf(t, g)
        ended == DestroyPartner([t EXCEPT !.liftsBySource = Without(@, {g})], mirror)
    IN  [ended EXCEPT !.mirrorsBySource = Without(@, {g})]
DropStep(s, g, t) == DropOne(g, t)
Dropped(s, done, t) == Sound(t) /\ t.iterated = TRUE /\ t.dying = {} /\ SameActors(s, t)
Dropping == INSTANCE FiniteFolds WITH Op <- DropStep, Holds <- Dropped

LEMMA FoldOfNothing == ASSUME NEW p, NEW base PROVE Saving!Fold(p, base, {}) = base
<1>1. Saving!IsFiniteSet({})
  BY FS_EmptySet DEF IsFiniteSet, Saving!IsFiniteSet
<1>2. PICK f : Saving!Folded(p, base, {}, f)
  BY <1>1, Saving!FoldExists
<1>3. PICK g : g = CHOOSE h : Saving!Folded(p, base, {}, h)
  OBVIOUS
<1>4. Saving!Folded(p, base, {}, g) /\ Saving!Fold(p, base, {}) = g[{}]
  BY <1>2, <1>3 DEF Saving!Folded, Saving!Fold
<1>5. QED
  BY <1>4, Saving!FoldValues

LEMMA SavedRemoved ==
    ASSUME NEW s, Still(s), ~initialized
    PROVE  LET r == RemoveSavedMirrors(s) IN Still(r) /\ Takes(s, r, Mirrors \cap s.live)
<1> DEFINE S == Mirrors \cap s.live
<1>1. IsFiniteSet(S)
  BY Kinds, FS_Intersection
<1>2. RemoveSavedMirrors(s) = Saving!Fold(s, s, S)
  BY DEF RemoveSavedMirrors, FoldSet, MapThenFoldSet, Saving!Fold, Saving!Pick, SaveStep
<1>3. ActorsOK(s) /\ Shape(s)
  BY DEF Still, Sound, ActorsOK
<1>4. SavedGone(s, {}, s)
  BY <1>3, TakesNothing DEF SavedGone
<1> HIDE DEF S
<1>5. ASSUME NEW T \in SUBSET S, NEW x \in T, NEW t, SavedGone(s, T \ {x}, t)
      PROVE  SavedGone(s, T, SaveStep(s, x, t))
  <2>1. Takes(s, t, T \ {x}) /\ Sound(s)
    BY <1>5 DEF SavedGone, Still
  <2>2. t.live = s.live \ (T \ {x}) /\ Still(t)
    BY <2>1, TakesSound, TakesStill
  <2>3. x \in Mirrors \cap t.live
    BY <2>2 DEF S
  <2>4. Takes(t, DestroyPartner(t, x), {x})
    BY <2>2, <2>3, PartnerTakes
  <2>5. Takes(s, DestroyPartner(t, x), (T \ {x}) \cup {x})
    BY <1>3, <2>1, <2>4, TakesTwice
  <2>6. (T \ {x}) \cup {x} = T
    OBVIOUS
  <2>7. QED
    BY <2>5, <2>6 DEF SavedGone, SaveStep
<1>6. SavedGone(s, S, Saving!Fold(s, s, S))
  BY <1>1, <1>4, <1>5, Saving!FoldHolds DEF IsFiniteSet, Saving!IsFiniteSet
<1>7. Takes(s, RemoveSavedMirrors(s), S)
  BY <1>2, <1>6 DEF SavedGone
<1>8. QED
  BY <1>7, TakesStill DEF S

LEMMA MirroredTwice ==
    ASSUME NEW r, Still(r), NEW s, NEW u, NEW A, NEW B, Mirrored(r, s, A), Mirrored(s, u, B)
    PROVE  Mirrored(r, u, A \cup B)
<1>1. /\ Still(u) /\ r.live \subseteq u.live /\ u.live \subseteq r.live \cup Mirrors
      /\ Matched(r) => Matched(u)
  BY DEF Mirrored
<1>2. \A g \in (StationSigns \cup Mirrors) \cap r.live : u.owner[g] = r.owner[g]
  BY DEF Mirrored
<1>3. \A g \in AllSigns \cap r.live : u.text[g] = r.text[g]
  BY DEF Mirrored
<1>4. \A x \in (Mirrors \cap u.live) \ r.live : u.owner[x] \in A \cup B
  BY DEF Mirrored
<1>5. QED
  BY <1>1, <1>2, <1>3, <1>4 DEF Mirrored

\* Who owns no mirror has none in the map.
LEMMA Unowned ==
    ASSUME NEW s, Sound(s), NEW g, \A x \in Mirrors \cap s.live : s.owner[x] # g
    PROVE  MirrorOf(s, g) = None
<1>1. SUFFICES ASSUME MirrorOf(s, g) # None PROVE FALSE
  OBVIOUS
<1>2. PICK m : m = MirrorOf(s, g)
  OBVIOUS
<1>3. g \in DOMAIN s.mirrorsBySource /\ m = s.mirrorsBySource[g] /\ m \in Mirrors \cap s.live
  BY <1>1, <1>2, MirrorOfIs DEF Sound
<1>4. QED
  BY <1>3 DEF Sound, MirrorsLinked

EnsureAll(s, r, S, order, luck) ==
    FoldSet(LAMBDA g, t : EnsureMirror(t, g, MatchedLift(s, g, order), luck), r, S)

LEMMA AllEnsured ==
    ASSUME NEW s, NEW r, Still(r), authority, Conveyor, Mirrors \cap r.live = {},
           r.live = s.live \ Mirrors, NEW order \in ActorOrders, NEW luck,
           NEW S, S = {g \in Sources \cap s.live : MatchedLift(s, g, order) # None}
    PROVE  Mirrored(r, EnsureAll(s, r, S, order, luck), S)
<1>1. PICK p : p = [s |-> s, r |-> r, order |-> order, luck |-> luck]
  OBVIOUS
<1>2. p.s = s /\ p.r = r /\ p.order = order /\ p.luck = luck
  BY <1>1
<1>3. EnsureAll(s, r, S, order, luck) = Ensuring!Fold(p, r, S)
  BY <1>2 DEF EnsureAll, FoldSet, MapThenFoldSet, Ensuring!Fold, Ensuring!Pick, EnsureStep
<1>4. IsFiniteSet(S)
  BY Kinds, FS_Subset
<1>5. Ensured(p, {}, r)
  BY <1>2, MirroredNothing DEF Ensured
<1>6. ASSUME NEW T \in SUBSET S, NEW g \in T, NEW t, Ensured(p, T \ {g}, t)
      PROVE  Ensured(p, T, EnsureStep(p, g, t))
  <2>1. Mirrored(r, t, T \ {g})
    BY <1>2, <1>6 DEF Ensured
  <2>2. PICK lift : lift = MatchedLift(s, g, order)
    OBVIOUS
  <2>3. lift \in Lifts \cap s.live /\ g \in Sources \cap s.live
    BY <2>2, MatchedLiftIs
  <2>4. lift \in Lifts \cap t.live /\ g \in Sources \cap t.live
    BY <2>1, <2>3, Kinds DEF Mirrored, AllSigns
  <2>5. Still(t) /\ Sound(t)
    BY <2>1 DEF Mirrored, Still
  <2>6. \A x \in Mirrors \cap t.live : t.owner[x] # g
    BY <2>1 DEF Mirrored
  <2>7. NoMirror(t, g)
    BY <2>5, <2>6, Unowned DEF NoMirror
  <2>8. Mirrored(t, EnsureMirror(t, g, lift, luck), {g})
    BY <2>4, <2>5, <2>7, EnsureMirrorIs
  <2>9. Mirrored(r, EnsureMirror(t, g, lift, luck), (T \ {g}) \cup {g})
    BY <2>1, <2>8, MirroredTwice
  <2>10. (T \ {g}) \cup {g} = T
    OBVIOUS
  <2>11. QED
    BY <1>2, <2>2, <2>9, <2>10 DEF Ensured, EnsureStep
<1>7. Ensured(p, S, Ensuring!Fold(p, r, S))
  BY <1>4, <1>5, <1>6, Ensuring!FoldHolds DEF IsFiniteSet, Ensuring!IsFiniteSet
<1>8. QED
  BY <1>2, <1>3, <1>7 DEF Ensured

\* While the map is iterated nothing else changes.
LEMMA IteratedIs ==
    ASSUME NEW s, Sound(s), NEW b \in BOOLEAN, NEW u, u = [s EXCEPT !.iterated = b]
    PROVE  /\ Sound(u) /\ u.iterated = b /\ u.dying = s.dying /\ SameActors(s, u)
           /\ u.mirrorsBySource = s.mirrorsBySource
<1>1. PICK l, d, w, v, m, f, i, r, e :
          /\ s = [live |-> l, dying |-> d, owner |-> w, text |-> v, mirrorsBySource |-> m,
                  liftsBySource |-> f, ignoredEndPlaySigns |-> i, iterated |-> r, mutated |-> e]
          /\ r \in BOOLEAN /\ e \in BOOLEAN
  BY DEF Sound, ActorsOK, Shape
<1>2. u = [live |-> l, dying |-> d, owner |-> w, text |-> v, mirrorsBySource |-> m,
           liftsBySource |-> f, ignoredEndPlaySigns |-> i, iterated |-> b, mutated |-> e]
  BY <1>1
<1>3. /\ Shape(u) /\ u.live = s.live /\ u.dying = s.dying /\ u.owner = s.owner /\ u.text = s.text
      /\ u.mirrorsBySource = s.mirrorsBySource /\ u.liftsBySource = s.liftsBySource
      /\ u.ignoredEndPlaySigns = s.ignoredEndPlaySigns
      /\ u.iterated = b /\ u.mutated = s.mutated
  BY <1>1, <1>2 DEF Shape
<1>4. Sound(u)
  BY <1>3 DEF Sound, ActorsOK, MirrorsLinked, MirrorsHosted
<1>5. \A h : MirrorOf(u, h) = MirrorOf(s, h)
  BY <1>3 DEF MirrorOf, SavedPointer, IsValid
<1>6. \A x : MatchedAt(s, x) => MatchedAt(u, x)
  BY <1>3, <1>5 DEF MatchedAt
<1>7. QED
  BY <1>3, <1>4, <1>6 DEF SameActors, Beside

LEMMA SameActorsTwice ==
    ASSUME NEW r, NEW s, NEW u, SameActors(r, s), SameActors(s, u)
    PROVE  SameActors(r, u)
<1>1. ASSUME NEW k PROVE Beside(r, u, k)
  <2>1. Beside(r, s, k) /\ Beside(s, u, k)
    BY DEF SameActors
  <2>2. QED
    BY <2>1 DEF Beside
<1>2. QED
  BY <1>1 DEF SameActors

LEMMA SameMatched ==
    ASSUME NEW s, NEW u, SameActors(s, u), Matched(s)
    PROVE  Matched(u)
<1>1. Beside(s, u, None) /\ u.live = s.live /\ None \notin Mirrors
  BY Kinds DEF SameActors, AllSigns
<1>2. QED
  BY <1>1 DEF Beside, Matched

LEMMA DropKeeps ==
    ASSUME NEW s, Sound(s), NEW g, \A x \in Mirrors \cap s.live : s.owner[x] # g
    PROVE  LET u == DropOne(g, s) IN
           Sound(u) /\ SameActors(s, u) /\ u.iterated = s.iterated /\ u.dying = s.dying
<1>1. MirrorOf(s, g) = None
  BY Unowned
<1>2. PICK l, d, w, v, m0, f0, i, r, e :
          s = [live |-> l, dying |-> d, owner |-> w, text |-> v, mirrorsBySource |-> m0,
               liftsBySource |-> f0, ignoredEndPlaySigns |-> i, iterated |-> r, mutated |-> e]
  BY DEF Sound, ActorsOK, Shape
<1>3. PICK m : m = Without(s.mirrorsBySource, {g})
  OBVIOUS
<1>4. PICK f : f = Without(s.liftsBySource, {g})
  OBVIOUS
<1>5. PICK t : t = [s EXCEPT !.liftsBySource = f]
  OBVIOUS
<1>6. t = [live |-> l, dying |-> d, owner |-> w, text |-> v, mirrorsBySource |-> m0,
           liftsBySource |-> f, ignoredEndPlaySigns |-> i, iterated |-> r, mutated |-> e]
  BY <1>2, <1>5
<1>7. DestroyPartner(t, None) = t
  <2>1. None \notin t.live
    BY <1>2, <1>6, Kinds DEF Sound, ActorsOK, Addresses
  <2>2. QED
    BY <2>1 DEF DestroyPartner, IsValid
<1>8. DropOne(g, s) = [t EXCEPT !.mirrorsBySource = Without(t.mirrorsBySource, {g})]
  BY <1>1, <1>4, <1>5, <1>7 DEF DropOne
<1>9. t.mirrorsBySource = s.mirrorsBySource
  BY <1>2, <1>6
<1>10. PICK u : u = [t EXCEPT !.mirrorsBySource = m]
  OBVIOUS
<1>11. DropOne(g, s) = u
  BY <1>3, <1>8, <1>9, <1>10
<1>12. u = [live |-> l, dying |-> d, owner |-> w, text |-> v, mirrorsBySource |-> m,
            liftsBySource |-> f, ignoredEndPlaySigns |-> i, iterated |-> r, mutated |-> e]
  BY <1>6, <1>10
<1>13. PICK y : y = Trimmed(s, m, f)
  OBVIOUS
<1>14. y = [live |-> l, dying |-> d, owner |-> w, text |-> v, mirrorsBySource |-> m,
            liftsBySource |-> f, ignoredEndPlaySigns |-> i, iterated |-> r, mutated |-> e]
  BY <1>2, <1>13 DEF Trimmed
<1>15. u = Trimmed(s, m, f) /\ (f = s.liftsBySource \/ f = Without(s.liftsBySource, {g}))
  BY <1>4, <1>12, <1>13, <1>14
<1>16. Sound(u) /\ SameActors(s, u) /\ u.iterated = s.iterated /\ u.dying = s.dying
  <2>1. Trimming(s, g, u)
    BY <1>3, <1>15 DEF Trimming
  <2>2. QED
    BY <1>1, <2>1, TrimmingKeeps
<1>17. QED
  BY <1>11, <1>16

LEMMA AllDropped ==
    ASSUME NEW s, Sound(s), s.iterated = TRUE, s.dying = {},
           NEW S, S \subseteq Sources, \A x \in Mirrors \cap s.live : s.owner[x] \notin S,
           NEW u, u = FoldSet(DropOne, s, S)
    PROVE  Dropped(s, S, u)
<1>1. IsFiniteSet(S)
  BY Kinds, FS_Subset
<1>2. u = Dropping!Fold(s, s, S)
  BY DEF FoldSet, MapThenFoldSet, Dropping!Fold, Dropping!Pick, DropStep
<1>3. Dropped(s, {}, s)
  BY DEF Dropped, SameActors, Beside
<1>4. ASSUME NEW T \in SUBSET S, NEW g \in T, NEW t, Dropped(s, T \ {g}, t)
      PROVE  Dropped(s, T, DropStep(s, g, t))
  <2>1. Sound(t) /\ t.iterated = TRUE /\ t.dying = {} /\ SameActors(s, t)
    BY <1>4 DEF Dropped
  <2>2. \A x \in Mirrors \cap t.live : t.owner[x] # g
    BY <2>1 DEF SameActors
  <2>3. PICK y : y = DropOne(g, t)
    OBVIOUS
  <2>4. Sound(y) /\ SameActors(t, y) /\ y.iterated = t.iterated /\ y.dying = t.dying
    BY <2>1, <2>2, <2>3, DropKeeps
  <2>5. SameActors(s, y)
    BY <2>1, <2>4, SameActorsTwice
  <2>6. QED
    BY <2>1, <2>3, <2>4, <2>5 DEF Dropped, DropStep
<1>5. Dropped(s, S, Dropping!Fold(s, s, S))
  BY <1>1, <1>3, <1>4, Dropping!FoldHolds DEF IsFiniteSet, Dropping!IsFiniteSet
<1>6. QED
  BY <1>2, <1>5

\* The refresh of a world that no refresh has seen: its mirrors are made
\* anew, and nothing else changes.
LEMMA RefreshWorldIs ==
    ASSUME NEW s, Still(s), authority, Conveyor, ~initialized, NEW order \in ActorOrders, NEW luck,
           NEW u, u = RefreshWorld(s, order, luck)
    PROVE  /\ Still(u) /\ Matched(u) /\ u.live \ Mirrors = s.live \ Mirrors
           /\ \A g \in StationSigns \cap s.live : u.owner[g] = s.owner[g]
           /\ \A g \in Sources \cap s.live : u.text[g] = s.text[g]
<1> DEFINE S == {g \in Sources \cap s.live : MatchedLift(s, g, order) # None}
<1>1. PICK r : r = RemoveSavedMirrors(s)
  OBVIOUS
<1>2. Still(r) /\ Takes(s, r, Mirrors \cap s.live) /\ r.live = s.live \ Mirrors
  <2>1. Still(r) /\ Takes(s, r, Mirrors \cap s.live)
    BY <1>1, SavedRemoved
  <2>2. QED
    BY <2>1, TakesSound DEF Still
<1>3. PICK e : e = EnsureAll(s, r, S, order, luck)
  OBVIOUS
<1>4. Mirrors \cap r.live = {} /\ Matched(r)
  BY <1>2 DEF Matched
<1>5. Mirrored(r, e, S)
  BY <1>2, <1>3, <1>4, AllEnsured
<1>6. PICK f : f = [e EXCEPT !.iterated = TRUE]
  OBVIOUS
<1>7. Sound(e) /\ e.iterated = FALSE /\ e.dying = {}
  BY <1>5 DEF Mirrored, Still, Sound, ActorsOK, Shape
<1>8. /\ Sound(f) /\ f.iterated = TRUE /\ f.dying = {} /\ SameActors(e, f)
      /\ f.mirrorsBySource = e.mirrorsBySource
  BY <1>6, <1>7, IteratedIs
<1>9. PICK K : K = DOMAIN e.mirrorsBySource \ S
  OBVIOUS
<1>10. \A x \in Mirrors \cap e.live : e.owner[x] \in S
  BY <1>4, <1>5 DEF Mirrored
<1>11. K \subseteq Sources /\ \A x \in Mirrors \cap f.live : f.owner[x] \notin K
  <2>1. K \subseteq Sources
    BY <1>7, <1>9 DEF Sound, ActorsOK
  <2>2. \A x \in Mirrors \cap f.live : f.owner[x] \in S
    BY <1>8, <1>10 DEF SameActors
  <2>3. QED
    BY <1>9, <2>1, <2>2
<1>12. PICK d : d = FoldSet(DropOne, f, K)
  OBVIOUS
<1>13. Dropped(f, K, d)
  BY <1>8, <1>11, <1>12, AllDropped
<1>14. PICK z : z = [d EXCEPT !.iterated = FALSE]
  OBVIOUS
<1>15. Sound(d) /\ d.dying = {} /\ SameActors(f, d)
  BY <1>13 DEF Dropped
<1>16. Sound(z) /\ z.iterated = FALSE /\ z.dying = {} /\ SameActors(d, z)
  BY <1>14, <1>15, IteratedIs
<1>17. SameActors(e, d) /\ SameActors(e, z)
  BY <1>8, <1>15, <1>16, SameActorsTwice
<1>18. {x \in Mirrors \cap d.live : d.owner[x] \notin S} = {}
  BY <1>10, <1>17 DEF SameActors
<1>19. u = z
  <2>1. u = FoldSet(LAMBDA x, t : DestroyPartner(t, x), z,
                    {x \in Mirrors \cap d.live : d.owner[x] \notin S})
    BY <1>1, <1>3, <1>6, <1>9, <1>12, <1>14 DEF RefreshWorld, DropOne, EnsureAll
  <2>2. u = FoldSet(LAMBDA x, t : DestroyPartner(t, x), z, {})
    BY <1>18, <2>1
  <2>3. FoldSet(LAMBDA x, t : DestroyPartner(t, x), z, {}) = Saving!Fold(z, z, {})
    BY DEF FoldSet, MapThenFoldSet, Saving!Fold, Saving!Pick, SaveStep
  <2>4. QED
    BY <2>2, <2>3, FoldOfNothing
<1>20. Still(u)
  BY <1>16, <1>19 DEF Still
<1>21. Matched(u)
  BY <1>4, <1>5, <1>17, <1>19, SameMatched DEF Mirrored
<1>22. u.live = e.live /\ u.owner = e.owner /\ u.text = e.text
  BY <1>17, <1>19 DEF SameActors
<1>23. u.live \ Mirrors = s.live \ Mirrors
  BY <1>2, <1>5, <1>22 DEF Mirrored
<1>24. ActorsOK(s) /\ (Mirrors \cap s.live) \cap Stations = {}
  BY Kinds DEF Still, Sound, AllSigns
<1>25. SeenBelow(s, r)
  BY <1>2, <1>24, TakesSeen
<1>26. \A g \in Sources \cap s.live : g \in r.live /\ r.text[g] = s.text[g] /\ u.text[g] = r.text[g]
  <2>1. PICK F : Removed(s, r, Mirrors \cap s.live, F)
    BY <1>2 DEF Takes
  <2>2. ASSUME NEW g \in Sources \cap s.live PROVE g \in r.live /\ r.text[g] = s.text[g]
    BY <1>2, <1>24, <2>1, Kinds DEF Removed, ActorsOK, AllSigns
  <2>3. QED
    BY <1>5, <1>22, <2>2 DEF Mirrored, AllSigns
<1>27. \A g \in StationSigns \cap s.live : u.owner[g] = s.owner[g]
  BY <1>5, <1>22, <1>25, <1>26 DEF Mirrored, SeenBelow, Sources
<1>28. QED
  BY <1>20, <1>21, <1>23, <1>26, <1>27

-----------------------------------------------------------------------------
(* The mod is shut down                                                     *)

\* No cascade is under way, whatever is being iterated.
Idle(s) ==
    /\ Shape(s) /\ None \notin s.live
    /\ s.dying = {} /\ s.ignoredEndPlaySigns = {} /\ ~s.mutated
ResetStep(p, g, t) == DestroyPartner(t, MirrorOf(t, g))
IdleAfter(p, done, t) == Idle(t)
Resetting == INSTANCE FiniteFolds WITH Op <- ResetStep, Holds <- IdleAfter

LEMMA PartnerIdle ==
    ASSUME NEW s, Idle(s), Conveyor, NEW a
    PROVE  Idle(DestroyPartner(s, a))
<1>1. CASE a \in s.live /\ authority
  <2>1. Removed(s, DestroyPartner(s, a), {a}, {})
    BY <1>1, PartnerDestroyed DEF Idle
  <2>2. QED
    BY <2>1 DEF Removed, Idle
<1>2. CASE ~(a \in s.live /\ authority)
  BY <1>2 DEF DestroyPartner, IsValid
<1>3. QED
  BY <1>1, <1>2

LEMMA ResetQuiet ==
    ASSUME NEW s, Still(s), Conveyor, NEW u, u = ResetMirrors(s)
    PROVE  u.dying = {} /\ u.ignoredEndPlaySigns = {} /\ u.iterated = FALSE /\ ~u.mutated
<1>1. PICK S : S = DOMAIN s.mirrorsBySource
  OBVIOUS
<1>2. S \subseteq Sources /\ IsFiniteSet(Sources)
  BY <1>1, Kinds DEF Still, Sound, ActorsOK
<1>3. IsFiniteSet(S)
  BY <1>2, FS_Subset
<1>4. PICK z : z = [s EXCEPT !.iterated = TRUE]
  OBVIOUS
<1>5. Idle(z)
  <2>1. Sound(z) /\ z.dying = {}
    BY <1>4, IteratedIs DEF Still
  <2>2. QED
    BY <2>1, Kinds DEF Idle, Sound, ActorsOK, Addresses
<1>6. PICK d : d = Resetting!Fold(z, z, S)
  OBVIOUS
<1>7. u = [d EXCEPT !.iterated = FALSE, !.mirrorsBySource = << >>,
                    !.liftsBySource = << >>, !.ignoredEndPlaySigns = {}]
  BY <1>1, <1>4, <1>6 DEF ResetMirrors, FoldSet, MapThenFoldSet, Resetting!Fold, Resetting!Pick, ResetStep
<1>8. Idle(d)
  <2>1. IdleAfter(z, {}, z)
    BY <1>5 DEF IdleAfter
  <2>2. \A T \in SUBSET S : \A g \in T : \A t :
            IdleAfter(z, T \ {g}, t) => IdleAfter(z, T, ResetStep(z, g, t))
    BY PartnerIdle DEF IdleAfter, ResetStep
  <2>3. IdleAfter(z, S, d)
    BY <1>3, <1>6, <2>1, <2>2, Resetting!FoldHolds DEF IsFiniteSet, Resetting!IsFiniteSet
  <2>4. QED
    BY <2>3 DEF IdleAfter
<1>9. PICK l, y, w, v, m, f, i, r, e :
          d = [live |-> l, dying |-> y, owner |-> w, text |-> v, mirrorsBySource |-> m,
               liftsBySource |-> f, ignoredEndPlaySigns |-> i, iterated |-> r, mutated |-> e]
  BY <1>8 DEF Idle, Shape
<1>10. u = [live |-> l, dying |-> y, owner |-> w, text |-> v, mirrorsBySource |-> << >>,
            liftsBySource |-> << >>, ignoredEndPlaySigns |-> {}, iterated |-> FALSE, mutated |-> e]
  BY <1>7, <1>9
<1>11. QED
  BY <1>8, <1>9, <1>10 DEF Idle

-----------------------------------------------------------------------------
(* The signs of stations                                                    *)

GenOK(t) == Still(t.s) /\ TruckOK(t)
Cleared(t, station) == \A g \in StationSigns \cap t.s.live : t.s.owner[g] # station

\* The station mod sees nothing of its signs but that some are gone.
LEMMA DestroyGenIs ==
    ASSUME NEW t, TruckShape(t), Still(t.s), NEW sign \in StationSigns \cup {None},
           NEW u, u = DestroyGeneratedSign(t, sign)
    PROVE  /\ TruckShape(u) /\ Still(u.s) /\ SeenBelow(t.s, u.s)
           /\ u.generation = t.generation /\ u.ownership = t.ownership /\ u.refused = t.refused
           /\ DOMAIN u.appliedNames \subseteq DOMAIN t.appliedNames
           /\ \A g \in DOMAIN u.appliedNames : u.appliedNames[g] = t.appliedNames[g]
           /\ authority => sign \notin u.s.live
           /\ Matched(t.s) => Matched(u.s)
<1>1. PICK s, n, o, a, r : t = [s |-> s, generation |-> n, ownership |-> o, appliedNames |-> a, refused |-> r]
  BY DEF TruckShape
<1>2. t.s = s /\ Still(s) /\ ActorsOK(s) /\ None \notin s.live
  BY <1>1, Kinds DEF Still, Sound, ActorsOK, Addresses
<1>3. CASE sign \in s.live /\ authority
  <2>1. PICK d : d = Destroy(s, sign)
    OBVIOUS
  <2>2. PICK b : b = Without(a, {sign})
    OBVIOUS
  <2>3. u = [t EXCEPT !.appliedNames = b, !.s = d]
    BY <1>1, <1>3, <2>1, <2>2 DEF DestroyGeneratedSign, IsValid
  <2>4. u = [s |-> d, generation |-> n, ownership |-> o, appliedNames |-> b, refused |-> r]
    BY <1>1, <2>3
  <2>5. PICK gone :
            /\ Takes(s, d, gone) /\ sign \in gone /\ gone \cap Stations \subseteq {sign}
            /\ Matched(s) => Matched(d)
    BY <1>2, <1>3, <2>1, DestroyKeeps
  <2>6. gone \cap Stations = {}
    BY <1>2, <1>3, <2>5, Kinds DEF AllSigns, Sources
  <2>7. Still(d) /\ SeenBelow(s, d) /\ sign \notin d.live
    BY <1>2, <2>5, <2>6, TakesStill, TakesSeen, TakesSound DEF Still
  <2>8. DOMAIN b \subseteq DOMAIN a /\ \A g \in DOMAIN b : b[g] = a[g]
    BY <2>2 DEF Without, Restrict
  <2>9. QED
    BY <1>1, <2>4, <2>5, <2>7, <2>8 DEF TruckShape
<1>4. CASE ~(sign \in s.live /\ authority)
  <2>1. u = t
    BY <1>1, <1>4 DEF DestroyGeneratedSign, IsValid
  <2>2. SeenBelow(s, s)
    BY DEF SeenBelow
  <2>3. QED
    BY <1>1, <1>4, <2>1, <2>2
<1>5. QED
  BY <1>3, <1>4

LEMMA TrackedIs ==
    ASSUME NEW t, GenOK(t), NEW station
    PROVE  /\ FindTrackedOrAttachedSign(t, station) = TrackedSign(t, station)
           /\ TrackedSign(t, station) # None =>
                 /\ TrackedSign(t, station) \in StationSigns \cap t.s.live
                 /\ station \in DOMAIN t.ownership /\ t.ownership[station] = TrackedSign(t, station)
                 /\ t.s.owner[TrackedSign(t, station)] = station
           /\ TrackedSign(t, station) = None => Cleared(t, station)
           /\ TrackedSign(t, station) \in StationSigns \cup {None}
<1>1. PICK s, n, o, a, r : t = [s |-> s, generation |-> n, ownership |-> o, appliedNames |-> a, refused |-> r]
  BY DEF GenOK, TruckOK, TruckShape
<1>2. /\ t.s = s /\ t.ownership = o /\ Tracked(s, o) /\ None \notin s.live
      /\ \A st \in DOMAIN o : o[st] \in StationSigns \cup {None}
  BY <1>1, Kinds DEF GenOK, TruckOK, Still, Sound, ActorsOK, Addresses
<1>3. PICK g : g = TrackedSign(t, station)
  OBVIOUS
<1>4. g # None => g \in StationSigns \cap s.live /\ station \in DOMAIN o /\ o[station] = g /\ s.owner[g] = station
  BY <1>2, <1>3 DEF TrackedSign, SavedPointer, At, IsValid, Tracked
<1>5. ASSUME NEW h \in StationSigns \cap s.live, s.owner[h] = station PROVE g # None
  <2>1. At(o, station) = h /\ h # None
    BY <1>2, <1>5 DEF Tracked
  <2>2. g = h
    BY <1>2, <1>3, <1>5, <2>1 DEF TrackedSign, SavedPointer, At, IsValid
  <2>3. QED
    BY <2>1, <2>2
<1>6. g = None => Cleared(t, station) /\ Attached(t, station) = {}
  BY <1>2, <1>5 DEF Cleared, Attached, IsValid
<1>7. FindTrackedOrAttachedSign(t, station) = g
  BY <1>3, <1>6 DEF FindTrackedOrAttachedSign
<1>8. QED
  BY <1>2, <1>3, <1>4, <1>6, <1>7

\* A station loses its sign.
Uncleared(t, station) == [t EXCEPT !.ownership = Without(@, {station})]
LEMMA ClearIs ==
    ASSUME NEW t, GenOK(t), NEW station,
           NEW u, u = DestroyGeneratedSign(Uncleared(t, station), TrackedSign(t, station))
    PROVE  /\ GenOK(u) /\ Cleared(u, station) /\ SeenBelow(t.s, u.s)
           /\ u.generation = t.generation /\ u.refused = t.refused
           /\ DOMAIN u.ownership = DOMAIN t.ownership \ {station}
           /\ Matched(t.s) => Matched(u.s)
<1>1. PICK s, n, o, a, r : t = [s |-> s, generation |-> n, ownership |-> o, appliedNames |-> a, refused |-> r]
  BY DEF GenOK, TruckOK, TruckShape
<1>2. PICK o1 : o1 = Without(o, {station})
  OBVIOUS
<1>3. PICK b : b = Uncleared(t, station)
  OBVIOUS
<1>4. b = [s |-> s, generation |-> n, ownership |-> o1, appliedNames |-> a, refused |-> r]
  BY <1>1, <1>2, <1>3 DEF Uncleared
<1>5. DOMAIN o1 = DOMAIN o \ {station} /\ \A st \in DOMAIN o1 : o1[st] = o[st]
  BY <1>2 DEF Without, Restrict
<1>6. PICK g : g = TrackedSign(t, station)
  OBVIOUS
<1>7. /\ g # None => g \in StationSigns \cap s.live /\ s.owner[g] = station
      /\ g = None => Cleared(t, station) /\ g \in StationSigns \cup {None}
  BY <1>1, <1>6, TrackedIs
<1>8. /\ TruckShape(b) /\ Still(b.s) /\ b.s = s /\ g \in StationSigns \cup {None}
      /\ b.generation = n /\ b.refused = r /\ b.ownership = o1 /\ b.appliedNames = a
  BY <1>1, <1>4, <1>7 DEF TruckShape, GenOK
<1>9. /\ TruckShape(u) /\ Still(u.s) /\ SeenBelow(s, u.s)
      /\ u.generation = n /\ u.ownership = o1 /\ u.refused = r
      /\ DOMAIN u.appliedNames \subseteq DOMAIN a
      /\ \A h \in DOMAIN u.appliedNames : u.appliedNames[h] = a[h]
      /\ authority => g \notin u.s.live
      /\ Matched(s) => Matched(u.s)
  BY <1>3, <1>6, <1>8, DestroyGenIs
<1>10. /\ Tracked(s, o) /\ Named(s, a) /\ (~authority => StationSigns \cap s.live = {})
       /\ DOMAIN o \subseteq Stations /\ \A st \in DOMAIN o : o[st] \in StationSigns \cup {None}
       /\ DOMAIN a \subseteq StationSigns
  BY <1>1 DEF GenOK, TruckOK
<1>11. Cleared(u, station)
  <2>1. SUFFICES ASSUME NEW h \in StationSigns \cap u.s.live, u.s.owner[h] = station PROVE FALSE
    BY DEF Cleared
  <2>2. h \in s.live /\ s.owner[h] = station
    BY <1>9, <2>1 DEF SeenBelow
  <2>3. g # None
    BY <1>1, <1>7, <2>1, <2>2 DEF Cleared
  <2>4. g = h
    <3>1. At(o, station) = h
      BY <1>10, <2>1, <2>2 DEF Tracked
    <3>2. h # None
      BY Kinds DEF AllSigns, Sources
    <3>3. QED
      BY <1>1, <1>6, <2>2, <3>1, <3>2 DEF TrackedSign, SavedPointer, IsValid, At
  <2>5. QED
    BY <1>9, <1>10, <2>1, <2>2, <2>4
<1>12. Tracked(u.s, o1)
  <2>1. ASSUME NEW h \in StationSigns \cap u.s.live
        PROVE  u.s.owner[h] \in Stations \cap u.s.live /\ At(o1, u.s.owner[h]) = h
    <3>1. h \in s.live /\ u.s.owner[h] = s.owner[h] /\ s.owner[h] # station
      BY <1>9, <1>11, <2>1 DEF SeenBelow, Cleared
    <3>2. s.owner[h] \in Stations \cap s.live /\ At(o, s.owner[h]) = h
      BY <1>10, <2>1, <3>1 DEF Tracked
    <3>3. s.owner[h] \in u.s.live
      BY <1>9, <3>2 DEF SeenBelow
    <3>4. QED
      BY <1>5, <3>1, <3>2, <3>3 DEF At
  <2>2. ASSUME NEW st \in DOMAIN o1, o1[st] \in u.s.live PROVE u.s.owner[o1[st]] = st
    <3>1. o1[st] \in StationSigns
      BY <1>5, <1>9, <1>10, <2>2, Kinds DEF Still, Sound, ActorsOK, Addresses
    <3>2. QED
      BY <1>5, <1>9, <1>10, <2>2, <3>1 DEF SeenBelow, Tracked
  <2>3. QED
    BY <2>1, <2>2 DEF Tracked
<1>13. Named(u.s, u.appliedNames)
  BY <1>9, <1>10 DEF Named, SeenBelow
<1>14. TruckOK(u)
  BY <1>5, <1>9, <1>10, <1>12, <1>13 DEF TruckOK, SeenBelow
<1>15. QED
  BY <1>1, <1>5, <1>9, <1>11, <1>14 DEF GenOK

LEMMA FreshHasNoMirror ==
    ASSUME NEW s, Still(s), NEW t, NEW g \in Sources \ s.live, Appears(s, t, g), Welcome(s, t, g)
    PROVE  NoMirror(t, g)
<1>1. MirrorOf(t, g) = None
  BY AppearsStill
<1>2. ASSUME NEW x \in Mirrors \cap t.live PROVE t.owner[x] # g
  <2>1. x # g /\ g # None /\ ActorsOK(s) /\ MirrorsLinked(s)
    BY Kinds DEF AllSigns, Still, Sound
  <2>2. x \in s.live /\ t.owner[x] = s.owner[x]
    BY <1>2, <2>1 DEF Appears, ActorsOK
  <2>3. QED
    BY <1>2, <2>1, <2>2 DEF MirrorsLinked
<1>3. QED
  BY <1>1, <1>2 DEF NoMirror

\* A station without a sign is given one.
LEMMA SpawnSignIs ==
    ASSUME NEW t, GenOK(t), authority, NEW station \in Stations \cap t.s.live, Cleared(t, station),
           ~(StationSigns \subseteq t.s.live), NEW order \in ActorOrders, NEW luck,
           NEW u, u = SpawnSign(t, station, order, luck)
    PROVE  /\ GenOK(u) /\ u.generation = t.generation /\ u.refused = t.refused
           /\ DOMAIN u.ownership = DOMAIN t.ownership \cup {station}
           /\ u.s.live \cap Stations = t.s.live \cap Stations
           /\ u.ownership[station] \in StationSigns \cap u.s.live
           /\ u.s.owner[u.ownership[station]] = station
           /\ \A g \in (StationSigns \cap u.s.live) \ {u.ownership[station]} :
                 g \in t.s.live /\ u.s.owner[g] = t.s.owner[g] /\ u.s.text[g] = t.s.text[g]
           /\ Matched(t.s) => Matched(u.s)
<1>1. PICK s, n, o, a, r : t = [s |-> s, generation |-> n, ownership |-> o, appliedNames |-> a, refused |-> r]
  BY DEF GenOK, TruckOK, TruckShape
<1>2. PICK g : g = CHOOSE x \in StationSigns \ t.s.live : TRUE
  OBVIOUS
<1>3. g \in StationSigns \ s.live /\ g \notin Mirrors /\ g \in Sources \ s.live /\ g # None
  BY <1>1, <1>2, Kinds DEF AllSigns, Sources
<1>4. PICK z : z = [Spawn(s, g) EXCEPT !.owner[g] = station]
  OBVIOUS
<1>5. PICK e : e = EnsureMirrorForSource(z, g, order, luck)
  OBVIOUS
<1>6. PICK weak : weak = [st \in DOMAIN o |-> IF o[st] = g THEN None ELSE o[st]]
  OBVIOUS
<1>7. PICK o1 : o1 = With(weak, station, g)
  OBVIOUS
<1>8. PICK a1 : a1 = Without(a, {g})
  OBVIOUS
<1>9. u = [s |-> e, generation |-> n, ownership |-> o1, appliedNames |-> a1, refused |-> r]
  <2>1. u = [t EXCEPT !.ownership = o1, !.appliedNames = a1, !.s = e]
    BY <1>1, <1>2, <1>4, <1>5, <1>6, <1>7, <1>8 DEF SpawnSign
  <2>2. QED
    BY <1>1, <2>1
<1>10. Still(s) /\ Shape(s) /\ ActorsOK(s)
  BY <1>1 DEF GenOK, Still, Sound, ActorsOK
<1>11. Appears(s, z, g) /\ z.owner[g] = station
  BY <1>3, <1>4, <1>10, SpawnAppears DEF ActorsOK
<1>12. Welcome(s, z, g)
  BY <1>3, <1>11, Kinds DEF Welcome, Addresses, AllSigns, Sources
<1>13. Still(z) /\ (Matched(s) => Matched(z)) /\ NoMirror(z, g)
  BY <1>3, <1>10, <1>11, <1>12, AppearsStill, FreshHasNoMirror
<1>14. g \in Sources \cap z.live
  BY <1>3, <1>11 DEF Appears
<1>15. Mirrored(z, e, {g})
  BY <1>5, <1>13, <1>14, EnsureMirrorForSourceIs
<1>16. /\ Still(e) /\ (Matched(s) => Matched(e))
       /\ e.live \cap Stations = s.live \cap Stations /\ g \in e.live
       /\ StationSigns \cap e.live = (StationSigns \cap s.live) \cup {g}
  BY <1>3, <1>11, <1>13, <1>14, <1>15, Kinds DEF Mirrored, Appears, AllSigns, Sources
<1>17. e.owner[g] = station
  BY <1>3, <1>11, <1>14, <1>15 DEF Mirrored
<1>18. ASSUME NEW h \in StationSigns \cap s.live
       PROVE  h # g /\ e.owner[h] = s.owner[h] /\ e.text[h] = s.text[h]
  <2>1. h # g /\ h \in z.live /\ h \in AllSigns
    BY <1>3, <1>11 DEF Appears, AllSigns, Sources
  <2>2. z.owner[h] = s.owner[h] /\ z.text[h] = s.text[h]
    BY <1>10, <1>11, <2>1 DEF Appears, ActorsOK
  <2>3. QED
    BY <1>15, <2>1, <2>2 DEF Mirrored
<1>19. /\ DOMAIN o1 = DOMAIN o \cup {station} /\ o1[station] = g
       /\ \A st \in DOMAIN o : st # station => o1[st] = IF o[st] = g THEN None ELSE o[st]
  BY <1>6, <1>7 DEF With
<1>20. /\ Tracked(s, o) /\ Named(s, a)
       /\ DOMAIN o \subseteq Stations /\ \A st \in DOMAIN o : o[st] \in StationSigns \cup {None}
       /\ DOMAIN a \subseteq StationSigns
  BY <1>1 DEF GenOK, TruckOK
<1>21. DOMAIN a1 = DOMAIN a \ {g} /\ \A h \in DOMAIN a1 : a1[h] = a[h]
  BY <1>8 DEF Without, Restrict
<1>22. Tracked(e, o1)
  <2>1. ASSUME NEW h \in StationSigns \cap e.live
        PROVE  e.owner[h] \in Stations \cap e.live /\ At(o1, e.owner[h]) = h
    <3>1. CASE h = g
      BY <1>1, <1>16, <1>17, <1>19, <3>1 DEF At
    <3>2. CASE h # g
      <4>1. h \in StationSigns \cap s.live /\ e.owner[h] = s.owner[h]
        BY <1>16, <1>18, <2>1, <3>2
      <4>2. s.owner[h] \in Stations \cap s.live /\ At(o, s.owner[h]) = h
        BY <1>20, <4>1 DEF Tracked
      <4>3. s.owner[h] # station /\ h # None
        BY <1>1, <4>1, Kinds DEF Cleared, AllSigns, Sources
      <4>4. s.owner[h] \in DOMAIN o /\ o[s.owner[h]] = h
        BY <4>2, <4>3 DEF At
      <4>5. At(o1, s.owner[h]) = h
        BY <1>19, <3>2, <4>3, <4>4 DEF At
      <4>6. QED
        BY <1>16, <4>1, <4>2, <4>5
    <3>3. QED
      BY <3>1, <3>2
  <2>2. ASSUME NEW st \in DOMAIN o1, o1[st] \in e.live PROVE e.owner[o1[st]] = st
    <3>1. CASE st = station
      BY <1>17, <1>19, <3>1
    <3>2. CASE st # station
      <4>1. None \notin e.live
        BY <1>16, Kinds DEF Still, Sound, ActorsOK, Addresses
      <4>2. st \in DOMAIN o /\ o[st] # g /\ o1[st] = o[st] /\ o[st] \in StationSigns
        BY <1>19, <1>20, <2>2, <3>2, <4>1
      <4>3. o[st] \in s.live
        BY <1>16, <2>2, <4>2
      <4>4. QED
        BY <1>18, <1>20, <4>2, <4>3 DEF Tracked
    <3>3. QED
      BY <3>1, <3>2
  <2>3. QED
    BY <2>1, <2>2 DEF Tracked
<1>23. Named(e, a1)
  BY <1>16, <1>18, <1>20, <1>21 DEF Named
<1>24. TruckOK(u)
  <2>1. TruckShape(u) /\ u.s = e /\ u.ownership = o1 /\ u.appliedNames = a1
    BY <1>9 DEF TruckShape
  <2>2. DOMAIN o1 \subseteq Stations /\ \A st \in DOMAIN o1 : o1[st] \in StationSigns \cup {None}
    BY <1>3, <1>19, <1>20
  <2>3. DOMAIN a1 \subseteq StationSigns
    BY <1>20, <1>21
  <2>4. QED
    BY <1>22, <1>23, <2>1, <2>2, <2>3 DEF TruckOK
<1>25. GenOK(u)
  BY <1>9, <1>16, <1>24 DEF GenOK
<1>26. \A h \in (StationSigns \cap e.live) \ {g} :
          h \in s.live /\ e.owner[h] = s.owner[h] /\ e.text[h] = s.text[h]
  BY <1>16, <1>18
<1>27. QED
  BY <1>1, <1>3, <1>9, <1>16, <1>17, <1>19, <1>25, <1>26

\* A sign is given its station's name.
LEMMA ApplyNameIs ==
    ASSUME NEW t, GenOK(t), authority, NEW sign \in StationSigns \cap t.s.live, NEW name \in Texts,
           NEW u, u = ApplyNameToSign(t, sign, name)
    PROVE  /\ GenOK(u) /\ u.generation = t.generation /\ u.refused = t.refused
           /\ u.ownership = t.ownership /\ u.s.live = t.s.live /\ u.s.owner = t.s.owner
           /\ u.s.text[sign] = name /\ \A g \in StationSigns \ {sign} : u.s.text[g] = t.s.text[g]
           /\ Matched(t.s) => Matched(u.s)
<1>1. PICK s, n, o, a, r : t = [s |-> s, generation |-> n, ownership |-> o, appliedNames |-> a, refused |-> r]
  BY DEF GenOK, TruckOK, TruckShape
<1>2. /\ Tracked(s, o) /\ Named(s, a) /\ DOMAIN a \subseteq StationSigns
      /\ DOMAIN o \subseteq Stations /\ \A st \in DOMAIN o : o[st] \in StationSigns \cup {None}
  BY <1>1 DEF GenOK, TruckOK
<1>3. CASE At(a, sign) = name
  <2>1. u = t
    BY <1>1, <1>3 DEF ApplyNameToSign
  <2>2. sign \in DOMAIN a /\ a[sign] = name
    BY <1>3, Kinds DEF At
  <2>3. s.text[sign] = name
    BY <1>1, <1>2, <2>2 DEF Named
  <2>4. QED
    BY <1>1, <2>1, <2>3
<1>4. CASE At(a, sign) # name
  <2>1. PICK d : d = SetPrefabSignData(s, sign, name)
    OBVIOUS
  <2>2. PICK b : b = With(a, sign, name)
    OBVIOUS
  <2>3. u = [t EXCEPT !.s = d, !.appliedNames = b]
    BY <1>1, <1>4, <2>1, <2>2 DEF ApplyNameToSign, IsValid
  <2>4. u = [s |-> d, generation |-> n, ownership |-> o, appliedNames |-> b, refused |-> r]
    BY <1>1, <2>3
  <2>5. Still(s) /\ sign \in Sources \cap s.live
    BY <1>1 DEF GenOK, Sources
  <2>6. /\ Still(d) /\ d.live = s.live /\ d.owner = s.owner
        /\ d.text[sign] = name /\ \A h \in Sources \ {sign} : d.text[h] = s.text[h]
        /\ Matched(s) => Matched(d)
    BY <2>1, <2>5, SetPrefabSignDataIs
  <2>7. DOMAIN b = DOMAIN a \cup {sign} /\ b[sign] = name /\ \A h \in DOMAIN a : h # sign => b[h] = a[h]
    BY <2>2 DEF With
  <2>8. Named(d, b)
    BY <1>2, <2>6, <2>7 DEF Named, Sources
  <2>9. Tracked(d, o)
    BY <1>2, <2>6 DEF Tracked
  <2>10. TruckOK(u)
    <3>1. TruckShape(u) /\ u.s = d /\ u.ownership = o /\ u.appliedNames = b
      BY <2>4 DEF TruckShape
    <3>2. QED
      BY <1>2, <2>7, <2>8, <2>9, <3>1 DEF TruckOK
  <2>11. QED
    BY <1>1, <2>4, <2>6, <2>10 DEF GenOK, Sources
<1>5. QED
  BY <1>3, <1>4

LEMMA SeenKeeps ==
    ASSUME NEW s, NEW d, Still(d), SeenBelow(s, d), NEW o, Tracked(s, o),
           \A st \in DOMAIN o : o[st] \in StationSigns \cup {None},
           NEW a, Named(s, a), NEW b, DOMAIN b \subseteq DOMAIN a, \A g \in DOMAIN b : b[g] = a[g]
    PROVE  Tracked(d, o) /\ Named(d, b)
<1>1. None \notin d.live
  BY Kinds DEF Still, Sound, ActorsOK, Addresses
<1>2. QED
  BY <1>1 DEF Tracked, Named, SeenBelow

\* The station has a sign of its own, others keep theirs.
Signed(t, e, station) ==
    /\ GenOK(e) /\ e.generation = t.generation /\ e.refused = t.refused
    /\ DOMAIN e.ownership = DOMAIN t.ownership \cup {station}
    /\ e.s.live \cap Stations = t.s.live \cap Stations
    /\ e.ownership[station] \in StationSigns \cap e.s.live
    /\ e.s.owner[e.ownership[station]] = station
    /\ \A g \in (StationSigns \cap e.s.live) \ {e.ownership[station]} :
          g \in t.s.live /\ e.s.owner[g] = t.s.owner[g] /\ e.s.text[g] = t.s.text[g]
    /\ Matched(t.s) => Matched(e.s)

LEMMA TryAddIs ==
    ASSUME NEW t, GenOK(t), NEW station \in Stations \cap t.s.live, TrackedSign(t, station) # None,
           NEW e, e = TryAdd(t, station, TrackedSign(t, station))
    PROVE  Signed(t, e, station)
<1>1. PICK s, n, o, a, r : t = [s |-> s, generation |-> n, ownership |-> o, appliedNames |-> a, refused |-> r]
  BY DEF GenOK, TruckOK, TruckShape
<1>2. PICK k : k = TrackedSign(t, station)
  OBVIOUS
<1>3. k \in StationSigns \cap s.live /\ station \in DOMAIN o /\ o[station] = k /\ s.owner[k] = station
  BY <1>1, <1>2, TrackedIs
<1>4. PICK o1 : o1 = With(o, station, k)
  OBVIOUS
<1>5. DOMAIN o1 = DOMAIN o /\ \A st \in DOMAIN o : o1[st] = o[st]
  BY <1>3, <1>4 DEF With
<1>6. e = [t EXCEPT !.ownership = o1]
  BY <1>1, <1>2, <1>4 DEF TryAdd
<1>7. e = [s |-> s, generation |-> n, ownership |-> o1, appliedNames |-> a, refused |-> r]
  BY <1>1, <1>6
<1>8. /\ Tracked(s, o) /\ Named(s, a) /\ DOMAIN a \subseteq StationSigns
      /\ DOMAIN o \subseteq Stations /\ \A st \in DOMAIN o : o[st] \in StationSigns \cup {None}
      /\ ~authority => StationSigns \cap s.live = {}
  BY <1>1 DEF GenOK, TruckOK
<1>9. Tracked(s, o1)
  BY <1>5, <1>8 DEF Tracked, At
<1>10. GenOK(e)
  <2>1. TruckShape(e) /\ e.s = s /\ e.ownership = o1 /\ e.appliedNames = a
    BY <1>7 DEF TruckShape
  <2>2. QED
    BY <1>1, <1>5, <1>8, <1>9, <2>1 DEF GenOK, TruckOK
<1>11. QED
  BY <1>1, <1>3, <1>5, <1>7, <1>10 DEF Signed

\* A station that is served: its sign is there and shows its name, or could
\* not be spawned, or no signs are made any more.
Served(t, u, station) ==
    /\ GenOK(u) /\ u.s.live \cap Stations = t.s.live \cap Stations
    /\ u.generation => t.generation
    /\ u.generation => DOMAIN t.ownership \cup t.refused \subseteq DOMAIN u.ownership \cup u.refused
    /\ Supported(t, station) /\ u.generation => station \in DOMAIN u.ownership \cup u.refused
    /\ Matched(t.s) => Matched(u.s)
Renamed(t, u, station, names) == Current(t, names, {station}) => Current(u, names, {})

LEMMA UnsupportedCurrent ==
    ASSUME NEW t, GenOK(t), NEW station, ~Supported(t, station), NEW names, Current(t, names, {station})
    PROVE  Current(t, names, {})
<1>1. Tracked(t.s, t.ownership) /\ (~authority => StationSigns \cap t.s.live = {})
  BY DEF GenOK, TruckOK
<1>2. QED
  BY <1>1 DEF Current, Tracked, Supported, IsValid

LEMMA NamedSign ==
    ASSUME NEW t, GenOK(t), NEW station, NEW names, NEW name \in Texts, name = names[station],
           NEW e, Signed(t, e, station), authority,
           NEW u, u = ApplyNameToSign(e, e.ownership[station], name)
    PROVE  Served(t, u, station) /\ Renamed(t, u, station, names)
<1>1. PICK k : k = e.ownership[station]
  OBVIOUS
<1>2. /\ GenOK(e) /\ e.generation = t.generation /\ e.refused = t.refused
      /\ DOMAIN e.ownership = DOMAIN t.ownership \cup {station}
      /\ e.s.live \cap Stations = t.s.live \cap Stations
      /\ k \in StationSigns \cap e.s.live /\ e.s.owner[k] = station
      /\ \A g \in (StationSigns \cap e.s.live) \ {k} :
            g \in t.s.live /\ e.s.owner[g] = t.s.owner[g] /\ e.s.text[g] = t.s.text[g]
      /\ Matched(t.s) => Matched(e.s)
  BY <1>1 DEF Signed
<1>3. /\ GenOK(u) /\ u.generation = e.generation /\ u.refused = e.refused
      /\ u.ownership = e.ownership /\ u.s.live = e.s.live /\ u.s.owner = e.s.owner
      /\ u.s.text[k] = name /\ \A g \in StationSigns \ {k} : u.s.text[g] = e.s.text[g]
      /\ Matched(e.s) => Matched(u.s)
  BY <1>1, <1>2, ApplyNameIs
<1>4. Served(t, u, station)
  BY <1>2, <1>3 DEF Served
<1>5. ASSUME Current(t, names, {station}) PROVE Current(u, names, {})
  <2>1. SUFFICES ASSUME t.generation, NEW g \in StationSigns \cap u.s.live
                 PROVE  u.s.text[g] = names[u.s.owner[g]]
    BY <1>2, <1>3 DEF Current
  <2>2. CASE g = k
    BY <1>2, <1>3, <2>2
  <2>3. CASE g # k
    <3>1. /\ g \in t.s.live /\ u.s.owner[g] = t.s.owner[g] /\ u.s.text[g] = t.s.text[g]
      BY <1>2, <1>3, <2>1, <2>3
    <3>2. t.s.owner[g] # station
      <4>1. Tracked(e.s, e.ownership)
        BY <1>2 DEF GenOK, TruckOK
      <4>2. At(e.ownership, e.s.owner[g]) = g /\ g # None
        BY <1>3, <2>1, <4>1, Kinds DEF Tracked, AllSigns, Sources
      <4>3. e.s.owner[g] # station
        BY <1>1, <2>3, <4>2 DEF At
      <4>4. QED
        BY <1>3, <3>1, <4>3
    <3>3. QED
      BY <1>5, <2>1, <3>1, <3>2 DEF Current
  <2>4. QED
    BY <2>2, <2>3
<1>6. QED
  BY <1>4, <1>5 DEF Renamed

\* A sign that would be saved goes, and no more are made.
Ungenerated(e) == [e EXCEPT !.generation = FALSE]
SignOf(e, station) == e.ownership[station]
LEMMA SavedSign ==
    ASSUME NEW t, GenOK(t), NEW station, NEW e, Signed(t, e, station),
           NEW u, u = DestroyGeneratedSign(Ungenerated(e), SignOf(e, station)), NEW names
    PROVE  Served(t, u, station) /\ Renamed(t, u, station, names)
<1>1. PICK s, n, o, a, r : e = [s |-> s, generation |-> n, ownership |-> o, appliedNames |-> a, refused |-> r]
  BY DEF Signed, GenOK, TruckOK, TruckShape
<1>42. PICK b : b = Ungenerated(e)
  OBVIOUS
<1>2. b = [s |-> s, generation |-> FALSE, ownership |-> o, appliedNames |-> a, refused |-> r]
  BY <1>1, <1>42 DEF Ungenerated
<1>3. /\ TruckShape(b) /\ Still(b.s) /\ b.s = s /\ b.generation = FALSE /\ b.refused = r
      /\ b.ownership = o /\ b.appliedNames = a
  BY <1>1, <1>2 DEF TruckShape, Signed, GenOK
<1>4. PICK k : k = SignOf(e, station)
  OBVIOUS
<1>41. k \in StationSigns \cup {None} /\ u = DestroyGeneratedSign(b, k)
  BY <1>4, <1>42 DEF Signed, SignOf
<1>5. /\ TruckShape(u) /\ Still(u.s) /\ SeenBelow(s, u.s)
      /\ u.generation = FALSE /\ u.ownership = o /\ u.refused = r
      /\ DOMAIN u.appliedNames \subseteq DOMAIN a
      /\ \A h \in DOMAIN u.appliedNames : u.appliedNames[h] = a[h]
      /\ Matched(s) => Matched(u.s)
  BY <1>3, <1>41, DestroyGenIs
<1>6. /\ Tracked(s, o) /\ Named(s, a) /\ DOMAIN a \subseteq StationSigns
      /\ DOMAIN o \subseteq Stations /\ \A st \in DOMAIN o : o[st] \in StationSigns \cup {None}
      /\ ~authority => StationSigns \cap s.live = {}
  BY <1>1 DEF Signed, GenOK, TruckOK
<1>7. Tracked(u.s, o) /\ Named(u.s, u.appliedNames)
  <2>1. PICK d : d = u.s
    OBVIOUS
  <2>2. PICK c : c = u.appliedNames
    OBVIOUS
  <2>3. Still(d) /\ SeenBelow(s, d) /\ DOMAIN c \subseteq DOMAIN a /\ \A g \in DOMAIN c : c[g] = a[g]
    BY <1>5, <2>1, <2>2
  <2>4. Tracked(d, o) /\ Named(d, c)
    BY <1>6, <2>3, SeenKeeps
  <2>5. QED
    BY <2>1, <2>2, <2>4
<1>8. GenOK(u)
  BY <1>5, <1>6, <1>7 DEF GenOK, TruckOK, SeenBelow
<1>9. /\ DOMAIN o = DOMAIN t.ownership \cup {station} /\ r = t.refused
      /\ s.live \cap Stations = t.s.live \cap Stations /\ (Matched(t.s) => Matched(s))
  BY <1>1 DEF Signed
<1>10. Served(t, u, station)
  BY <1>5, <1>8, <1>9 DEF Served, SeenBelow
<1>11. Renamed(t, u, station, names)
  BY <1>5 DEF Renamed, Current
<1>12. QED
  BY <1>10, <1>11

LEMMA RefusedIs ==
    ASSUME NEW t, GenOK(t), NEW station, Cleared(t, station),
           NEW u, u = [t EXCEPT !.refused = t.refused \cup {station}], NEW names
    PROVE  Served(t, u, station) /\ Renamed(t, u, station, names)
<1>1. PICK s, n, o, a, r : t = [s |-> s, generation |-> n, ownership |-> o, appliedNames |-> a, refused |-> r]
  BY DEF GenOK, TruckOK, TruckShape
<1>2. u = [s |-> s, generation |-> n, ownership |-> o, appliedNames |-> a, refused |-> r \cup {station}]
  BY <1>1
<1>3. /\ TruckShape(u) /\ u.s = t.s /\ u.generation = t.generation /\ u.ownership = t.ownership
      /\ u.appliedNames = t.appliedNames /\ u.refused = t.refused \cup {station}
  BY <1>1, <1>2 DEF TruckShape
<1>4. GenOK(u)
  BY <1>3 DEF GenOK, TruckOK
<1>5. QED
  BY <1>3, <1>4 DEF Served, Renamed, Current, Cleared

LEMMA EnsureSignIs ==
    ASSUME NEW t, GenOK(t), NEW station \in Stations \cup {None}, NEW names, NEW name,
           station \in Stations => name \in Texts /\ name = names[station],
           NEW order \in ActorOrders, NEW luck,
           NEW u, u = EnsureSign(t, station, name, order, luck)
    PROVE  Served(t, u, station) /\ Renamed(t, u, station, names)
<1>1. PICK known : known = TrackedSign(t, station)
  OBVIOUS
<1>2. FindTrackedOrAttachedSign(t, station) = known /\ (known = None => Cleared(t, station))
  BY <1>1, TrackedIs
<1>3. CASE ~Supported(t, station)
  <2>1. u = t
    BY <1>3 DEF EnsureSign
  <2>2. QED
    BY <1>3, <2>1, UnsupportedCurrent DEF Served, Renamed
<1>4. CASE Supported(t, station) /\ known = None /\ (luck = "fails" \/ StationSigns \subseteq t.s.live)
  <2>1. u = [t EXCEPT !.refused = t.refused \cup {station}]
    BY <1>2, <1>4 DEF EnsureSign
  <2>2. QED
    BY <1>2, <1>4, <2>1, RefusedIs
<1>5. CASE Supported(t, station) /\ ~(known = None /\ (luck = "fails" \/ StationSigns \subseteq t.s.live))
  <2>1. PICK e : e = IF known # None THEN TryAdd(t, station, known)
                     ELSE SpawnSign(t, station, order, luck)
    OBVIOUS
  <2>2. authority /\ station \in t.s.live
    BY <1>5 DEF Supported, IsValid
  <2>3. ASSUME station \in Stations PROVE Served(t, u, station) /\ Renamed(t, u, station, names)
    <3>1. Signed(t, e, station)
      <4>1. CASE known # None
        BY <1>1, <2>1, <2>2, <2>3, <4>1, TryAddIs
      <4>2. CASE known = None
        <5>1. Cleared(t, station) /\ ~(StationSigns \subseteq t.s.live)
          BY <1>2, <1>5, <4>2
        <5>2. e = SpawnSign(t, station, order, luck)
          BY <2>1, <4>2
        <5>3. QED
          BY <2>2, <2>3, <5>1, <5>2, SpawnSignIs DEF Signed
      <4>3. QED
        BY <4>1, <4>2
    <3>2. CASE luck = "saved"
      <4>1. u = DestroyGeneratedSign(Ungenerated(e), SignOf(e, station))
        BY <1>2, <1>5, <2>1, <3>2 DEF EnsureSign, Ungenerated, SignOf
      <4>2. QED
        BY <3>1, <4>1, SavedSign
    <3>3. CASE luck # "saved"
      <4>1. u = ApplyNameToSign(e, e.ownership[station], name)
        BY <1>2, <1>5, <2>1, <3>3 DEF EnsureSign
      <4>2. name \in Texts /\ name = names[station]
        BY <2>3
      <4>3. QED
        BY <2>2, <3>1, <4>1, <4>2, NamedSign
    <3>4. QED
      BY <3>2, <3>3
  <2>4. station \in Stations
    BY <2>2, Kinds DEF GenOK, Still, Sound, ActorsOK, Addresses
  <2>5. QED
    BY <2>3, <2>4
<1>6. QED
  BY <1>3, <1>4, <1>5

-----------------------------------------------------------------------------
(* The controller's operations on a station                                 *)

LEMMA RecreateSignIs ==
    ASSUME NEW t, GenOK(t), NEW station \in Stations \cap t.s.live, stationName[station] \in Texts,
           NEW order \in ActorOrders, NEW luck, NEW u, u = RecreateSign(t, station, order, luck)
    PROVE  Served(t, u, station) /\ (Current(t, stationName, {}) => Current(u, stationName, {}))
<1>1. FindTrackedOrAttachedSign(t, station) = TrackedSign(t, station)
  BY TrackedIs
<1>2. PICK r : r = DestroyGeneratedSign(Uncleared(t, station), TrackedSign(t, station))
  OBVIOUS
<1>3. /\ GenOK(r) /\ Cleared(r, station) /\ SeenBelow(t.s, r.s)
      /\ r.generation = t.generation /\ r.refused = t.refused
      /\ DOMAIN r.ownership = DOMAIN t.ownership \ {station}
      /\ Matched(t.s) => Matched(r.s)
  BY <1>2, ClearIs
<1>4. CASE ~Supported(t, station)
  <2>1. u = t
    BY <1>4 DEF RecreateSign
  <2>2. QED
    BY <1>4, <2>1 DEF Served
<1>5. CASE Supported(t, station)
  <2>1. authority /\ station \in Stations \cap r.s.live /\ Supported(r, station)
    BY <1>3, <1>5 DEF Supported, IsValid, SeenBelow
  <2>2. Current(t, stationName, {}) => Current(r, stationName, {station})
    BY <1>3 DEF Current, SeenBelow
  <2>3. ASSUME Served(r, u, station), Renamed(r, u, station, stationName)
        PROVE  Served(t, u, station) /\ (Current(t, stationName, {}) => Current(u, stationName, {}))
    <3>1. Current(t, stationName, {}) => Current(u, stationName, {})
      BY <2>2, <2>3 DEF Renamed
    <3>2. u.generation => DOMAIN t.ownership \cup t.refused \subseteq DOMAIN u.ownership \cup u.refused
      BY <1>3, <2>1, <2>3 DEF Served
    <3>3. QED
      BY <1>3, <2>1, <2>3, <3>1, <3>2 DEF Served, SeenBelow
  <2>4. CASE luck = "fails" \/ StationSigns \subseteq r.s.live
    <3>1. u = [r EXCEPT !.refused = r.refused \cup {station}]
      BY <1>1, <1>2, <1>5, <2>4 DEF RecreateSign, Uncleared
    <3>2. Served(r, u, station) /\ Renamed(r, u, station, stationName)
      BY <1>3, <3>1, RefusedIs
    <3>3. QED
      BY <2>3, <3>2
  <2>5. CASE ~(luck = "fails" \/ StationSigns \subseteq r.s.live)
    <3>1. PICK e : e = SpawnSign(r, station, order, luck)
      OBVIOUS
    <3>2. Signed(r, e, station)
      BY <1>3, <2>1, <2>5, <3>1, SpawnSignIs DEF Signed
    <3>3. u = ApplyNameToSign(e, e.ownership[station], stationName[station])
      BY <1>1, <1>2, <1>5, <2>5, <3>1 DEF RecreateSign, Uncleared
    <3>4. PICK name : name = stationName[station]
      OBVIOUS
    <3>5. name \in Texts /\ u = ApplyNameToSign(e, e.ownership[station], name)
      BY <3>3, <3>4
    <3>6. Served(r, u, station) /\ Renamed(r, u, station, stationName)
      BY <1>3, <2>1, <3>2, <3>4, <3>5, NamedSign
    <3>7. QED
      BY <2>3, <3>6
  <2>6. QED
    BY <2>4, <2>5
<1>6. QED
  BY <1>4, <1>5

RemoveStep(p, g, t) == DestroyGeneratedSign(t, g)
Anything(p, done, t) == TRUE
Removing == INSTANCE FiniteFolds WITH Op <- RemoveStep, Holds <- Anything

LEMMA NothingRemovedFold == ASSUME NEW p, NEW base PROVE Removing!Fold(p, base, {}) = base
<1>1. Removing!IsFiniteSet({})
  BY FS_EmptySet DEF IsFiniteSet, Removing!IsFiniteSet
<1>2. PICK f : Removing!Folded(p, base, {}, f)
  BY <1>1, Removing!FoldExists
<1>3. PICK g : g = CHOOSE h : Removing!Folded(p, base, {}, h)
  OBVIOUS
<1>4. Removing!Folded(p, base, {}, g) /\ Removing!Fold(p, base, {}) = g[{}]
  BY <1>2, <1>3 DEF Removing!Folded, Removing!Fold
<1>5. QED
  BY <1>4, Removing!FoldValues

\* The sign of a station that goes is the tracked one: the search for
\* attached signs finds no other.
LEMMA OnStationDestroyedIs ==
    ASSUME NEW t, GenOK(t), NEW station, NEW u, u = OnStationDestroyed(t, station)
    PROVE  /\ GenOK(u) /\ Cleared(u, station) /\ SeenBelow(t.s, u.s)
           /\ u.generation = t.generation /\ u.refused = t.refused
           /\ DOMAIN u.ownership = DOMAIN t.ownership \ {station}
           /\ Matched(t.s) => Matched(u.s)
<1>1. PICK r : r = DestroyGeneratedSign(Uncleared(t, station), TrackedSign(t, station))
  OBVIOUS
<1>2. /\ GenOK(r) /\ Cleared(r, station) /\ SeenBelow(t.s, r.s)
      /\ r.generation = t.generation /\ r.refused = t.refused
      /\ DOMAIN r.ownership = DOMAIN t.ownership \ {station}
      /\ Matched(t.s) => Matched(r.s)
  BY <1>1, ClearIs
<1>3. PICK S : S = Attached(r, station)
  OBVIOUS
<1>4. S = {}
  BY <1>2, <1>3 DEF Attached, Cleared, IsValid
<1>5. u = Removing!Fold(r, r, S)
  BY <1>1, <1>3 DEF OnStationDestroyed, Uncleared, FoldSet, MapThenFoldSet, Removing!Fold,
                    Removing!Pick, RemoveStep
<1>6. u = r
  BY <1>4, <1>5, NothingRemovedFold
<1>7. QED
  BY <1>2, <1>6

\* The turns of the ticker.
TickStep(p, i, t) == EnsureSign(t, p.queue[i], At(p.names, p.queue[i]), p.order, p.luck)
Turned(p, i, t) ==
    /\ GenOK(t) /\ t.s.live \cap Stations = p.t.s.live \cap Stations
    /\ t.generation => p.t.generation
    /\ t.generation => DOMAIN p.t.ownership \cup p.t.refused \subseteq DOMAIN t.ownership \cup t.refused
    /\ authority /\ t.generation =>
          \A j \in 1 .. i : p.queue[j] \in p.t.s.live \cap Stations =>
                               p.queue[j] \in DOMAIN t.ownership \cup t.refused
    /\ Matched(p.t.s) => Matched(t.s)
    /\ Current(t, p.names, {})
Ticking == INSTANCE FiniteFolds WITH Op <- TickStep, Holds <- Turned

LEMMA TurnIs ==
    ASSUME NEW p, p.names \in [Stations -> Texts], p.order \in ActorOrders,
           NEW n \in Nat, \A j \in 1 .. n : p.queue[j] \in Stations \cup {None},
           NEW i \in 1 .. n, NEW t, Turned(p, i - 1, t)
    PROVE  Turned(p, i, TickStep(p, i, t))
<1>1. PICK st : st = p.queue[i]
  OBVIOUS
<1>2. PICK names : names = p.names
  OBVIOUS
<1>3. PICK name : name = At(names, st)
  OBVIOUS
<1>4. PICK order \in ActorOrders : order = p.order
  OBVIOUS
<1>5. PICK luck : luck = p.luck
  OBVIOUS
<1>6. PICK u : u = TickStep(p, i, t)
  OBVIOUS
<1>7. /\ st \in Stations \cup {None} /\ u = EnsureSign(t, st, name, order, luck)
      /\ st \in Stations => name \in Texts /\ name = names[st]
  BY <1>1, <1>2, <1>3, <1>4, <1>5, <1>6 DEF TickStep, At
<1>8. GenOK(t) /\ Current(t, names, {})
  BY <1>2 DEF Turned
<1>9. Served(t, u, st) /\ Renamed(t, u, st, names)
  BY <1>7, <1>8, EnsureSignIs
<1>10. Current(u, names, {})
  BY <1>8, <1>9 DEF Renamed, Current
<1>11. /\ GenOK(u) /\ u.s.live \cap Stations = p.t.s.live \cap Stations
       /\ u.generation => t.generation /\ p.t.generation
       /\ u.generation => DOMAIN p.t.ownership \cup p.t.refused \subseteq DOMAIN u.ownership \cup u.refused
       /\ Matched(p.t.s) => Matched(u.s)
  BY <1>9 DEF Turned, Served
<1>12. ASSUME authority, u.generation, NEW j \in 1 .. i, p.queue[j] \in p.t.s.live \cap Stations
       PROVE  p.queue[j] \in DOMAIN u.ownership \cup u.refused
  <2>1. CASE j = i
    <3>1. Supported(t, st)
      BY <1>1, <1>11, <1>12, <2>1 DEF Supported, IsValid, Turned
    <3>2. QED
      BY <1>1, <1>9, <1>12, <2>1, <3>1 DEF Served
  <2>2. CASE j # i
    <3>1. j \in 1 .. i - 1
      BY <2>2
    <3>2. p.queue[j] \in DOMAIN t.ownership \cup t.refused
      BY <1>11, <1>12, <3>1 DEF Turned
    <3>3. QED
      BY <1>9, <1>12, <3>2 DEF Served
  <2>3. QED
    BY <2>1, <2>2
<1>13. QED
  BY <1>2, <1>6, <1>10, <1>11, <1>12 DEF Turned

LEMMA InitializedIs ==
    ASSUME GenOK(Truck), Current(Truck, stationName, {}), stationName \in [Stations -> Texts],
           NEW n \in Nat, \A j \in 1 .. n : initialization[j] \in Stations \cup {None},
           NEW order \in ActorOrders, NEW luck, NEW u, u = Initialized(n, order, luck),
           NEW t, t = Truck
    PROVE  /\ GenOK(u) /\ u.s.live \cap Stations = t.s.live \cap Stations
           /\ u.generation => t.generation
           /\ u.generation => DOMAIN t.ownership \cup t.refused \subseteq DOMAIN u.ownership \cup u.refused
           /\ authority /\ u.generation =>
                 \A j \in 1 .. n : initialization[j] \in t.s.live \cap Stations =>
                                      initialization[j] \in DOMAIN u.ownership \cup u.refused
           /\ Matched(t.s) => Matched(u.s)
           /\ Current(u, stationName, {})
<1>1. PICK p : p = [t |-> t, queue |-> initialization, names |-> stationName,
                    order |-> order, luck |-> luck]
  OBVIOUS
<1>2. /\ p.t = t /\ p.queue = initialization /\ p.names = stationName
      /\ p.order = order /\ p.luck = luck
  BY <1>1
<1>3. u = Ticking!Loop(p, t, n)
  BY <1>2 DEF Initialized, Ticking!Loop, TickStep
<1>4. Turned(p, 0, t)
  BY <1>2 DEF Turned
<1>5. \A i \in 1 .. n : \A y : Turned(p, i - 1, y) => Turned(p, i, TickStep(p, i, y))
  BY <1>2, TurnIs
<1>6. Turned(p, n, Ticking!Loop(p, t, n))
  BY <1>4, <1>5, Ticking!LoopHolds
<1>7. QED
  BY <1>2, <1>3, <1>6 DEF Turned
-----------------------------------------------------------------------------
(* The actions                                                              *)

\* What a step leaves in order is in order in the next state.
LEMMA GenOKPrimed ==
    ASSUME NEW t, GenOK(t), SetTruck(t), authority' = authority, mods' = mods
    PROVE  GenOK(Truck)' /\ Truck' = t
<1>1. Truck' = t
  BY DEF Truck, SetTruck, GenOK, TruckOK, TruckShape
<1>2. Conveyor' = Conveyor
  BY DEF Conveyor
<1>3. Still(t.s) /\ TruckOK(t)
  BY DEF GenOK
<1>4. Sound(Truck.s)'
  <2>1. ActorsOK(Truck.s)' /\ MirrorsLinked(Truck.s)' /\ (Truck.s)' = t.s
    BY <1>1, <1>3 DEF Still, Sound, ActorsOK, MirrorsLinked, Shape
  <2>2. MirrorsHosted(Truck.s)'
    BY <1>1, <1>2, <1>3 DEF Still, Sound, MirrorsHosted
  <2>3. QED
    BY <1>3, <2>1, <2>2 DEF Still, Sound
<1>5. TruckOK(Truck)'
  BY <1>1, <1>3 DEF TruckOK, TruckShape, Tracked, Named
<1>6. Still(Truck.s)'
  BY <1>1, <1>3, <1>4 DEF Still
<1>7. QED
  BY <1>1, <1>5, <1>6 DEF GenOK

LEMMA RunningAfter ==
    ASSUME NEW t, GenOK(t), SetTruck(t), authority' = authority, mods' = mods,
           Current(t, stationName', {}), ModuleOK', NoStationForgotten',
           ~Conveyor => ~initialRefresh', initialized' => ~initialRefresh' /\ Matched(t.s),
           phase' = "loading" => ~initialized'
    PROVE  Inv'
<1>1. GenOK(Truck)' /\ Truck' = t
  BY GenOKPrimed
<1>2. actors' = (Truck.s)' /\ Conveyor' = Conveyor
  BY DEF Truck, Conveyor
<1>3. (Sound(actors) /\ TruckOK(Truck))' /\ (actors.dying = {} /\ ~actors.iterated)'
  BY <1>1, <1>2 DEF GenOK, Still
<1>4. Quiet'
  BY <1>3 DEF Quiet, CascadesEnd, Sound
<1>5. Current(Truck, stationName, {})' /\ (initialized => Matched(actors))'
  BY <1>1, <1>2 DEF Current, Matched
<1>6. Running'
  BY <1>2, <1>3, <1>5 DEF Running
<1>7. QED
  BY <1>4, <1>6 DEF Inv

LEMMA TruckIs ==
    ASSUME Inv, phase # "ended"
    PROVE  /\ GenOK(Truck) /\ Truck.s = actors /\ Still(actors)
           /\ Truck.generation = generation /\ Truck.ownership = ownership
           /\ Truck.appliedNames = appliedNames /\ Truck.refused = refused
           /\ Truck = [s |-> actors, generation |-> generation, ownership |-> ownership,
                       appliedNames |-> appliedNames, refused |-> refused]
BY DEF Inv, Quiet, Running, CascadesEnd, GenOK, Still, Truck

\* A step that is no business of the station mod.
LEMMA SceneKept ==
    ASSUME Inv, phase # "ended", NEW u, actors' = u, UNCHANGED <<worldVars, truckVars>>,
           Still(u), SeenBelow(actors, u),
           ~Conveyor => ~initialRefresh', initialized' => ~initialRefresh' /\ Matched(u),
           phase = "loading" => ~initialized'
    PROVE  Inv'
<1>1. PICK t : t = [s |-> u, generation |-> generation, ownership |-> ownership,
                    appliedNames |-> appliedNames, refused |-> refused]
  OBVIOUS
<1>2. /\ t.s = u /\ t.generation = generation /\ t.ownership = ownership
      /\ t.appliedNames = appliedNames /\ t.refused = refused /\ TruckShape(t)
  BY <1>1 DEF TruckShape
<1>3. SetTruck(t) /\ authority' = authority /\ mods' = mods /\ phase' = phase
  BY <1>2 DEF SetTruck, truckVars, worldVars
<1>4. /\ GenOK(Truck) /\ Truck.s = actors /\ Still(actors)
      /\ Truck.generation = generation /\ Truck.ownership = ownership
      /\ Truck.appliedNames = appliedNames
  BY TruckIs
<1>5. /\ Tracked(actors, ownership) /\ Named(actors, appliedNames)
      /\ DOMAIN appliedNames \subseteq StationSigns
      /\ DOMAIN ownership \subseteq Stations
      /\ \A st \in DOMAIN ownership : ownership[st] \in StationSigns \cup {None}
      /\ ~authority => StationSigns \cap actors.live = {}
  BY <1>4 DEF GenOK, TruckOK
<1>6. Tracked(u, ownership) /\ Named(u, appliedNames)
  BY <1>5, SeenKeeps
<1>7. GenOK(t)
  BY <1>2, <1>5, <1>6 DEF GenOK, TruckOK, SeenBelow
<1>8. Current(t, stationName', {})
  <2>1. Current(Truck, stationName, {}) /\ stationName' = stationName
    BY DEF Inv, Running, truckVars
  <2>2. QED
    BY <1>2, <1>4, <2>1 DEF Current, SeenBelow
<1>9. /\ u.live \cap Stations = actors.live \cap Stations
      /\ StationSigns \cap u.live \subseteq actors.live
  BY DEF SeenBelow
<1>10. ModuleOK'
  BY <1>3, <1>9 DEF Inv, Running, ModuleOK, TruckInstalled, truckVars
<1>11. NoStationForgotten'
  BY <1>3, <1>9 DEF Inv, Running, NoStationForgotten, InPlay, truckVars
<1>12. QED
  BY <1>2, <1>3, <1>7, <1>8, <1>10, <1>11, RunningAfter
\* What all of these steps start from.
LEMMA SceneIs ==
    ASSUME Inv, phase # "ended"
    PROVE  /\ Still(actors) /\ Shape(actors) /\ ActorsOK(actors)
           /\ initialized => ~initialRefresh /\ Matched(actors)
           /\ ~Conveyor => ~initialRefresh
           /\ phase = "loading" => ~initialized
BY TruckIs DEF Inv, Running, Still, Sound, ActorsOK

LEMMA BuildSignKeeps ==
    ASSUME Inv, NEW g \in Signs, BuildSign(g), UNCHANGED truckVars
    PROVE  Inv'
<1>1. phase = "play" /\ g \notin actors.live
  BY DEF BuildSign, Room
<1>2. PICK order \in ActorOrders, luck \in Lucks, text \in Texts :
          actors' = EnsureMirrorForSource([Spawn(actors, g) EXCEPT !.text[g] = text], g, order, luck)
  BY DEF BuildSign
<1>3. PICK a : a = [Spawn(actors, g) EXCEPT !.text[g] = text]
  OBVIOUS
<1>4. PICK u : u = EnsureMirrorForSource(a, g, order, luck)
  OBVIOUS
<1>5. /\ Still(actors) /\ Shape(actors)
      /\ initialized => ~initialRefresh /\ Matched(actors)
      /\ ~Conveyor => ~initialRefresh
      /\ phase = "loading" => ~initialized
  BY <1>1, SceneIs
<1>6. Appears(actors, a, g)
  BY <1>3, <1>5, SpawnAppears
<1>7. g \in Sources \ actors.live /\ g \notin Mirrors \cup StationSigns \cup Lifts \cup Stations
  BY <1>1, Kinds DEF Sources, AllSigns
<1>8. Welcome(actors, a, g)
  BY <1>7 DEF Welcome, Addresses, AllSigns
<1>9. Still(a) /\ (Matched(actors) => Matched(a)) /\ NoMirror(a, g)
  BY <1>5, <1>6, <1>7, <1>8, AppearsStill, FreshHasNoMirror
<1>10. g \in Sources \cap a.live
  BY <1>6, <1>7 DEF Appears
<1>11. Mirrored(a, u, {g})
  BY <1>4, <1>9, <1>10, EnsureMirrorForSourceIs
<1>12. Still(u) /\ (Matched(a) => Matched(u))
  BY <1>11 DEF Mirrored
<1>13. SeenBelow(actors, u)
  <2>1. /\ StationSigns \cap Mirrors = {} /\ Stations \cap Mirrors = {}
        /\ StationSigns \subseteq AllSigns
    BY Kinds DEF Sources, AllSigns
  <2>2. DOMAIN actors.owner = StationSigns \cup Mirrors /\ DOMAIN actors.text = AllSigns
    BY <1>5 DEF Still, Sound, ActorsOK
  <2>3. QED
    BY <1>6, <1>7, <1>11, <2>1, <2>2 DEF SeenBelow, Mirrored, Appears
<1>14. actors' = u /\ UNCHANGED <<worldVars, mirrorVars, truckVars>>
  BY <1>2, <1>3, <1>4 DEF BuildSign
<1>15. initialized' = initialized /\ initialRefresh' = initialRefresh
  BY <1>14 DEF mirrorVars
<1>16. QED
  BY <1>1, <1>5, <1>9, <1>12, <1>13, <1>14, <1>15, SceneKept

LEMMA EditSignKeeps ==
    ASSUME Inv, NEW g \in Signs, NEW text, EditSign(g, text), UNCHANGED truckVars
    PROVE  Inv'
<1>1. phase = "play" /\ g \in actors.live /\ UNCHANGED <<worldVars, mirrorVars>>
  BY DEF EditSign
<1>2. /\ Still(actors)
      /\ initialized => ~initialRefresh /\ Matched(actors)
      /\ ~Conveyor => ~initialRefresh
      /\ phase = "loading" => ~initialized
  BY <1>1, SceneIs
<1>3. PICK u : u = SetPrefabSignData(actors, g, text)
  OBVIOUS
<1>4. /\ Still(u) /\ u.live = actors.live /\ u.owner = actors.owner
      /\ \A h \in Sources \ {g} : u.text[h] = actors.text[h]
      /\ Matched(actors) => Matched(u)
  BY <1>1, <1>2, <1>3, SetPrefabSignDataIs DEF Sources
<1>5. SeenBelow(actors, u)
  BY <1>4, Kinds DEF SeenBelow, Sources
<1>6. actors' = u /\ initialized' = initialized /\ initialRefresh' = initialRefresh
  BY <1>1, <1>3 DEF mirrorVars, EditSign
<1>7. UNCHANGED <<worldVars, truckVars>>
  BY <1>1
<1>8. QED
  BY <1>1, <1>2, <1>4, <1>5, <1>6, <1>7, SceneKept

\* An actor that begins play and is no station and no station's sign.
LEMMA ComesKeeps ==
    ASSUME Inv, phase # "ended", NEW a, NEW u, actors' = u, Appears(actors, u, a),
           Welcome(actors, u, a), a \notin StationSigns \cup Stations,
           a \in Mirrors => phase = "loading", UNCHANGED <<worldVars, mirrorVars, truckVars>>
    PROVE  Inv'
<1>1. /\ Still(actors) /\ ActorsOK(actors) /\ (initialized => ~initialRefresh /\ Matched(actors))
      /\ ~Conveyor => ~initialRefresh
      /\ phase = "loading" => ~initialized
  BY SceneIs
<1>2. Still(u) /\ (a \notin Mirrors /\ Matched(actors) => Matched(u))
  BY <1>1, AppearsStill
<1>3. SeenBelow(actors, u)
  <2>1. /\ StationSigns \subseteq DOMAIN actors.owner /\ StationSigns \subseteq DOMAIN actors.text
    BY <1>1 DEF ActorsOK, AllSigns, Sources
  <2>2. QED
    BY <2>1 DEF SeenBelow, Appears
<1>4. initialized' = initialized /\ initialRefresh' = initialRefresh
  BY DEF mirrorVars
<1>5. UNCHANGED <<worldVars, truckVars>>
  OBVIOUS
<1>6. QED
  BY <1>1, <1>2, <1>3, <1>4, <1>5, SceneKept

LEMMA LiftKeeps ==
    ASSUME Inv, NEW l \in Lifts, (BuildLift(l) /\ UNCHANGED truckVars) \/ LoadLift(l)
    PROVE  Inv'
<1>1. /\ phase # "ended" /\ l \notin actors.live /\ Conveyor
      /\ actors' = Spawn(actors, l) /\ UNCHANGED <<worldVars, mirrorVars, truckVars>>
  BY DEF BuildLift, LoadLift, Room, LoadingRoom, Conveyor
<1>2. PICK u : u = Spawn(actors, l)
  OBVIOUS
<1>3. Appears(actors, u, l)
  BY <1>1, <1>2, SceneIs, SpawnAppears
<1>4. l \notin AllSigns \cup Stations /\ l \in Addresses
  BY Kinds DEF Addresses
<1>5. Welcome(actors, u, l)
  BY <1>1, <1>4 DEF Welcome, AllSigns, Sources
<1>6. QED
  BY <1>1, <1>2, <1>3, <1>4, <1>5, ComesKeeps DEF AllSigns, Sources

LEMMA LoadSignKeeps ==
    ASSUME Inv, NEW g \in Signs, NEW text, LoadSign(g, text)
    PROVE  Inv'
<1>1. phase # "ended" /\ g \notin actors.live /\ UNCHANGED <<worldVars, mirrorVars, truckVars>>
  BY DEF LoadSign, LoadingRoom
<1>2. PICK u : u = [Spawn(actors, g) EXCEPT !.text[g] = text]
  OBVIOUS
<1>3. Appears(actors, u, g)
  BY <1>1, <1>2, SceneIs, SpawnAppears
<1>4. g \notin Mirrors \cup StationSigns \cup Lifts \cup Stations /\ g \in Addresses
  BY Kinds DEF Sources, AllSigns, Addresses
<1>5. Welcome(actors, u, g)
  BY <1>1, <1>4 DEF Welcome
<1>6. actors' = u
  BY <1>2 DEF LoadSign
<1>7. QED
  BY <1>1, <1>3, <1>4, <1>5, <1>6, ComesKeeps

LEMMA LoadMirrorKeeps ==
    ASSUME Inv, NEW x \in Mirrors, NEW g \in Signs, LoadMirror(x, g)
    PROVE  Inv'
<1>1. /\ phase = "loading" /\ g \in actors.live /\ Mirrors \cap actors.live = {} /\ Conveyor /\ authority
      /\ UNCHANGED <<worldVars, mirrorVars, truckVars>>
  BY DEF LoadMirror, LoadingRoom, Conveyor
<1>2. PICK text : text = actors.text[g]
  OBVIOUS
<1>3. PICK u : u = [Spawn(actors, x) EXCEPT !.owner[x] = g, !.text[x] = text]
  OBVIOUS
<1>4. ActorsOK(actors)
  BY <1>1, SceneIs
<1>5. Appears(actors, u, x) /\ u.owner[x] = g
  <2>1. x \in DOMAIN actors.owner
    BY <1>4 DEF ActorsOK
  <2>2. Appears(actors, [Spawn(actors, x) EXCEPT !.owner[x] = g, !.text[x] = text], x)
    BY <1>1, SceneIs, SpawnAppears
  <2>3. [Spawn(actors, x) EXCEPT !.owner[x] = g, !.text[x] = text].owner[x] = g
    BY <1>1, <2>1, SceneIs, SpawnAppears
  <2>4. QED
    BY <1>3, <2>2, <2>3
<1>6. x \notin Sources \cup StationSigns \cup Lifts \cup Stations /\ x \in Addresses
  BY Kinds DEF Sources, AllSigns, Addresses
<1>7. Welcome(actors, u, x)
  BY <1>1, <1>5, <1>6 DEF Welcome, Sources
<1>8. actors' = u
  BY <1>2, <1>3 DEF LoadMirror
<1>9. QED
  BY <1>1, <1>5, <1>6, <1>7, <1>8, ComesKeeps

LEMMA DismantleKeeps ==
    ASSUME Inv, NEW a \in Signs \cup Mirrors \cup Lifts, Dismantle(a), UNCHANGED truckVars
    PROVE  Inv'
<1>1. phase = "play" /\ a \in actors.live /\ UNCHANGED <<worldVars, mirrorVars>>
  BY DEF Dismantle
<1>2. /\ Still(actors) /\ ActorsOK(actors) /\ (initialized => ~initialRefresh /\ Matched(actors))
      /\ ~Conveyor => ~initialRefresh
      /\ phase = "loading" => ~initialized
  BY <1>1, SceneIs
<1>3. PICK u : u = Destroy(actors, a)
  OBVIOUS
<1>4. PICK gone : /\ Takes(actors, u, gone) /\ gone \cap Stations \subseteq {a}
                  /\ Matched(actors) => Matched(u)
  BY <1>1, <1>2, <1>3, DestroyKeeps
<1>5. gone \cap Stations = {}
  BY <1>4, Kinds DEF AllSigns
<1>6. Still(u) /\ SeenBelow(actors, u)
  BY <1>2, <1>4, <1>5, TakesStill, TakesSeen
<1>7. actors' = u /\ initialized' = initialized /\ initialRefresh' = initialRefresh
  BY <1>1, <1>3 DEF mirrorVars, Dismantle
<1>8. UNCHANGED <<worldVars, truckVars>>
  BY <1>1
<1>9. QED
  BY <1>1, <1>2, <1>4, <1>6, <1>7, <1>8, SceneKept

LEMMA RunInitialRefreshKeeps ==
    ASSUME Inv, RunInitialRefresh, UNCHANGED truckVars
    PROVE  Inv'
<1>1. /\ phase \in {"menu", "play"} /\ initialRefresh /\ initialRefresh' = FALSE
      /\ UNCHANGED <<worldVars, truckVars>>
  BY DEF RunInitialRefresh
<1>2. /\ Still(actors) /\ (initialized => ~initialRefresh /\ Matched(actors))
      /\ ~Conveyor => ~initialRefresh
  BY <1>1, SceneIs
<1>3. CASE authority
  <2>1. PICK order \in ActorOrders, luck \in Lucks : actors' = RefreshWorld(actors, order, luck)
    BY <1>3 DEF RunInitialRefresh
  <2>2. PICK u : u = RefreshWorld(actors, order, luck)
    OBVIOUS
  <2>3. Conveyor /\ ~initialized
    BY <1>1, <1>2
  <2>4. /\ Still(u) /\ Matched(u) /\ u.live \ Mirrors = actors.live \ Mirrors
        /\ \A g \in StationSigns \cap actors.live : u.owner[g] = actors.owner[g]
        /\ \A g \in Sources \cap actors.live : u.text[g] = actors.text[g]
    BY <1>2, <1>3, <2>2, <2>3, RefreshWorldIs
  <2>5. StationSigns \cap Mirrors = {} /\ Stations \cap Mirrors = {}
    BY Kinds DEF Sources, AllSigns
  <2>6. SeenBelow(actors, u)
    BY <2>4, <2>5 DEF SeenBelow, Sources
  <2>7. actors' = u
    BY <2>1, <2>2
  <2>8. QED
    BY <1>1, <2>4, <2>6, <2>7, SceneKept
<1>4. CASE ~authority
  <2>1. actors' = actors /\ initialized' = initialized
    BY <1>4 DEF RunInitialRefresh
  <2>2. SeenBelow(actors, actors)
    BY DEF SeenBelow
  <2>3. QED
    BY <1>1, <1>2, <2>1, <2>2, SceneKept
<1>5. QED
  BY <1>3, <1>4
-----------------------------------------------------------------------------
(* The stations' actions                                                    *)

\* What all of these steps start from.
LEMMA StationsAre ==
    ASSUME Inv, phase # "ended"
    PROVE  /\ GenOK(Truck) /\ Current(Truck, stationName, {}) /\ ModuleOK
           /\ Truck.s = actors /\ Still(actors) /\ Shape(actors)
           /\ Truck.generation = generation /\ Truck.ownership = ownership
           /\ Truck.appliedNames = appliedNames /\ Truck.refused = refused
           /\ NoStationForgotten
           /\ ~Conveyor => ~initialRefresh
           /\ initialized => ~initialRefresh /\ Matched(actors)
           /\ phase = "loading" => ~initialized
BY TruckIs DEF Inv, Running, Still, Sound, ActorsOK

\* What is left to show of a step of the station mod in a map that is played.
LEMMA StationStep ==
    ASSUME Inv, phase = "play", UnchangedWorld, TruckInstalled, UNCHANGED <<mapLoadInProgress, controller>>,
           NEW u, GenOK(u), SetTruck(u), Current(u, stationName', {}),
           stationName' \in [Stations -> Texts],
           StationSigns \cap u.s.live # {} => controller,
           initialization' # None => controller /\ initialization' \in Seq(Stations \cup {None}),
           initialized => Matched(u.s),
           ASSUME controller, u.generation, authority, NEW st \in Stations \cap u.s.live
           PROVE  \/ st \in DOMAIN u.ownership \cup u.refused
                  \/ initialization' # None /\ Contains(initialization', st)
    PROVE  Inv'
<1>1. /\ authority' = authority /\ mods' = mods /\ phase' = phase
      /\ initialized' = initialized /\ initialRefresh' = initialRefresh
      /\ mapLoadInProgress' = mapLoadInProgress /\ controller' = controller
  BY DEF UnchangedWorld, worldVars, mirrorVars
<1>2. /\ ~Conveyor => ~initialRefresh
      /\ initialized => ~initialRefresh
      /\ ModuleOK
  BY StationsAre
<1>3. /\ actors' = u.s /\ generation' = u.generation /\ ownership' = u.ownership
      /\ refused' = u.refused
  BY DEF SetTruck
<1>4. ModuleOK'
  BY <1>1, <1>2, <1>3 DEF ModuleOK, TruckInstalled
<1>5. NoStationForgotten'
  BY <1>1, <1>3 DEF NoStationForgotten, InPlay
<1>6. QED
  BY <1>1, <1>2, <1>4, <1>5, RunningAfter

LEMMA StationComes ==
    ASSUME Inv, phase # "ended", NEW st \in Stations \ actors.live, NEW name \in Texts,
           NEW t, t = [s |-> Spawn(actors, st), generation |-> generation, ownership |-> t.ownership,
                       appliedNames |-> appliedNames, refused |-> refused],
           t.ownership = ownership \/ t.ownership = Without(ownership, {st}),
           NEW names, names = [stationName EXCEPT ![st] = name]
    PROVE  /\ GenOK(t) /\ Current(t, names, {}) /\ t.s.live = actors.live \cup {st}
           /\ names \in [Stations -> Texts] /\ (Matched(actors) => Matched(t.s))
<1>1. /\ GenOK(Truck) /\ Current(Truck, stationName, {}) /\ ModuleOK
      /\ Truck.s = actors /\ Still(actors) /\ Shape(actors)
      /\ Truck.generation = generation /\ Truck.ownership = ownership
      /\ Truck.appliedNames = appliedNames
  BY StationsAre
<1>2. PICK a : a = Spawn(actors, st)
  OBVIOUS
<1>3. Appears(actors, a, st)
  BY <1>1, <1>2, SpawnAppears
<1>4. st \notin AllSigns \cup Lifts /\ st \in Addresses
  BY Kinds DEF Addresses
<1>5. Welcome(actors, a, st)
  BY <1>4 DEF Welcome, AllSigns, Sources
<1>6. Still(a) /\ (Matched(actors) => Matched(a))
  BY <1>1, <1>3, <1>4, <1>5, AppearsStill DEF AllSigns
<1>7. /\ a.live = actors.live \cup {st}
      /\ \A g \in StationSigns : a.owner[g] = actors.owner[g] /\ a.text[g] = actors.text[g]
  <2>1. StationSigns \subseteq DOMAIN actors.owner /\ StationSigns \subseteq DOMAIN actors.text
    BY <1>1 DEF Still, Sound, ActorsOK, AllSigns, Sources
  <2>2. QED
    BY <1>3, <1>4, <2>1 DEF Appears, AllSigns, Sources
<1>8. PICK o : o = t.ownership
  OBVIOUS
<1>9. /\ DOMAIN o \subseteq DOMAIN ownership /\ \A k \in DOMAIN o : o[k] = ownership[k]
      /\ \A k \in DOMAIN ownership : k # st => k \in DOMAIN o
  BY <1>8 DEF Without, Restrict
<1>10. /\ t.s = a /\ t.generation = generation /\ t.ownership = o
       /\ t.appliedNames = appliedNames /\ t.refused = refused /\ TruckShape(t)
  BY <1>2, <1>8 DEF TruckShape
<1>11. /\ Tracked(actors, ownership) /\ Named(actors, appliedNames)
       /\ DOMAIN appliedNames \subseteq StationSigns
       /\ DOMAIN ownership \subseteq Stations
       /\ \A k \in DOMAIN ownership : ownership[k] \in StationSigns \cup {None}
       /\ ~authority => StationSigns \cap actors.live = {}
  BY <1>1 DEF GenOK, TruckOK
<1>12. StationSigns \cap a.live = StationSigns \cap actors.live
  BY <1>4, <1>7 DEF AllSigns, Sources
<1>13. Tracked(a, o)
  <2>1. ASSUME NEW g \in StationSigns \cap a.live
        PROVE  a.owner[g] \in Stations \cap a.live /\ At(o, a.owner[g]) = g
    <3>1. PICK k : k = actors.owner[g]
      OBVIOUS
    <3>2. k \in Stations \cap actors.live /\ At(ownership, k) = g /\ a.owner[g] = k /\ g # None
      BY <1>7, <1>11, <1>12, <3>1, Kinds DEF Tracked, AllSigns, Sources
    <3>3. k \in DOMAIN ownership /\ ownership[k] = g /\ k # st
      BY <3>2 DEF At
    <3>4. QED
      BY <1>7, <1>9, <3>2, <3>3 DEF At
  <2>2. ASSUME NEW k \in DOMAIN o, o[k] \in a.live PROVE a.owner[o[k]] = k
    <3>1. PICK g : g = ownership[k]
      OBVIOUS
    <3>2. o[k] = g /\ k \in DOMAIN ownership /\ g \in StationSigns \cup {None} /\ g \in a.live
      BY <1>9, <1>11, <2>2, <3>1
    <3>3. g # None
      BY <1>6, <3>2, Kinds DEF Still, Sound, ActorsOK, Addresses
    <3>4. g \in StationSigns \cap actors.live
      BY <1>12, <3>2, <3>3
    <3>5. actors.owner[g] = k
      BY <1>11, <3>1, <3>2, <3>4 DEF Tracked
    <3>6. QED
      BY <1>7, <3>2, <3>4, <3>5
  <2>3. QED
    BY <2>1, <2>2 DEF Tracked
<1>14. Named(a, appliedNames)
  BY <1>7, <1>11, <1>12 DEF Named
<1>15. GenOK(t)
  BY <1>6, <1>9, <1>10, <1>11, <1>12, <1>13, <1>14 DEF GenOK, TruckOK
<1>16. names \in [Stations -> Texts] /\ \A k \in Stations \ {st} : names[k] = stationName[k]
  BY <1>1 DEF ModuleOK
<1>17. Current(t, names, {})
  <2>1. ASSUME generation, NEW g \in StationSigns \cap a.live
        PROVE  a.text[g] = names[a.owner[g]]
    <3>1. actors.owner[g] \in Stations \ {st}
      BY <1>11, <1>12 DEF Tracked
    <3>2. actors.text[g] = stationName[actors.owner[g]]
      BY <1>1, <1>12, <2>1 DEF Current
    <3>3. QED
      BY <1>7, <1>16, <3>1, <3>2
  <2>2. QED
    BY <1>10, <2>1 DEF Current
<1>18. QED
  BY <1>6, <1>7, <1>10, <1>15, <1>16, <1>17

LEMMA BuildStationKeeps ==
    ASSUME Inv, NEW st \in Stations, NEW name \in Texts, BuildStation(st, name)
    PROVE  Inv'
<1>1. /\ phase = "play" /\ TruckInstalled /\ st \in Stations \ actors.live /\ UnchangedWorld
      /\ stationName' = [stationName EXCEPT ![st] = name]
      /\ UNCHANGED <<mapLoadInProgress, controller, initialization>>
  BY DEF BuildStation, Room
<1>2. PICK o : o = Without(ownership, {st})
  OBVIOUS
<1>3. PICK t : t = [Truck EXCEPT !.s = Spawn(Truck.s, st), !.ownership = Without(Truck.ownership, {st})]
  OBVIOUS
<1>4. /\ ModuleOK /\ (initialized => Matched(actors)) /\ NoStationForgotten
      /\ Truck.s = actors /\ Truck.ownership = ownership
      /\ Truck = [s |-> actors, generation |-> generation, ownership |-> ownership,
                  appliedNames |-> appliedNames, refused |-> refused]
  BY <1>1, StationsAre, TruckIs
<1>5. /\ t = [s |-> Spawn(actors, st), generation |-> generation, ownership |-> o,
              appliedNames |-> appliedNames, refused |-> refused]
  <2>1. PICK a : a = Spawn(actors, st)
    OBVIOUS
  <2>2. PICK z : z = Truck
    OBVIOUS
  <2>3. t = [z EXCEPT !.s = a, !.ownership = o]
    BY <1>2, <1>3, <1>4, <2>1, <2>2
  <2>4. z = [s |-> actors, generation |-> generation, ownership |-> ownership,
             appliedNames |-> appliedNames, refused |-> refused]
    BY <1>4, <2>2
  <2>5. t = [s |-> a, generation |-> generation, ownership |-> o,
             appliedNames |-> appliedNames, refused |-> refused]
    BY <2>3, <2>4
  <2>6. QED
    BY <2>1, <2>5
<1>6. /\ t.ownership = o /\ t.s = Spawn(actors, st) /\ t.generation = generation /\ t.refused = refused
  BY <1>5
<1>7. /\ GenOK(t) /\ Current(t, stationName', {}) /\ t.s.live = actors.live \cup {st}
      /\ stationName' \in [Stations -> Texts] /\ (Matched(actors) => Matched(t.s))
  <2>1. PICK names : names = [stationName EXCEPT ![st] = name]
    OBVIOUS
  <2>2. /\ phase # "ended" /\ (t.ownership = ownership \/ t.ownership = Without(ownership, {st}))
        /\ t = [s |-> Spawn(actors, st), generation |-> generation, ownership |-> t.ownership,
                appliedNames |-> appliedNames, refused |-> refused]
    BY <1>1, <1>2, <1>5, <1>6
  <2>3. /\ GenOK(t) /\ Current(t, names, {}) /\ t.s.live = actors.live \cup {st}
        /\ names \in [Stations -> Texts] /\ (Matched(actors) => Matched(t.s))
    BY <1>1, <2>1, <2>2, StationComes
  <2>4. QED
    BY <1>1, <2>1, <2>3
<1>8. /\ StationSigns \cap t.s.live = StationSigns \cap actors.live
      /\ DOMAIN o = DOMAIN ownership \ {st}
  BY <1>2, <1>7, Kinds DEF AllSigns, Sources, Without, Restrict
<1>9. CASE ~controller
  <2>1. SetTruck(t)
    BY <1>3, <1>9 DEF BuildStation
  <2>2. QED
    BY <1>1, <1>4, <1>7, <1>8, <1>9, <2>1, StationStep DEF ModuleOK
<1>10. CASE controller
  <2>1. ~mapLoadInProgress
    BY <1>1, <1>4 DEF ModuleOK
  <2>2. PICK order \in ActorOrders, luck \in Lucks : SetTruck(EnsureSign(t, st, name, order, luck))
    BY <1>3, <1>10, <2>1 DEF BuildStation
  <2>3. PICK u : u = EnsureSign(t, st, name, order, luck)
    OBVIOUS
  <2>4. PICK names : names = stationName'
    OBVIOUS
  <2>5. name = names[st] /\ names \in [Stations -> Texts] /\ Current(t, names, {st})
    BY <1>1, <1>4, <1>7, <2>4 DEF ModuleOK, Current
  <2>6. Served(t, u, st) /\ Renamed(t, u, st, names)
    BY <1>7, <2>3, <2>5, EnsureSignIs
  <2>7. GenOK(u) /\ Current(u, stationName', {}) /\ SetTruck(u) /\ (initialized => Matched(u.s))
    BY <1>4, <1>7, <2>2, <2>3, <2>4, <2>5, <2>6 DEF Served, Renamed
  <2>8. ASSUME controller, u.generation, authority, NEW k \in Stations \cap u.s.live
        PROVE  \/ k \in DOMAIN u.ownership \cup u.refused
               \/ initialization' # None /\ Contains(initialization', k)
    <3>1. /\ k \in t.s.live /\ t.generation
          /\ DOMAIN t.ownership \cup t.refused \subseteq DOMAIN u.ownership \cup u.refused
      BY <2>6, <2>8 DEF Served
    <3>2. CASE k = st
      BY <2>6, <2>8, <3>1, <3>2 DEF Served, Supported, IsValid
    <3>3. CASE k # st
      <4>1. k \in Stations \cap actors.live
        BY <1>7, <3>1, <3>3
      <4>2. k \in DOMAIN ownership \cup refused \/ (initialization # None /\ Contains(initialization, k))
        BY <1>1, <1>4, <1>6, <2>8, <3>1, <4>1 DEF NoStationForgotten, InPlay
      <4>3. QED
        BY <1>1, <1>6, <1>8, <3>1, <3>3, <4>2
    <3>4. QED
      BY <3>2, <3>3
  <2>9. QED
    BY <1>1, <1>4, <1>7, <1>10, <2>7, <2>8, StationStep DEF ModuleOK
<1>11. QED
  BY <1>9, <1>10
LEMMA LoadStationKeeps ==
    ASSUME Inv, NEW st \in Stations, NEW name \in Texts, LoadStation(st, name)
    PROVE  Inv'
<1>1. /\ phase = "loading" /\ TruckInstalled /\ st \in Stations \ actors.live
      /\ actors' = Spawn(actors, st) /\ stationName' = [stationName EXCEPT ![st] = name]
      /\ pendingStations' = Append(pendingStations, st)
      /\ UNCHANGED <<mapLoadInProgress, controller, generation, initialization,
                     ownership, appliedNames, refused>>
      /\ UNCHANGED <<worldVars, mirrorVars>>
  BY DEF LoadStation, UnchangedWorld
<1>2. /\ authority' = authority /\ mods' = mods /\ phase' = phase
      /\ initialized' = initialized /\ initialRefresh' = initialRefresh
  BY <1>1 DEF worldVars, mirrorVars
<1>3. /\ ModuleOK /\ (~Conveyor => ~initialRefresh) /\ ~initialized
  BY <1>1, StationsAre
<1>4. PICK t : t = [s |-> Spawn(actors, st), generation |-> generation, ownership |-> ownership,
                    appliedNames |-> appliedNames, refused |-> refused]
  OBVIOUS
<1>5. t.ownership = ownership /\ t.s = Spawn(actors, st)
  BY <1>4
<1>6. /\ GenOK(t) /\ Current(t, stationName', {}) /\ t.s.live = actors.live \cup {st}
      /\ stationName' \in [Stations -> Texts]
  <2>1. PICK names : names = [stationName EXCEPT ![st] = name]
    OBVIOUS
  <2>2. /\ phase # "ended"
        /\ t = [s |-> Spawn(actors, st), generation |-> generation, ownership |-> t.ownership,
                appliedNames |-> appliedNames, refused |-> refused]
        /\ t.ownership = ownership \/ t.ownership = Without(ownership, {st})
    BY <1>1, <1>4, <1>5
  <2>3. /\ GenOK(t) /\ Current(t, names, {}) /\ t.s.live = actors.live \cup {st}
        /\ names \in [Stations -> Texts]
    BY <1>1, <2>1, <2>2, StationComes
  <2>4. QED
    BY <1>1, <2>1, <2>3
<1>7. SetTruck(t)
  BY <1>1, <1>4 DEF SetTruck
<1>8. ModuleOK'
  <2>1. pendingStations \in Seq(Stations) /\ pendingStations' \in Seq(Stations)
    BY <1>1, <1>3 DEF ModuleOK
  <2>2. \A k \in Stations \cap actors'.live : Contains(pendingStations', k)
    <3>1. SUFFICES ASSUME NEW k \in Stations \cap actors'.live
                   PROVE  \E i \in 1 .. Len(pendingStations') : pendingStations'[i] = k
      BY DEF Contains
    <3>2. CASE k = st
      <4>1. Len(pendingStations') \in 1 .. Len(pendingStations') /\ pendingStations'[Len(pendingStations')] = k
        BY <1>1, <2>1, <3>2
      <4>2. QED
        BY <4>1
    <3>3. CASE k # st
      <4>1. k \in Stations \cap actors.live
        BY <1>1, <1>5, <1>6, <3>3
      <4>2. PICK i \in 1 .. Len(pendingStations) : pendingStations[i] = k
        BY <1>1, <1>3, <4>1 DEF ModuleOK, Contains
      <4>3. i \in 1 .. Len(pendingStations') /\ pendingStations'[i] = k
        BY <1>1, <2>1, <4>2
      <4>4. QED
        BY <4>3
    <3>4. QED
      BY <3>2, <3>3
  <2>3. StationSigns \cap actors'.live = StationSigns \cap actors.live
    BY <1>1, <1>5, <1>6, Kinds DEF AllSigns, Sources
  <2>4. QED
    BY <1>1, <1>2, <1>3, <1>6, <2>1, <2>2, <2>3 DEF ModuleOK, TruckInstalled
<1>9. NoStationForgotten'
  BY <1>1, <1>2 DEF NoStationForgotten, InPlay
<1>10. QED
  BY <1>2, <1>3, <1>6, <1>7, <1>8, <1>9, RunningAfter

\* The signs of the mod are kept by a step that serves the station st, which
\* stands.
LEMMA ServedKeeps ==
    ASSUME Inv, phase = "play", controller, UnchangedWorld,
           UNCHANGED <<mapLoadInProgress, controller, initialization>>,
           NEW st \in Stations \cap actors.live, NEW u, SetTruck(u), Served(Truck, u, st),
           Current(u, stationName', {}), stationName' \in [Stations -> Texts]
    PROVE  Inv'
<1>1. /\ ModuleOK /\ (initialized => Matched(actors)) /\ NoStationForgotten
      /\ Truck.s = actors /\ Truck.ownership = ownership
      /\ Truck.generation = generation /\ Truck.refused = refused
  BY StationsAre
<1>2. GenOK(u) /\ (initialized => Matched(u.s)) /\ u.s.live \cap Stations = actors.live \cap Stations
  BY <1>1 DEF Served
<1>3. TruckInstalled
  BY <1>1 DEF ModuleOK
<1>4. ASSUME controller, u.generation, authority, NEW k \in Stations \cap u.s.live
      PROVE  \/ k \in DOMAIN u.ownership \cup u.refused
             \/ initialization' # None /\ Contains(initialization', k)
  <2>1. /\ k \in actors.live /\ generation
        /\ DOMAIN ownership \cup refused \subseteq DOMAIN u.ownership \cup u.refused
    BY <1>1, <1>2, <1>4 DEF Served
  <2>2. k \in DOMAIN ownership \cup refused \/ (initialization # None /\ Contains(initialization, k))
    BY <1>1, <1>4, <2>1 DEF NoStationForgotten, InPlay
  <2>3. QED
    BY <2>1, <2>2
<1>5. QED
  BY <1>1, <1>2, <1>3, <1>4, StationStep DEF ModuleOK

LEMMA RenameStationKeeps ==
    ASSUME Inv, NEW st \in Stations, NEW name \in Texts, RenameStation(st, name)
    PROVE  Inv'
<1>1. /\ phase = "play" /\ st \in Stations \cap actors.live /\ UnchangedWorld
      /\ stationName' = [stationName EXCEPT ![st] = name]
      /\ UNCHANGED <<mapLoadInProgress, controller, initialization>>
  BY DEF RenameStation
<1>2. /\ GenOK(Truck) /\ Current(Truck, stationName, {}) /\ ModuleOK
      /\ Truck.s = actors /\ (initialized => Matched(actors))
  BY <1>1, StationsAre
<1>3. PICK names : names = stationName'
  OBVIOUS
<1>4. /\ names[st] = name /\ names \in [Stations -> Texts]
      /\ \A k \in Stations \ {st} : names[k] = stationName[k]
  BY <1>1, <1>2, <1>3 DEF ModuleOK
<1>5. CASE controller
  <2>1. PICK t : t = Truck
    OBVIOUS
  <2>2. GenOK(t) /\ Current(t, names, {st})
    <3>1. \A g \in StationSigns \cap t.s.live : t.s.owner[g] \in Stations
      BY <1>2, <2>1 DEF GenOK, TruckOK, Tracked
    <3>2. QED
      BY <1>2, <1>4, <2>1, <3>1 DEF Current
  <2>3. PICK order \in ActorOrders, luck \in Lucks : SetTruck(EnsureSign(t, st, name, order, luck))
    BY <1>5, <2>1 DEF RenameStation
  <2>4. PICK u : u = EnsureSign(t, st, name, order, luck)
    OBVIOUS
  <2>5. Served(t, u, st) /\ Renamed(t, u, st, names)
    BY <1>4, <2>2, <2>4, EnsureSignIs
  <2>6. Served(Truck, u, st) /\ Current(u, stationName', {}) /\ SetTruck(u)
    BY <1>3, <2>1, <2>2, <2>3, <2>4, <2>5 DEF Renamed
  <2>7. QED
    BY <1>1, <1>3, <1>4, <1>5, <2>6, ServedKeeps
<1>6. CASE ~controller
  <2>1. PICK t : t = Truck
    OBVIOUS
  <2>2. SetTruck(t) /\ GenOK(t) /\ t.s = actors
    BY <1>2, <1>6, <2>1 DEF RenameStation
  <2>3. StationSigns \cap t.s.live = {}
    BY <1>2, <1>6, <2>2 DEF ModuleOK
  <2>4. Current(t, stationName', {})
    BY <2>3 DEF Current
  <2>5. TruckInstalled
    BY <1>1, <1>2 DEF ModuleOK
  <2>6. QED
    BY <1>1, <1>2, <1>3, <1>4, <1>6, <2>2, <2>3, <2>4, <2>5, StationStep DEF ModuleOK
<1>7. QED
  BY <1>5, <1>6

LEMMA RecreateSignKeeps ==
    ASSUME Inv, NEW st \in Stations, RecreateSignForVisualTest(st)
    PROVE  Inv'
<1>1. /\ phase = "play" /\ controller /\ st \in Stations \cap actors.live /\ UnchangedWorld
      /\ stationName' = stationName
      /\ UNCHANGED <<mapLoadInProgress, controller, initialization>>
  BY DEF RecreateSignForVisualTest
<1>2. /\ GenOK(Truck) /\ Current(Truck, stationName, {}) /\ ModuleOK /\ Truck.s = actors
  BY <1>1, StationsAre
<1>3. PICK t : t = Truck
  OBVIOUS
<1>4. PICK order \in ActorOrders, luck \in Lucks : SetTruck(RecreateSign(t, st, order, luck))
  BY <1>3 DEF RecreateSignForVisualTest, Lucks
<1>5. PICK u : u = RecreateSign(t, st, order, luck)
  OBVIOUS
<1>6. GenOK(t) /\ st \in Stations \cap t.s.live /\ stationName[st] \in Texts
  BY <1>1, <1>2, <1>3 DEF ModuleOK
<1>7. Served(t, u, st) /\ (Current(t, stationName, {}) => Current(u, stationName, {}))
  BY <1>5, <1>6, RecreateSignIs
<1>8. Served(Truck, u, st) /\ Current(u, stationName', {}) /\ SetTruck(u)
  BY <1>1, <1>2, <1>3, <1>4, <1>5, <1>7
<1>9. QED
  BY <1>1, <1>2, <1>8, ServedKeeps DEF ModuleOK
\* The actors after the engine has taken a station whose sign is gone.
Leaves(e, st) == [e EXCEPT !.s = Destroy(e.s, st), !.refused = e.refused \ {st}]
LEMMA StationGone ==
    ASSUME NEW e, GenOK(e), NEW st \in Stations \cap e.s.live, Cleared(e, st),
           NEW u, u = Leaves(e, st)
    PROVE  /\ GenOK(u) /\ u.s.live = e.s.live \ {st}
           /\ u.generation = e.generation /\ u.ownership = e.ownership
           /\ u.refused = e.refused \ {st}
           /\ \A g \in StationSigns \cap u.s.live :
                 u.s.owner[g] = e.s.owner[g] /\ u.s.text[g] = e.s.text[g]
           /\ Matched(e.s) => Matched(u.s)
<1>1. PICK s, n, o, a, r : e = [s |-> s, generation |-> n, ownership |-> o, appliedNames |-> a, refused |-> r]
  BY DEF GenOK, TruckOK, TruckShape
<1>2. /\ Still(s) /\ Sound(s) /\ st \in Stations \cap s.live /\ st \notin s.dying /\ None \notin s.live
      /\ ActorsOK(s)
  BY <1>1, Kinds DEF GenOK, Still, Sound, ActorsOK, Addresses
<1>3. PICK d : d = Destroy(s, st)
  OBVIOUS
<1>4. PICK q : q = r \ {st}
  OBVIOUS
<1>5. Takes(s, d, {st})
  BY <1>2, <1>3, StationDestroyed
<1>6. u = [e EXCEPT !.s = d, !.refused = q]
  BY <1>1, <1>3, <1>4 DEF Leaves
<1>7. u = [s |-> d, generation |-> n, ownership |-> o, appliedNames |-> a, refused |-> q]
  BY <1>1, <1>6
<1>8. Still(d) /\ d.live = s.live \ {st}
  BY <1>2, <1>5, TakesSound, TakesStill
<1>9. /\ Tracked(s, o) /\ Named(s, a) /\ DOMAIN a \subseteq StationSigns
      /\ DOMAIN o \subseteq Stations /\ \A k \in DOMAIN o : o[k] \in StationSigns \cup {None}
      /\ ~authority => StationSigns \cap s.live = {}
      /\ \A g \in StationSigns \cap s.live : s.owner[g] # st
  BY <1>1 DEF GenOK, TruckOK, Cleared
<1>10. \A g \in StationSigns \cap d.live : d.owner[g] = s.owner[g] /\ d.text[g] = s.text[g]
  <2>1. PICK F \in SUBSET (Sources \cup {None}) : Removed(s, d, {st}, F)
    BY <1>5 DEF Takes
  <2>2. /\ StationSigns \subseteq DOMAIN s.owner /\ StationSigns \subseteq DOMAIN s.text
        /\ st \notin StationSigns
    BY <1>2, Kinds DEF ActorsOK, AllSigns, Sources
  <2>3. QED
    BY <1>8, <1>9, <2>1, <2>2 DEF Removed
<1>11. Tracked(d, o)
  <2>1. ASSUME NEW g \in StationSigns \cap d.live
        PROVE  d.owner[g] \in Stations \cap d.live /\ At(o, d.owner[g]) = g
    BY <1>8, <1>9, <1>10 DEF Tracked
  <2>2. ASSUME NEW k \in DOMAIN o, o[k] \in d.live PROVE d.owner[o[k]] = k
    <3>1. PICK g : g = o[k]
      OBVIOUS
    <3>2. g \in StationSigns \cap d.live /\ s.owner[g] = k
      BY <1>2, <1>8, <1>9, <2>2, <3>1 DEF Tracked
    <3>3. QED
      BY <1>10, <3>1, <3>2
  <2>3. QED
    BY <2>1, <2>2 DEF Tracked
<1>12. Named(d, a)
  BY <1>8, <1>9, <1>10 DEF Named
<1>13. GenOK(u)
  <2>1. TruckShape(u) /\ u.s = d /\ u.ownership = o /\ u.appliedNames = a
    BY <1>7 DEF TruckShape
  <2>2. QED
    BY <1>8, <1>9, <1>11, <1>12, <2>1 DEF GenOK, TruckOK
<1>14. Matched(s) => Matched(d)
  <2>1. Sound(d) /\ DOMAIN d.liftsBySource \subseteq DOMAIN s.liftsBySource
        /\ \A g \in DOMAIN d.liftsBySource : d.liftsBySource[g] = s.liftsBySource[g]
    BY <1>2, <1>5, TakesSound
  <2>2. \A g \in DOMAIN d.liftsBySource : d.liftsBySource[g] \notin {st}
    BY <1>2, <2>1, Kinds DEF ActorsOK
  <2>3. QED
    BY <1>2, <1>5, <2>2, TakesMatched
<1>15. QED
  BY <1>1, <1>4, <1>7, <1>8, <1>10, <1>13, <1>14

LEMMA DismantleStationKeeps ==
    ASSUME Inv, NEW st \in Stations, DismantleStation(st)
    PROVE  Inv'
<1>1. /\ phase = "play" /\ st \in Stations \cap actors.live /\ UnchangedWorld
      /\ stationName' = stationName /\ UNCHANGED <<mapLoadInProgress, controller>>
      /\ initialization' = IF initialization = None THEN None ELSE ReplaceAll(initialization, st, None)
  BY DEF DismantleStation
<1>2. /\ GenOK(Truck) /\ Current(Truck, stationName, {}) /\ ModuleOK /\ NoStationForgotten
      /\ Truck.s = actors /\ (initialized => Matched(actors))
      /\ Truck.generation = generation /\ Truck.ownership = ownership /\ Truck.refused = refused
  BY <1>1, StationsAre
<1>3. PICK t : t = Truck
  OBVIOUS
<1>4. PICK e : e = IF controller THEN OnStationDestroyed(t, st) ELSE t
  OBVIOUS
<1>5. /\ GenOK(e) /\ Cleared(e, st) /\ SeenBelow(actors, e.s)
      /\ e.generation = generation /\ e.refused = refused
      /\ DOMAIN ownership \ {st} \subseteq DOMAIN e.ownership
      /\ Matched(actors) => Matched(e.s)
  <2>1. CASE controller
    <3>1. GenOK(t) /\ e = OnStationDestroyed(t, st)
      BY <1>2, <1>3, <1>4, <2>1
    <3>2. /\ GenOK(e) /\ Cleared(e, st) /\ SeenBelow(t.s, e.s)
          /\ e.generation = t.generation /\ e.refused = t.refused
          /\ DOMAIN e.ownership = DOMAIN t.ownership \ {st}
          /\ Matched(t.s) => Matched(e.s)
      BY <3>1, OnStationDestroyedIs
    <3>3. QED
      BY <1>2, <1>3, <3>2
  <2>2. CASE ~controller
    <3>1. e = t /\ StationSigns \cap t.s.live = {}
      BY <1>2, <1>3, <1>4, <2>2 DEF ModuleOK
    <3>2. QED
      BY <1>2, <1>3, <3>1 DEF Cleared, SeenBelow
  <2>3. QED
    BY <2>1, <2>2
<1>6. PICK u : u = Leaves(e, st)
  OBVIOUS
<1>7. SetTruck(u)
  BY <1>3, <1>4, <1>6 DEF DismantleStation, Leaves
<1>8. st \in Stations \cap e.s.live
  BY <1>1, <1>5 DEF SeenBelow
<1>9. /\ GenOK(u) /\ u.s.live = e.s.live \ {st}
      /\ u.generation = e.generation /\ u.ownership = e.ownership
      /\ u.refused = e.refused \ {st}
      /\ \A g \in StationSigns \cap u.s.live :
            u.s.owner[g] = e.s.owner[g] /\ u.s.text[g] = e.s.text[g]
      /\ Matched(e.s) => Matched(u.s)
  BY <1>5, <1>6, <1>8, StationGone
<1>10. Current(u, stationName', {})
  <2>1. SUFFICES ASSUME u.generation, NEW g \in StationSigns \cap u.s.live
                 PROVE  u.s.text[g] = stationName[u.s.owner[g]]
    BY <1>1 DEF Current
  <2>2. /\ g \in actors.live /\ u.s.owner[g] = actors.owner[g] /\ u.s.text[g] = actors.text[g]
    BY <1>5, <1>9 DEF SeenBelow
  <2>3. QED
    BY <1>2, <1>5, <1>9, <2>1, <2>2 DEF Current
<1>11. initialization' # None =>
          /\ controller /\ initialization' \in Seq(Stations \cup {None})
          /\ initialization # None /\ initialization \in Seq(Stations \cup {None})
          /\ initialization' = ReplaceAll(initialization, st, None)
  <2>1. SUFFICES ASSUME initialization # None
                 PROVE  controller /\ initialization \in Seq(Stations \cup {None})
                        /\ ReplaceAll(initialization, st, None) \in Seq(Stations \cup {None})
    BY <1>1
  <2>2. controller /\ initialization \in Seq(Stations \cup {None})
    BY <1>2, <2>1 DEF ModuleOK
  <2>3. PICK q : q = initialization
    OBVIOUS
  <2>4. q \in Seq(Stations \cup {None}) /\ Len(q) \in Nat
        /\ \A i \in 1 .. Len(q) : q[i] \in Stations \cup {None}
    BY <2>2, <2>3
  <2>5. PICK r : r = ReplaceAll(q, st, None)
    OBVIOUS
  <2>6. r \in [1 .. Len(q) -> Stations \cup {None}]
    BY <2>4, <2>5 DEF ReplaceAll
  <2>7. r \in Seq(Stations \cup {None})
    BY <2>4, <2>6
  <2>8. QED
    BY <2>2, <2>3, <2>5, <2>7
<1>12. ASSUME controller, u.generation, authority, NEW k \in Stations \cap u.s.live
       PROVE  \/ k \in DOMAIN u.ownership \cup u.refused
              \/ initialization' # None /\ Contains(initialization', k)
  <2>1. k \in Stations \cap actors.live /\ k # st /\ generation
    BY <1>5, <1>9, <1>12 DEF SeenBelow
  <2>2. k \in DOMAIN ownership \cup refused \/ (initialization # None /\ Contains(initialization, k))
    BY <1>1, <1>2, <1>12, <2>1 DEF NoStationForgotten, InPlay
  <2>3. CASE k \in DOMAIN ownership \cup refused
    BY <1>5, <1>9, <2>1, <2>3
  <2>4. CASE initialization # None /\ Contains(initialization, k)
    <3>1. PICK q : q = initialization
      OBVIOUS
    <3>2. q \in Seq(Stations \cup {None}) /\ q # None /\ Contains(q, k)
      BY <1>2, <2>4, <3>1 DEF ModuleOK
    <3>3. PICK r : r = ReplaceAll(q, st, None)
      OBVIOUS
    <3>4. initialization' = r
      BY <1>1, <3>1, <3>2, <3>3
    <3>5. PICK i \in 1 .. Len(q) : q[i] = k
      BY <3>2 DEF Contains
    <3>6. r \in [1 .. Len(q) -> Stations \cup {None}] /\ r[i] = k
      BY <2>1, <3>2, <3>3, <3>5 DEF ReplaceAll
    <3>7. r \in Seq(Stations \cup {None}) /\ Len(r) = Len(q)
      BY <3>2, <3>6
    <3>8. r # None /\ Contains(r, k)
      BY <3>5, <3>6, <3>7, Kinds DEF Contains
    <3>9. QED
      BY <3>4, <3>8
  <2>5. QED
    BY <2>2, <2>3, <2>4
<1>13. /\ TruckInstalled
       /\ StationSigns \cap u.s.live # {} => controller
       /\ initialized => Matched(u.s)
       /\ stationName' \in [Stations -> Texts]
  BY <1>1, <1>2, <1>5, <1>9 DEF ModuleOK, SeenBelow
<1>14. QED
  BY <1>1, <1>7, <1>9, <1>10, <1>11, <1>12, <1>13, StationStep

LEMMA TickKeeps ==
    ASSUME Inv, TickStationInitialization
    PROVE  Inv'
<1>1. /\ phase = "play" /\ initialization # None /\ UnchangedWorld
      /\ stationName' = stationName /\ UNCHANGED <<mapLoadInProgress, controller>>
  BY DEF TickStationInitialization
<1>2. PICK n \in 0 .. Len(initialization), order \in ActorOrders, luck \in Lucks :
          /\ SetTruck(Initialized(n, order, luck))
          /\ initialization' = IF n = Len(initialization) THEN None
                               ELSE SubSeq(initialization, n + 1, Len(initialization))
  BY DEF TickStationInitialization
<1>3. /\ GenOK(Truck) /\ Current(Truck, stationName, {}) /\ ModuleOK /\ NoStationForgotten
      /\ Truck.s = actors /\ (initialized => Matched(actors))
      /\ Truck.generation = generation /\ Truck.ownership = ownership /\ Truck.refused = refused
  BY <1>1, StationsAre
<1>4. PICK t : t = Truck
  OBVIOUS
<1>5. PICK q : q = initialization
  OBVIOUS
<1>6. /\ q \in Seq(Stations \cup {None}) /\ controller /\ stationName \in [Stations -> Texts]
      /\ TruckInstalled
  BY <1>1, <1>3, <1>5 DEF ModuleOK
<1>7. n \in Nat /\ \A j \in 1 .. n : initialization[j] \in Stations \cup {None}
  BY <1>5, <1>6
<1>8. PICK u : u = Initialized(n, order, luck)
  OBVIOUS
<1>9. /\ GenOK(u) /\ u.s.live \cap Stations = t.s.live \cap Stations
      /\ u.generation => t.generation
      /\ u.generation => DOMAIN t.ownership \cup t.refused \subseteq DOMAIN u.ownership \cup u.refused
      /\ authority /\ u.generation =>
            \A j \in 1 .. n : initialization[j] \in t.s.live \cap Stations =>
                                 initialization[j] \in DOMAIN u.ownership \cup u.refused
      /\ Matched(t.s) => Matched(u.s)
      /\ Current(u, stationName, {})
  BY <1>3, <1>4, <1>6, <1>7, <1>8, InitializedIs
<1>10. initialization' # None => initialization' \in Seq(Stations \cup {None})
  BY <1>2, <1>5, <1>6
<1>11. ASSUME controller, u.generation, authority, NEW k \in Stations \cap u.s.live
       PROVE  \/ k \in DOMAIN u.ownership \cup u.refused
              \/ initialization' # None /\ Contains(initialization', k)
  <2>1. k \in Stations \cap actors.live /\ generation
    BY <1>3, <1>4, <1>9, <1>11
  <2>2. k \in DOMAIN ownership \cup refused \/ Contains(initialization, k)
    BY <1>1, <1>3, <1>11, <2>1 DEF NoStationForgotten, InPlay
  <2>3. CASE k \in DOMAIN ownership \cup refused
    BY <1>3, <1>4, <1>9, <1>11, <2>3
  <2>4. CASE Contains(initialization, k)
    <3>1. PICK j \in 1 .. Len(q) : q[j] = k
      BY <1>5, <2>4 DEF Contains
    <3>2. CASE j \in 1 .. n
      BY <1>3, <1>4, <1>5, <1>9, <1>11, <2>1, <3>1, <3>2
    <3>3. CASE j \notin 1 .. n
      <4>1. PICK r : r = SubSeq(q, n + 1, Len(q))
        OBVIOUS
      <4>2. n \in 0 .. Len(q) /\ n # Len(q) /\ initialization' = r
        BY <1>2, <1>5, <3>1, <3>3, <4>1
      <4>3. /\ r \in Seq(Stations \cup {None}) /\ Len(r) = Len(q) - n
            /\ \A i \in 1 .. Len(r) : r[i] = q[n + i]
        <5>1. Len(q) \in Nat /\ n \in Nat /\ n + 1 \in 1 .. Len(q)
          BY <1>6, <4>2
        <5>2. r \in Seq(Stations \cup {None})
          BY <1>6, <4>1, <5>1
        <5>3. Len(r) = Len(q) - n
          BY <1>6, <4>1, <5>1
        <5>4. ASSUME NEW i \in 1 .. Len(r) PROVE r[i] = q[n + i]
          <6>1. i \in 1 .. Len(q) - n
            BY <5>3
          <6>2. r[i] = q[(n + 1) + i - 1]
            BY <1>6, <4>1, <5>1, <6>1
          <6>3. (n + 1) + i - 1 = n + i
            BY <5>1, <6>1
          <6>4. QED
            BY <6>2, <6>3
        <5>5. QED
          BY <5>2, <5>3, <5>4
      <4>4. j - n \in 1 .. Len(r) /\ r[j - n] = k
        <5>1. j - n \in 1 .. Len(r)
          BY <1>6, <3>1, <3>3, <4>2, <4>3
        <5>2. n + (j - n) = j
          BY <3>1, <4>2
        <5>3. QED
          BY <3>1, <4>3, <5>1, <5>2
      <4>5. r # None /\ Contains(r, k)
        BY <4>3, <4>4, Kinds DEF Contains
      <4>6. QED
        BY <4>2, <4>5
    <3>4. QED
      BY <3>2, <3>3
  <2>5. QED
    BY <2>2, <2>3, <2>4
<1>12. SetTruck(u) /\ Current(u, stationName', {}) /\ stationName' \in [Stations -> Texts]
  BY <1>1, <1>2, <1>6, <1>8, <1>9
<1>13. initialized => Matched(u.s)
  BY <1>3, <1>4, <1>9
<1>14. QED
  BY <1>1, <1>6, <1>9, <1>10, <1>11, <1>12, <1>13, StationStep
-----------------------------------------------------------------------------
(* The map's actions                                                        *)

LEMMA LeaveMapKeeps == ASSUME Inv, LeaveMap PROVE Inv'
<1>1. /\ phase # "ended" /\ phase' = "loading" /\ mods' = mods /\ initialRefresh' = initialRefresh
      /\ initialized' = FALSE /\ OnPreLoadMap
  BY DEF LeaveMap
<1>2. /\ ModuleOK /\ (~Conveyor => ~initialRefresh) /\ GenOK(Truck) /\ Truck.ownership = ownership
      /\ Truck.appliedNames = appliedNames /\ Sound(actors)
  BY <1>1, StationsAre DEF Still
<1>3. PICK u : u = [NoActors EXCEPT !.ignoredEndPlaySigns = actors.ignoredEndPlaySigns,
                                    !.mutated = actors.mutated]
  OBVIOUS
<1>4. u = [live |-> {}, dying |-> {}, owner |-> [g \in StationSigns \cup Mirrors |-> None],
           text |-> [g \in AllSigns |-> None], mirrorsBySource |-> << >>, liftsBySource |-> << >>,
           ignoredEndPlaySigns |-> actors.ignoredEndPlaySigns, iterated |-> FALSE,
           mutated |-> actors.mutated]
  BY <1>3 DEF NoActors
<1>5. /\ u.live = {} /\ u.dying = {} /\ DOMAIN u.owner = StationSigns \cup Mirrors
      /\ \A g \in StationSigns \cup Mirrors : u.owner[g] = None
      /\ DOMAIN u.text = AllSigns /\ u.mirrorsBySource = << >> /\ u.liftsBySource = << >>
      /\ u.ignoredEndPlaySigns = actors.ignoredEndPlaySigns /\ u.iterated = FALSE
      /\ u.mutated = actors.mutated /\ Shape(u)
  BY <1>2, <1>4 DEF Shape, Sound, ActorsOK
<1>6. actors' = u /\ Conveyor' = Conveyor /\ TruckInstalled' = TruckInstalled
  BY <1>1, <1>3 DEF LeaveMap, Conveyor, TruckInstalled
<1>7. DOMAIN u.mirrorsBySource = {} /\ DOMAIN u.liftsBySource = {}
  BY <1>5
<1>8. ActorsOK(u) /\ MirrorsLinked(u) /\ u.ignoredEndPlaySigns = {} /\ ~u.mutated
  BY <1>2, <1>5, <1>7 DEF ActorsOK, MirrorsLinked, Sound
<1>9. Sound(actors)' /\ Quiet'
  BY <1>5, <1>6, <1>8 DEF Sound, ActorsOK, MirrorsLinked, MirrorsHosted, Shape, Quiet, CascadesEnd
<1>10. /\ DOMAIN ownership' \subseteq Stations
       /\ \A st \in DOMAIN ownership' : ownership'[st] \in StationSigns \cup {None}
       /\ DOMAIN appliedNames' \subseteq StationSigns
  <2>1. /\ DOMAIN ownership \subseteq Stations
        /\ \A st \in DOMAIN ownership : ownership[st] \in StationSigns \cup {None}
        /\ DOMAIN appliedNames \subseteq StationSigns
    BY <1>2 DEF GenOK, TruckOK
  <2>2. CASE TruckInstalled
    <3>1. ownership' = << >> /\ appliedNames' = << >> /\ DOMAIN << >> = {}
      BY <1>1, <2>2 DEF OnPreLoadMap
    <3>2. QED
      BY <3>1
  <2>3. CASE ~TruckInstalled
    BY <1>1, <2>1, <2>3 DEF OnPreLoadMap, truckVars
  <2>4. QED
    BY <2>2, <2>3
<1>11. TruckOK(Truck)' /\ Current(Truck, stationName, {})'
  <2>1. PICK t : t = Truck'
    OBVIOUS
  <2>2. /\ TruckShape(t) /\ t.s = u /\ t.ownership = ownership' /\ t.appliedNames = appliedNames'
    BY <1>6, <2>1 DEF Truck, TruckShape
  <2>3. StationSigns \cap t.s.live = {} /\ t.s.live = {}
    BY <1>5, <2>2
  <2>4. Tracked(t.s, t.ownership) /\ Named(t.s, t.appliedNames) /\ Current(t, stationName', {})
    BY <2>3 DEF Tracked, Named, Current
  <2>5. QED
    BY <1>10, <2>1, <2>2, <2>3, <2>4 DEF TruckOK, TruckShape, Tracked, Named, Current
<1>12. ModuleOK'
  <2>1. \A S : S \cap actors'.live = {}
    BY <1>5, <1>6
  <2>2. stationName' = stationName /\ controller' = controller
    BY <1>1 DEF OnPreLoadMap, truckVars
  <2>3. pendingStations' \in Seq(Stations)
    <3>1. CASE TruckInstalled
      BY <1>1, <3>1 DEF OnPreLoadMap
    <3>2. CASE ~TruckInstalled
      BY <1>1, <1>2, <3>2 DEF OnPreLoadMap, truckVars, ModuleOK
    <3>3. QED
      BY <3>1, <3>2
  <2>4. initialization' # None => controller /\ initialization' \in Seq(Stations \cup {None})
    BY <1>1, <1>2 DEF OnPreLoadMap, truckVars, ModuleOK
  <2>5. QED
    BY <1>1, <1>2, <1>6, <2>1, <2>2, <2>3, <2>4 DEF ModuleOK
<1>13. NoStationForgotten'
  BY <1>1 DEF NoStationForgotten, InPlay
<1>14. Running'
  BY <1>1, <1>2, <1>6, <1>9, <1>11, <1>12, <1>13 DEF Running
<1>15. QED
  BY <1>9, <1>14 DEF Inv

LEMMA EnterMapKeeps ==
    ASSUME Inv, NEW map \in {"menu", "play"}, NEW assets \in BOOLEAN, EnterMap(map, assets)
    PROVE  Inv'
<1>1. /\ phase = "loading" /\ phase' = map /\ UNCHANGED <<actors, authority, mods, initialized>>
      /\ initialRefresh' = (initialRefresh \/ Conveyor) /\ OnPostLoadMap(map = "play", assets)
  BY DEF EnterMap, Conveyor
<1>2. /\ GenOK(Truck) /\ Current(Truck, stationName, {}) /\ ModuleOK /\ Truck.s = actors
      /\ Truck.generation = generation /\ Truck.ownership = ownership /\ Truck.refused = refused
      /\ Truck.appliedNames = appliedNames
      /\ (~Conveyor => ~initialRefresh) /\ ~initialized
  BY <1>1, StationsAre
<1>3. /\ UNCHANGED <<stationName, ownership, appliedNames, refused>>
      /\ controller' <=> controller \/ (TruckInstalled /\ map = "play" /\ assets)
      /\ generation' # generation => ~controller
      /\ controller => generation' = generation
  <2>1. CASE TruckInstalled
    BY <1>1, <2>1 DEF OnPostLoadMap
  <2>2. CASE ~TruckInstalled
    BY <1>1, <2>2 DEF OnPostLoadMap, truckVars
  <2>3. QED
    BY <2>1, <2>2
<1>4. PICK t : t = [s |-> actors, generation |-> generation', ownership |-> ownership,
                    appliedNames |-> appliedNames, refused |-> refused]
  OBVIOUS
<1>5. /\ t.s = actors /\ t.generation = generation' /\ t.ownership = ownership
      /\ t.appliedNames = appliedNames /\ t.refused = refused /\ TruckShape(t)
  BY <1>4 DEF TruckShape
<1>6. SetTruck(t)
  BY <1>1, <1>3, <1>5 DEF SetTruck
<1>7. GenOK(t)
  BY <1>2, <1>5 DEF GenOK, TruckOK
<1>8. Current(t, stationName', {})
  <2>1. CASE controller
    BY <1>2, <1>3, <1>5, <2>1 DEF Current
  <2>2. CASE ~controller
    <3>1. StationSigns \cap actors.live = {}
      BY <1>2, <2>2 DEF ModuleOK
    <3>2. QED
      BY <1>5, <3>1 DEF Current
  <2>3. QED
    BY <2>1, <2>2
<1>9. PICK q : q = pendingStations
  OBVIOUS
<1>10. /\ q \in Seq(Stations)
       /\ \A st \in Stations \cap actors.live : Contains(q, st)
  BY <1>1, <1>2, <1>9 DEF ModuleOK
<1>11. PICK i : i = IF initialization = None THEN << >> ELSE initialization
  OBVIOUS
<1>12. i \in Seq(Stations \cup {None})
  BY <1>2, <1>11 DEF ModuleOK
<1>13. PICK c : c = i \o q
  OBVIOUS
<1>14. /\ c \in Seq(Stations \cup {None}) /\ c # None
       /\ Len(c) = Len(i) + Len(q) /\ \A j \in 1 .. Len(q) : c[Len(i) + j] = q[j]
  <2>1. q \in Seq(Stations \cup {None})
    BY <1>10
  <2>2. c \in Seq(Stations \cup {None})
    BY <1>12, <1>13, <2>1
  <2>3. c # None
    BY <2>2, Kinds
  <2>4. Len(c) = Len(i) + Len(q)
    BY <1>12, <1>13, <2>1
  <2>5. \A j \in 1 .. Len(q) : c[Len(i) + j] = q[j]
    BY <1>12, <1>13, <2>1
  <2>6. QED
    BY <2>2, <2>3, <2>4, <2>5
<1>15. /\ ~TruckInstalled => initialization' = initialization /\ pendingStations' = q
       /\ TruckInstalled =>
            initialization' = IF map # "play" \/ ~controller' \/ q = << >> THEN initialization ELSE c
  BY <1>1, <1>9, <1>11, <1>13 DEF OnPostLoadMap, truckVars
<1>16. ModuleOK'
  <2>1. TruckInstalled' = TruckInstalled
    BY <1>1 DEF TruckInstalled
  <2>2. initialization' # None => controller' /\ initialization' \in Seq(Stations \cup {None})
    <3>1. initialization # None => controller /\ initialization \in Seq(Stations \cup {None})
      BY <1>2 DEF ModuleOK
    <3>2. CASE initialization' = initialization
      BY <1>3, <3>1, <3>2
    <3>3. CASE initialization' # initialization
      BY <1>14, <1>15, <3>3
    <3>4. QED
      BY <3>2, <3>3
  <2>3. TruckInstalled => mapLoadInProgress' = FALSE
    BY <1>1 DEF OnPostLoadMap
  <2>4. controller' => TruckInstalled
    BY <1>2, <1>3 DEF ModuleOK
  <2>5. ~TruckInstalled => pendingStations' \in Seq(Stations)
    BY <1>10, <1>15
  <2>6. phase' # "loading" /\ actors' = actors /\ stationName' = stationName
    BY <1>1, <1>3
  <2>7. /\ Stations \cap actors.live # {} => TruckInstalled
        /\ StationSigns \cap actors.live # {} => controller'
        /\ stationName \in [Stations -> Texts]
    BY <1>2, <1>3 DEF ModuleOK
  <2>8. QED
    BY <2>1, <2>2, <2>3, <2>4, <2>5, <2>6, <2>7 DEF ModuleOK
<1>17. NoStationForgotten'
  <2>1. SUFFICES ASSUME map = "play", controller', generation', authority,
                        NEW st \in Stations \cap actors.live
                 PROVE  initialization' # None /\ Contains(initialization', st)
    BY <1>1 DEF NoStationForgotten, InPlay
  <2>2. TruckInstalled
    BY <1>2, <2>1 DEF ModuleOK
  <2>3. PICK j \in 1 .. Len(q) : q[j] = st
    BY <1>10 DEF Contains
  <2>4. Len(q) \in Nat /\ Len(i) \in Nat
    BY <1>10, <1>12
  <2>5. q # << >>
    BY <2>3, <2>4
  <2>6. initialization' = c
    BY <1>15, <2>1, <2>2, <2>5
  <2>7. Len(i) + j \in 1 .. Len(c) /\ c[Len(i) + j] = st
    BY <1>14, <2>3, <2>4
  <2>8. Contains(c, st)
    BY <2>7 DEF Contains
  <2>9. QED
    BY <1>14, <2>6, <2>8
<1>18. /\ authority' = authority /\ mods' = mods /\ (~Conveyor => ~initialRefresh')
       /\ initialized' => ~initialRefresh' /\ Matched(t.s)
       /\ phase' = "loading" => ~initialized'
  BY <1>1, <1>2
<1>19. QED
  BY <1>6, <1>7, <1>8, <1>16, <1>17, <1>18, RunningAfter

LEMMA ShutdownKeeps == ASSUME Inv, Shutdown PROVE Inv'
<1>1. phase # "ended" /\ phase' = "ended"
  BY DEF Shutdown
<1>2. Still(actors) /\ Sound(actors)
  BY <1>1, StationsAre DEF Still
<1>3. Quiet'
  <2>1. CASE Conveyor
    <3>1. PICK u : u = ResetMirrors(actors)
      OBVIOUS
    <3>2. actors' = u
      BY <2>1, <3>1 DEF Shutdown, ShutdownMirrors, Conveyor
    <3>3. u.dying = {} /\ u.ignoredEndPlaySigns = {} /\ u.iterated = FALSE /\ ~u.mutated
      BY <1>2, <2>1, <3>1, ResetQuiet
    <3>4. QED
      BY <3>2, <3>3 DEF Quiet, CascadesEnd
  <2>2. CASE ~Conveyor
    <3>1. actors' = actors
      BY <2>2 DEF Shutdown, Conveyor
    <3>2. QED
      BY <1>2, <3>1 DEF Quiet, CascadesEnd, Still, Sound
  <2>3. QED
    BY <2>1, <2>2
<1>4. QED
  BY <1>1, <1>3 DEF Inv
-----------------------------------------------------------------------------
(* The theorems                                                             *)

LEMMA InitInv == ASSUME Init PROVE Inv
<1>1. /\ mods \in Installations /\ phase = "menu" /\ authority = TRUE /\ actors = NoActors
      /\ initialized = FALSE /\ initialRefresh = FALSE /\ stationName \in [Stations -> Texts]
      /\ pendingStations = << >> /\ controller = FALSE /\ generation = FALSE /\ initialization = None
      /\ ownership = << >> /\ appliedNames = << >> /\ refused = {}
  BY DEF Init
<1>2. /\ actors.live = {} /\ actors.dying = {} /\ DOMAIN actors.owner = StationSigns \cup Mirrors
      /\ \A g \in StationSigns \cup Mirrors : actors.owner[g] = None
      /\ DOMAIN actors.text = AllSigns /\ actors.mirrorsBySource = << >>
      /\ actors.liftsBySource = << >> /\ actors.ignoredEndPlaySigns = {}
      /\ actors.iterated = FALSE /\ actors.mutated = FALSE /\ Shape(actors)
  BY <1>1 DEF NoActors, Shape
<1>3. DOMAIN actors.mirrorsBySource = {} /\ DOMAIN actors.liftsBySource = {}
  BY <1>2
<1>4. ActorsOK(actors) /\ MirrorsLinked(actors) /\ MirrorsHosted(actors)
  BY <1>2, <1>3 DEF ActorsOK, MirrorsLinked, MirrorsHosted
<1>5. Sound(actors) /\ Quiet
  BY <1>2, <1>4 DEF Sound, Quiet, CascadesEnd
<1>6. TruckOK(Truck) /\ Current(Truck, stationName, {})
  <2>1. PICK t : t = Truck
    OBVIOUS
  <2>2. /\ TruckShape(t) /\ t.s = actors /\ t.ownership = << >> /\ t.appliedNames = << >>
        /\ t.generation = FALSE
    BY <1>1, <2>1 DEF Truck, TruckShape
  <2>3. DOMAIN t.ownership = {} /\ DOMAIN t.appliedNames = {} /\ t.s.live = {}
    BY <1>2, <2>2
  <2>4. TruckOK(t) /\ Current(t, stationName, {})
    BY <2>2, <2>3 DEF TruckOK, Tracked, Named, Current
  <2>5. QED
    BY <2>1, <2>4
<1>7. ModuleOK /\ NoStationForgotten
  BY <1>1, <1>2 DEF ModuleOK, NoStationForgotten, InPlay
<1>8. Running
  BY <1>1, <1>5, <1>6, <1>7 DEF Running
<1>9. QED
  BY <1>5, <1>8 DEF Inv

LEMMA NextInv == ASSUME Inv, [Next]_vars PROVE Inv'
<1>1. CASE UNCHANGED vars
  <2>1. UNCHANGED <<actors, phase, authority, mods, initialized, initialRefresh>> /\ UNCHANGED truckVars
    BY <1>1 DEF vars, worldVars, mirrorVars
  <2>2. CASE phase = "ended"
    BY <2>1, <2>2 DEF Inv, Quiet, CascadesEnd
  <2>3. CASE phase # "ended"
    <3>1. /\ Still(actors) /\ (initialized => ~initialRefresh /\ Matched(actors))
          /\ ~Conveyor => ~initialRefresh
          /\ phase = "loading" => ~initialized
      BY <2>3, SceneIs
    <3>2. SeenBelow(actors, actors)
      BY DEF SeenBelow
    <3>3. UNCHANGED <<worldVars, truckVars>>
      BY <2>1 DEF worldVars
    <3>4. QED
      BY <2>1, <2>3, <3>1, <3>2, <3>3, SceneKept
  <2>4. QED
    BY <2>2, <2>3
<1>2. CASE PlayerSigns /\ UNCHANGED truckVars
  BY <1>2, BuildSignKeeps, EditSignKeeps, LiftKeeps, DismantleKeeps DEF PlayerSigns
<1>3. CASE RunInitialRefresh /\ UNCHANGED truckVars
  BY <1>3, RunInitialRefreshKeeps
<1>4. CASE StationsNext
  BY <1>4, LoadStationKeeps, BuildStationKeeps, RenameStationKeeps, DismantleStationKeeps,
     RecreateSignKeeps, TickKeeps DEF StationsNext
<1>5. CASE MapNext
  BY <1>5, LeaveMapKeeps, ShutdownKeeps, LoadSignKeeps, LiftKeeps, LoadMirrorKeeps,
     EnterMapKeeps DEF MapNext
<1>6. QED
  BY <1>1, <1>2, <1>3, <1>4, <1>5 DEF Next

\* Every state keeps the invariant.
THEOREM SignsInvariant == Spec => []Inv
<1>1. Init => Inv
  BY InitInv
<1>2. Inv /\ [Next]_vars => Inv'
  BY NextInv
<1>3. QED
  BY <1>1, <1>2, PTL DEF Spec

\* A station's sign belongs to a station that stands and that has no other,
\* for any stations and signs: Tracked, kept by spawning, by both searches for
\* a sign and by OnStationDestroyed.
THEOREM OneSignTheorem == Spec => []OneSignPerStation
<1>1. Inv => OneSignPerStation
  <2>1. SUFFICES ASSUME Inv, InPlay PROVE OneSignPerStation
    BY DEF OneSignPerStation
  <2>2. GenOK(Truck) /\ Truck.s = actors /\ Truck.ownership = ownership
    BY <2>1, StationsAre DEF InPlay
  <2>3. Tracked(actors, ownership)
    BY <2>2 DEF GenOK, TruckOK
  <2>4. QED
    BY <2>3 DEF Tracked, OneSignPerStation
<1>2. QED
  BY <1>1, SignsInvariant, PTL

\* A station's sign shows the present name: Current, with the station that is
\* being served left out until it is.
THEOREM SignShowsNameTheorem == Spec => []SignShowsName
<1>1. Inv => SignShowsName
  <2>1. SUFFICES ASSUME Inv, InPlay PROVE SignShowsName
    BY DEF SignShowsName
  <2>2. Current(Truck, stationName, {}) /\ Truck.s = actors /\ Truck.generation = generation
    BY <2>1, StationsAre DEF InPlay
  <2>3. QED
    BY <2>2 DEF Current, SignShowsName
<1>2. QED
  BY <1>1, SignsInvariant, PTL

\* After the initial refresh every mirror shows what its one source shows:
\* Matched, kept by every cascade and every new mirror.
THEOREM MirrorTheorem == Spec => []MirrorMatchesSource
<1>1. Inv => MirrorMatchesSource
  <2>1. SUFFICES ASSUME Inv, InPlay, initialized PROVE MirrorMatchesSource
    BY DEF MirrorMatchesSource
  <2>2. Matched(actors)
    BY <2>1, StationsAre DEF InPlay
  <2>3. QED
    BY <2>2 DEF Matched, MatchedAt, MirrorMatchesSource
<1>2. QED
  BY <1>1, SignsInvariant, PTL

\* No callback leaves a sign to be ignored, an actor that is still dying or a
\* map that was changed while it was iterated.
THEOREM CascadesTheorem == Spec => []CascadesEnd
<1>1. Inv => CascadesEnd
  BY DEF Inv, Quiet
<1>2. QED
  BY <1>1, SignsInvariant, PTL

\* No station is forgotten, however the map's loading, the queue and the
\* ticker interleave.
THEOREM NoStationForgottenTheorem == Spec => []NoStationForgotten
<1>1. Inv => NoStationForgotten
  <2>1. SUFFICES ASSUME Inv, InPlay PROVE NoStationForgotten
    BY DEF NoStationForgotten
  <2>2. QED
    BY <2>1, StationsAre DEF InPlay
<1>2. QED
  BY <1>1, SignsInvariant, PTL

-----------------------------------------------------------------------------
(* Dismantling                                                              *)

LEMMA DestroyTakesGroup ==
    ASSUME Inv, authority, NEW a \in Signs \cup Mirrors \cup Lifts, Dismantle(a)
    PROVE  actors'.live = actors.live \ Group(a)
<1>1. phase = "play" /\ a \in actors.live /\ actors' = Destroy(actors, a)
  BY DEF Dismantle
<1>2. /\ Still(actors) /\ Sound(actors) /\ ~actors.iterated /\ actors.dying = {}
      /\ ActorsOK(actors) /\ MirrorsLinked(actors) /\ None \notin actors.live
  BY <1>1, SceneIs, Kinds DEF Still, Sound, ActorsOK, Addresses
<1>3. PICK s : s = actors
  OBVIOUS
<1>4. PICK t : t = Destroy(s, a)
  OBVIOUS
<1>5. \A g : Pair(g) = PairOf(s, g)
  BY <1>3 DEF Pair, PairOf
<1>6. CASE a \in AllSigns
  <2>1. Takes(s, t, Companions(s, a))
    BY <1>1, <1>2, <1>3, <1>4, <1>6, SignDestroyed
  <2>2. t.live = s.live \ Companions(s, a)
    BY <1>2, <1>3, <2>1, TakesSound
  <2>3. a \notin Lifts
    BY <1>6, Kinds
  <2>4. CASE a \in Mirrors
    <3>1. PICK g : g = s.owner[a]
      OBVIOUS
    <3>2. Companions(s, a) = {a, g} \cap s.live /\ (g # None => g \in s.live)
      BY <1>1, <1>2, <1>3, <2>4, <3>1 DEF Companions, PartnerOf, MirrorsLinked
    <3>3. \A x \in Mirrors \cap s.live : MirrorOf(s, g) = x => x = a
      <4>1. SUFFICES ASSUME NEW x \in Mirrors \cap s.live, MirrorOf(s, g) = x PROVE x = a
        OBVIOUS
      <4>2. g \in DOMAIN s.mirrorsBySource /\ x = s.mirrorsBySource[g] /\ x # None
        BY <1>2, <1>3, <4>1, MirrorOfIs
      <4>3. s.owner[x] = g /\ g # None
        BY <1>2, <1>3, <4>1, <4>2, Kinds DEF MirrorsLinked, ActorsOK, AllSigns
      <4>4. QED
        BY <1>1, <1>2, <1>3, <2>4, <3>1, <4>1, <4>3 DEF MirrorsLinked
    <3>4. Group(a) = {a} \cup UNION {PairOf(s, h) : h \in {g} \ {None}}
      BY <1>3, <1>5, <2>3, <2>4, <3>1 DEF Group
    <3>5. s.live \ Group(a) = s.live \ Companions(s, a)
      BY <3>2, <3>3, <3>4, <1>2, <1>3 DEF PairOf
    <3>6. QED
      BY <1>1, <1>3, <1>4, <2>2, <3>5
  <2>5. CASE a \notin Mirrors
    <3>1. Companions(s, a) = {a, MirrorOf(s, a)} \cap s.live
      BY <2>5 DEF Companions, PartnerOf
    <3>2. MirrorOf(s, a) \in (Mirrors \cap s.live) \cup {None}
      BY <1>2, <1>3, MirrorOfIs
    <3>3. Group(a) = PairOf(s, a)
      BY <1>5, <2>3, <2>5 DEF Group
    <3>4. s.live \ Group(a) = s.live \ Companions(s, a)
      BY <1>2, <1>3, <3>1, <3>2, <3>3 DEF PairOf
    <3>5. QED
      BY <1>1, <1>3, <1>4, <2>2, <3>4
  <2>6. QED
    BY <2>4, <2>5
<1>7. CASE a \in Lifts
  <2>1. PICK S : S = {g \in DOMAIN s.liftsBySource : s.liftsBySource[g] = a}
    OBVIOUS
  <2>2. Conveyor
    BY <1>1, <1>2, <1>7 DEF Sound, MirrorsHosted
  <2>3. PICK gone \in SUBSET AllSigns :
            Takes(s, t, gone \cup {a}) /\ S \cap s.live \subseteq gone /\ gone \subseteq PairsOf(s, S \cap s.live)
    <3>1. /\ Sound(s) /\ ~s.iterated /\ s.dying \cap AllSigns = {} /\ a \in Lifts \cap s.live
          /\ a \notin s.dying
      BY <1>1, <1>2, <1>3, <1>7
    <3>2. \E gone \in SUBSET AllSigns :
              /\ Takes(s, Destroy(s, a), gone \cup {a})
              /\ Conveyor =>
                    /\ S \cap DOMAIN Destroy(s, a).liftsBySource = {}
                    /\ authority => S \cap s.live \subseteq gone
              /\ gone \subseteq PairsOf(s, S \cap s.live)
      BY <2>1, <3>1, LiftDestroyed
    <3>3. QED
      BY <1>4, <2>2, <3>2
  <2>4. t.live = s.live \ (gone \cup {a})
    BY <1>2, <1>3, <2>3, TakesSound
  <2>5. S \subseteq Sources
    BY <1>2, <1>3, <2>1 DEF ActorsOK
  <2>6. gone = PairsOf(s, S \cap s.live)
    <3>1. SUFFICES ASSUME NEW g \in S \cap s.live, NEW x \in Mirrors \cap s.live, MirrorOf(s, g) = x
                   PROVE  x \in gone
      BY <2>3 DEF PairsOf, PairOf
    <3>2. Cut(s, gone \cup {a}, {}) \/ \E F : Cut(s, gone \cup {a}, F)
      BY <2>3 DEF Takes
    <3>3. MirrorOf(s, g) \in gone \cup {a} \cup {None}
      BY <2>3, <2>5, <3>2 DEF Cut
    <3>4. x # a /\ x # None
      BY <1>7, Kinds DEF AllSigns
    <3>5. QED
      BY <3>1, <3>3, <3>4
  <2>7. {h \in Sources \cap s.live : At(s.liftsBySource, h) = a} = S \cap s.live
    BY <1>7, <2>1, <2>5, Kinds DEF At
  <2>8. Group(a) = {a} \cup UNION {PairOf(s, g) : g \in S \cap s.live}
    BY <1>3, <1>5, <1>7, <2>7 DEF Group
  <2>9. QED
    BY <1>1, <1>3, <1>4, <2>4, <2>6, <2>8 DEF PairsOf
<1>8. QED
  BY <1>6, <1>7 DEF AllSigns, Sources

LEMMA RefreshKeepsSources ==
    ASSUME Inv, initialRefresh, RunInitialRefresh
    PROVE  actors'.live \cap Sources = actors.live \cap Sources
<1>1. phase \in {"menu", "play"}
  BY DEF RunInitialRefresh
<1>2. Still(actors) /\ Conveyor /\ ~initialized
  BY <1>1, SceneIs
<1>3. CASE authority
  <2>1. PICK order \in ActorOrders, luck \in Lucks : actors' = RefreshWorld(actors, order, luck)
    BY <1>3 DEF RunInitialRefresh
  <2>2. PICK u : u = RefreshWorld(actors, order, luck)
    OBVIOUS
  <2>3. u.live \ Mirrors = actors.live \ Mirrors
    BY <1>2, <1>3, <2>2, RefreshWorldIs
  <2>4. QED
    BY <2>1, <2>2, <2>3, Kinds
<1>4. CASE ~authority
  BY <1>4 DEF RunInitialRefresh
<1>5. QED
  BY <1>3, <1>4

\* Dismantling a sign, a mirror or a lift takes exactly its group, for any
\* number of signs at a lift, and the initial refresh takes no sign.
THEOREM DismantledTheorem == Spec => DismantledTogether
<1> DEFINE A == /\ authority => \A a \in (Signs \cup Mirrors \cup Lifts) \cap (actors.live \ actors'.live) :
                      Dismantle(a) => actors'.live = actors.live \ Group(a)
                /\ initialRefresh /\ ~initialRefresh' /\ RunInitialRefresh =>
                      actors'.live \cap Sources = actors.live \cap Sources
<1>1. Inv => A
  BY DestroyTakesGroup, RefreshKeepsSources
<1>2. []Inv => [][A]_vars
  BY <1>1, PTL
<1>3. [][A]_vars <=> DismantledTogether
  BY DEF DismantledTogether
<1>4. QED
  BY <1>2, <1>3, SignsInvariant, PTL
=============================================================================
