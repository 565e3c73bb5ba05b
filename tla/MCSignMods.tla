----------------------------- MODULE MCSignMods -----------------------------
(* SignMods on a small map: a placed sign and a station's sign, two lifts   *)
(* that both may match, two stations.  Texts and stations are symmetric, no *)
(* definition chooses among them; signs and mirrors, which are chosen, are   *)
(* not.                                                                      *)
EXTENDS SignMods, TLC

CONSTANTS s1, g1, g2, l1, l2

NearBoth == {<<s1, l1>>, <<s1, l2>>, <<g1, l1>>}
OneOrBoth == {{"TruckStationSigns"}, {"ConveyorSigns"}, {"TruckStationSigns", "ConveyorSigns"}}
Symmetry == Permutations(Texts) \cup Permutations(Stations)
=============================================================================
