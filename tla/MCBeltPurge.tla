----------------------------- MODULE MCBeltPurge -----------------------------
(* BeltPurge on small factories: a trunk leads to a splitter, which feeds   *)
(* two branches: one ends at a machine, the other ends open or leads back   *)
(* into the trunk.                                                          *)
EXTENDS BeltPurge, TLC

CONSTANTS trunk, feeder, spur, splitter, machine

Tree == [In |-> (trunk :> None @@ feeder :> splitter @@ spur :> splitter),
         Out |-> (trunk :> splitter @@ feeder :> machine @@ spur :> None)]
Loop == [In |-> (trunk :> spur @@ feeder :> splitter @@ spur :> splitter),
         Out |-> (trunk :> splitter @@ feeder :> machine @@ spur :> trunk)]
TreeAndLoop == {Tree, Loop}
Symmetry == Permutations(Purges)
=============================================================================
