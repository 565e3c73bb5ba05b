---------------------------- MODULE MCPathFinder ----------------------------
(* PathFinder on three nodes in a line.  Two segments between the outer      *)
(* nodes lead opposite ways and share a key; the direct way out is longer    *)
(* than the one through the middle.                                          *)
EXTENDS PathFinder

CONSTANTS a, b, c, ab, bc, ac, ca, v1, v2

Position == [n \in Nodes |-> CASE n = a -> 0 [] n = b -> 1 [] n = c -> 2]
Distance == [p \in Nodes \X Nodes |->
    LET d == Position[p[1]] - Position[p[2]] IN IF d < 0 THEN 0 - d ELSE d]
From == [s \in Segments |-> CASE s \in {ab, ac} -> a [] s = bc -> b [] s = ca -> c]
To == [s \in Segments |-> CASE s = ab -> b [] s \in {bc, ac} -> c [] s = ca -> a]
Lengths == [s \in Segments |-> CASE s \in {ab, bc} -> 1 [] s = ac -> 3 [] s = ca -> 2]
SomeRoutes == {<<a, c>>, <<a, b>>}
SomeNetworks == {{ab, bc, ca}}
SomeFleets == {[v \in {v1} |-> <<a, c>>]}
=============================================================================
