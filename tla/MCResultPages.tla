--------------------------- MODULE MCResultPages ---------------------------
(* ResultPages on small instances: readers of a kind are interchangeable.  *)
EXTENDS ResultPages, TLC

Symmetry == Permutations(TextReaders) \cup Permutations(ListReaders)
=============================================================================
