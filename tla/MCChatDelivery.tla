--------------------------- MODULE MCChatDelivery ---------------------------
(* ChatDelivery on small instances: chats are interchangeable.  With room   *)
(* for one outcome one connection fills the table; with room for two, two    *)
(* connections race.                                                         *)
EXTENDS ChatDelivery

SomeConnections == [c \in PendingEventCapacities |-> c]
TwoConnections == [c \in PendingEventCapacities |-> 2]
Symmetry == Permutations(Chats)
=============================================================================
