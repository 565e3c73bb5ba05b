-------------------------- MODULE MCBridgeRequests --------------------------
(* BridgeRequests on small instances.  Every call has a request id of its   *)
(* own, or all share one (a caller that supplies it).                       *)
EXTENDS BridgeRequests, TLC

CONSTANTS c1, c2, r1, r2, k1, k2

OneClient == [c \in Calls |-> k1]
TwoClients == [c \in Calls |-> IF c = c1 THEN k1 ELSE k2]
OwnIds == [c \in Calls |-> IF c = c1 THEN r1 ELSE r2]
SharedId == [c \in Calls |-> r1]
=============================================================================
