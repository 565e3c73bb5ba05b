-------------------------- MODULE MCRequestLedger --------------------------
(* RequestLedger on a small instance: two clients, two sequence numbers and *)
(* two request ids compete for a ledger smaller than their requests.        *)
EXTENDS RequestLedger, TLC

Symmetry ==
    Permutations(Clients) \cup Permutations(RequestIds) \cup Permutations(Responses)
=============================================================================
