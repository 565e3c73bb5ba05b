-------------------------- MODULE AtMostOnceCalls --------------------------
(***************************************************************************)
(* What the bridge promises the caller of a tool, whatever lies between    *)
(* the tool and the game (the result codes of                              *)
(* CodexBridge/Companion/BrokerBridgeToolTransport.cs): a command that may *)
(* change the game runs at most once; "done" is said only of a command     *)
(* that ran; a command that was refused has not run and never will.        *)
(***************************************************************************)
EXTENDS Naturals

CONSTANTS
    Calls,
    ReadOnlyCalls,      \* the calls the transport may send twice
    None                \* no answer yet

VARIABLES
    ran,                \* call -> times the game ran it
    answer              \* call -> what its caller was told

vars == <<ran, answer>>

Answer == {"done", "refused", "unknown"}

TypeOK ==
    /\ ran \in [Calls -> Nat]
    /\ answer \in [Calls -> Answer \cup {None}]

Init ==
    /\ ran = [c \in Calls |-> 0]
    /\ answer = [c \in Calls |-> None]

MaxRuns(c) == IF c \in ReadOnlyCalls THEN 2 ELSE 1

\* A refusal is final, except that a read-only call may be refused on its
\* second attempt while the first still lingers in the game.
Run(c) ==
    /\ ran[c] < MaxRuns(c)
    /\ answer[c] = "refused" => c \in ReadOnlyCalls
    /\ ran' = [ran EXCEPT ![c] = @ + 1]
    /\ UNCHANGED answer

Reply(c, a) ==
    /\ answer[c] = None
    /\ a = "done" => ran[c] > 0
    /\ a = "refused" => ran[c] = 0 \/ c \in ReadOnlyCalls
    /\ answer' = [answer EXCEPT ![c] = a]
    /\ UNCHANGED ran

Next == \E c \in Calls : Run(c) \/ \E a \in Answer : Reply(c, a)

Spec == Init /\ [][Next]_vars
=============================================================================
