----------------------------- MODULE BeltPurge -----------------------------
(***************************************************************************)
(* Belt Purge (BeltPurgeService.cpp): a request gathers the network around *)
(* a conveyor or an attachment, and an operation then empties it, a batch  *)
(* per frame, while the factory keeps moving items.  Several operations    *)
(* may work on one network, each with a ticker of its own on the game      *)
(* thread: a callback, or a request, runs to its end before anything else  *)
(* moves (active), in one step for each turn of its loop.                  *)
(*                                                                         *)
(* A conveyor stands for its chain.  The items of a chain are a sequence,  *)
(* the lead item first; those of an inventory are counted.                 *)
(***************************************************************************)
EXTENDS Integers, Sequences, FiniteSets, SequencesExt

CONSTANTS
    Chains,             \* conveyor chains
    Attachments,        \* splitters and mergers
    Machines,           \* manufacturers and generators
    Wirings,            \* how they may be connected: records of In and Out
    Purges,             \* operations
    MaximumItemsPerTick,
    ChainCapacity, BufferCapacity,
    MaxItems,           \* bound on the items of the factory at first
    MaxEvents,          \* bound on requests, arriving items and losses together
    None                \* null; at the end of a chain: a machine outside the network

Inventories == Machines \cup Attachments
Places == Chains \cup Inventories
Kinds == {"sinkable", "protected"}

\* In and Out: what the first and the last conveyor of a chain connect to.
Wired(w) ==
    /\ w.In \in [Chains -> Places \cup {None}]
    /\ w.Out \in [Chains -> Places \cup {None}]
    /\ \A c, d \in Chains : w.Out[c] = d <=> w.In[d] = c

ASSUME PurgeAssumption ==
    /\ IsFiniteSet(Places)
    /\ Chains \cap Inventories = {} /\ Machines \cap Attachments = {}
    /\ \A w \in Wirings : Wired(w)
    /\ {MaximumItemsPerTick, ChainCapacity, BufferCapacity} \subseteq Nat \ {0}
    /\ {MaxItems, MaxEvents} \subseteq Nat

\* Null is no place and no operation, and no result.
ASSUME NoneAssumption == None \notin Places \cup Purges \cup {"complete"}

VARIABLES
    wire,               \* the wiring
    belt,               \* chain -> its items
    buffer,             \* inventory -> its items, by kind
    alive,              \* the places that exist
    world,              \* whether the world and its sink subsystem exist
    op,                 \* operation -> FBeltPurgeOperation
    active,             \* the operation on the game thread, or None
    events              \* requests, arrivals and losses so far

factoryVars == <<belt, buffer, alive, world>>
vars == <<wire, factoryVars, op, active, events>>

Event == events < MaxEvents /\ events' = events + 1

Count(items, kind) == Cardinality({k \in DOMAIN items : items[k] = kind})
Size(b) == b["sinkable"] + b["protected"]
ItemsIn(p) == IF p \in Chains THEN Len(belt[p]) ELSE Size(buffer[p])

Init ==
    /\ wire \in Wirings
    /\ belt \in [Chains -> UNION {[1 .. n -> Kinds] : n \in 0 .. ChainCapacity}]
    /\ buffer \in [Inventories -> [Kinds -> 0 .. BufferCapacity]]
    /\ \A p \in Inventories : Size(buffer[p]) <= BufferCapacity
    /\ MapThenSumSet(ItemsIn, Places) <= MaxItems
    /\ alive = Places
    /\ world = TRUE
    /\ op = [o \in Purges |->
               [phase |-> "none", start |-> None, pending |-> <<>>,
                chains |-> <<>>, machines |-> <<>>, attachments |-> <<>>,
                stopped |-> {}, inventory |-> 1, chain |-> 1, work |-> 0,
                removedThisPass |-> 0, initial |-> 0, removed |-> 0,
                whole |-> TRUE, result |-> None]]
    /\ active = None
    /\ events = 0

-----------------------------------------------------------------------------
(* The request: PurgeNetwork, GatherNetworkRecursive, GatherAttachmentRecursive *)

RequestPurge(o) ==
    /\ active = None /\ world /\ Event
    /\ op[o].phase = "none"
    /\ \E t \in (Chains \cup Attachments) \cap alive :
          op' = [op EXCEPT ![o].phase = "gathering", ![o].start = t, ![o].pending = <<t>>]
    /\ active' = o
    /\ UNCHANGED <<wire, factoryVars>>

\* Mutant of Neighbours: a chain is followed at its output end only.
NeighboursDownstream(n) ==
    IF n \in Chains THEN SetToSeq({wire.Out[n]} \cap alive)
    ELSE SetToSeq({c \in Chains \cap alive : wire.In[c] = n \/ wire.Out[c] = n})

\* Where the gathering goes on from a place, in order.  A machine is entered
\* at its inputs only.
Neighbours(n) ==
    IF n \in Chains
    THEN SetToSeq(({wire.In[n]} \cap alive) \ Machines) \o SetToSeq({wire.Out[n]} \cap alive)
    ELSE SetToSeq({c \in Chains \cap alive : wire.In[c] = n \/ wire.Out[c] = n})

Gathered(o) == ToSet(op[o].chains) \cup ToSet(op[o].attachments) \cup ToSet(op[o].machines)

\* One call of the recursion; pending holds the calls still to be made.
Gather(o) ==
    LET n == Head(op[o].pending)
        rest == Tail(op[o].pending)
    IN
    /\ active = o /\ op[o].phase = "gathering" /\ op[o].pending # <<>>
    /\ \/ /\ n \in Gathered(o)
          /\ op' = [op EXCEPT ![o].pending = rest]
       \/ /\ n \in Chains \ Gathered(o)
          /\ op' = [op EXCEPT ![o].pending = Neighbours(n) \o rest, ![o].chains = Append(@, n)]
       \/ /\ n \in Attachments \ Gathered(o)
          /\ op' = [op EXCEPT ![o].pending = Neighbours(n) \o rest, ![o].attachments = Append(@, n)]
       \/ /\ n \in Machines \ Gathered(o)
          /\ op' = [op EXCEPT ![o].pending = rest, ![o].machines = Append(@, n)]
    /\ UNCHANGED <<wire, factoryVars, active, events>>

\* The items found are the operation's budget, and its ticker is added.
\* (A target that exists is always found: there is a chain or an inventory.)
StartTicker(o) ==
    /\ active = o /\ op[o].phase = "gathering" /\ op[o].pending = <<>>
    /\ op' = [op EXCEPT ![o].phase = "running",
                        ![o].initial = MapThenSumSet(ItemsIn, Gathered(o))]
    /\ active' = None
    /\ UNCHANGED <<wire, factoryVars, events>>

-----------------------------------------------------------------------------
(* The operation: FBeltPurgeOperation::Tick                                 *)

Over(p, result) == [p EXCEPT !.phase = "over", !.result = result]
Finish(o, result) == op' = [op EXCEPT ![o] = Over(@, result)] /\ active' = None

Budget(o) == op[o].initial - op[o].removed
\* Mutant of InventoriesOf: the attachments' buffers are left out.
InventoriesOfMachines(o) == op[o].machines

InventoriesOf(o) == op[o].machines \o op[o].attachments
InInventories(o) == op[o].inventory <= Len(InventoriesOf(o))
InChains(o) == ~InInventories(o) /\ op[o].chain <= Len(op[o].chains)
Inventory(o) == InventoriesOf(o)[op[o].inventory]
Chain(o) == op[o].chains[op[o].chain]

BeginTick(o) ==
    /\ active = None /\ op[o].phase = "running"
    /\ IF world
       THEN active' = o /\ op' = [op EXCEPT ![o].work = 0]
       ELSE Finish(o, "world became invalid")
    /\ UNCHANGED <<wire, factoryVars, events>>

Looping(o) ==
    active = o /\ op[o].phase = "running" /\ op[o].work < MaximumItemsPerTick

\* The callback has done its share.  whole: the pass lies in one callback so far.
EndTick(o) ==
    /\ active = o /\ op[o].phase = "running" /\ op[o].work >= MaximumItemsPerTick
    /\ active' = None
    /\ op' = [op EXCEPT ![o].whole = @ /\ op[o].inventory = 1 /\ op[o].chain = 1
                                       /\ op[o].removedThisPass = 0]
    /\ UNCHANGED <<wire, factoryVars, events>>

BudgetExhausted(o) ==
    /\ Looping(o) /\ Budget(o) <= 0
    /\ Finish(o, "initial item budget exhausted")
    /\ UNCHANGED <<wire, factoryVars, events>>

\* Mutant of BatchLimit: only the callback's share.
BatchLimitOfTick(o) == MaximumItemsPerTick - op[o].work

BatchLimit(o) == Min({MaximumItemsPerTick - op[o].work, Budget(o)})

\* What a batch that removed n items adds up to.
Counted(p, n) ==
    [p EXCEPT !.removed = @ + n, !.removedThisPass = @ + n, !.work = @ + Max({1, n})]

\* RemoveEligibleInventoryItems.  The game may remove less than it is asked to.
DrainInventory(o) ==
    LET p == op[o]
        i == Inventory(o)
        expected == IF i \in alive THEN Min({buffer[i]["sinkable"], BatchLimit(o)}) ELSE 0
    IN
    /\ Looping(o) /\ Budget(o) > 0 /\ InInventories(o)
    /\ \E n \in 0 .. expected :
          /\ buffer' = [buffer EXCEPT ![i]["sinkable"] = @ - n]
          /\ IF n < expected
             THEN /\ op' = [op EXCEPT ![o] = Over(Counted(p, n), "inventory mutation failed")]
                  /\ active' = None
             ELSE /\ op' = [op EXCEPT ![o] =
                       [Counted(p, n) EXCEPT
                          !.inventory = IF i \notin alive \/ buffer'[i]["sinkable"] = 0
                                        THEN p.inventory + 1 ELSE p.inventory]]
                  /\ UNCHANGED active
    /\ UNCHANGED <<wire, belt, alive, world, events>>

\* A chain that was stopped, or that no longer exists, is passed by.
SkipChain(o) ==
    LET c == Chain(o) IN
    /\ Looping(o) /\ Budget(o) > 0 /\ InChains(o)
    /\ c \in op[o].stopped \/ c \notin alive
    /\ op' = [op EXCEPT ![o].stopped = @ \cup {c}, ![o].chain = @ + 1, ![o].work = @ + 1]
    /\ UNCHANGED <<wire, factoryVars, active, events>>

\* Mutant of Eligible: every item may be removed.
EligibleAll(items) == Len(items)

\* How many of the items, from the lead item on, may be removed.
Eligible(items) ==
    Max({n \in 0 .. Len(items) : \A k \in 1 .. n : items[k] = "sinkable"})

\* EmptyChainBatch, and what Tick makes of it: a chain whose lead item is
\* protected is stopped for good.
DrainChain(o) ==
    LET p == op[o]
        c == Chain(o)
        expected == Min({Eligible(belt[c]), BatchLimit(o)})
        atProtected == expected < BatchLimit(o) /\ expected < Len(belt[c])
        empty == expected = Len(belt[c])
    IN
    /\ Looping(o) /\ Budget(o) > 0 /\ InChains(o)
    /\ c \notin op[o].stopped /\ c \in alive
    /\ \E n \in 0 .. expected :
          /\ belt' = [belt EXCEPT ![c] = SubSeq(@, n + 1, Len(@))]
          /\ IF n < expected
             THEN /\ op' = [op EXCEPT ![o] = Over(Counted(p, n), "conveyor mutation failed")]
                  /\ active' = None
             ELSE /\ op' = [op EXCEPT ![o] =
                       [Counted(p, n) EXCEPT
                          !.stopped = IF atProtected THEN p.stopped \cup {c} ELSE p.stopped,
                          !.chain = IF atProtected \/ empty THEN p.chain + 1 ELSE p.chain]]
                  /\ UNCHANGED active
    /\ UNCHANGED <<wire, buffer, alive, world, events>>

PassDone(o) == Looping(o) /\ Budget(o) > 0 /\ ~InInventories(o) /\ ~InChains(o)

Complete(o) ==
    /\ PassDone(o) /\ op[o].removedThisPass = 0
    /\ Finish(o, "complete")
    /\ UNCHANGED <<wire, factoryVars, events>>

\* Mutant of FromTheStart: what the pass removed is not forgotten.
FromTheStartAgain(p) == [p EXCEPT !.inventory = 1, !.chain = 1, !.whole = TRUE]

FromTheStart(p) ==
    [p EXCEPT !.removedThisPass = 0, !.inventory = 1, !.chain = 1, !.whole = TRUE]

NextPass(o) ==
    /\ PassDone(o) /\ op[o].removedThisPass > 0
    /\ op' = [op EXCEPT ![o] = FromTheStart(@)]
    /\ UNCHANGED <<wire, factoryVars, active, events>>

-----------------------------------------------------------------------------
(* The factory, between two callbacks                                       *)

Moving == active = None /\ world

\* A chain's lead item moves on.
Carry(c) ==
    LET p == wire.Out[c] IN
    /\ Moving /\ c \in alive /\ p \in alive /\ belt[c] # <<>>
    /\ IF p \in Chains
       THEN /\ p # c /\ Len(belt[p]) < ChainCapacity
            /\ belt' = [belt EXCEPT ![c] = Tail(@), ![p] = Append(@, Head(belt[c]))]
            /\ UNCHANGED buffer
       ELSE /\ Size(buffer[p]) < BufferCapacity
            /\ belt' = [belt EXCEPT ![c] = Tail(@)]
            /\ buffer' = [buffer EXCEPT ![p][Head(belt[c])] = @ + 1]
    /\ UNCHANGED <<wire, alive, world, op, active, events>>

\* A splitter or merger passes an item on.
Release(s, c) ==
    /\ Moving /\ {s, c} \subseteq alive /\ wire.In[c] = s
    /\ Len(belt[c]) < ChainCapacity
    /\ \E kind \in Kinds :
          /\ buffer[s][kind] > 0
          /\ buffer' = [buffer EXCEPT ![s][kind] = @ - 1]
          /\ belt' = [belt EXCEPT ![c] = Append(@, kind)]
    /\ UNCHANGED <<wire, alive, world, op, active, events>>

\* An item arrives on a chain from outside the network.
Supply(c) ==
    /\ Moving /\ Event
    /\ c \in alive /\ wire.In[c] = None
    /\ Len(belt[c]) < ChainCapacity
    /\ \E kind \in Kinds : belt' = [belt EXCEPT ![c] = Append(@, kind)]
    /\ UNCHANGED <<wire, buffer, alive, world, op, active>>

Consume(m) ==
    /\ Moving /\ m \in alive
    /\ \E kind \in Kinds :
          buffer[m][kind] > 0 /\ buffer' = [buffer EXCEPT ![m][kind] = @ - 1]
    /\ UNCHANGED <<wire, belt, alive, world, op, active, events>>

\* A buildable is dismantled, or a chain rebuilt under another identity.
Dismantle(p) ==
    /\ Moving /\ Event
    /\ p \in alive
    /\ alive' = alive \ {p}
    /\ UNCHANGED <<wire, belt, buffer, world, op, active>>

LeaveWorld ==
    /\ Moving /\ Event
    /\ world' = FALSE
    /\ UNCHANGED <<wire, belt, buffer, alive, op, active>>

Callback(o) ==
    \/ EndTick(o) \/ BudgetExhausted(o) \/ DrainInventory(o)
    \/ SkipChain(o) \/ DrainChain(o) \/ Complete(o) \/ NextPass(o)
Factory ==
    \/ \E c \in Chains : Carry(c) \/ Supply(c)
    \/ \E s \in Attachments, c \in Chains : Release(s, c)
    \/ \E m \in Machines : Consume(m)
    \/ \E p \in Places : Dismantle(p)
    \/ LeaveWorld

Next ==
    \/ \E o \in Purges :
          RequestPurge(o) \/ Gather(o) \/ StartTicker(o) \/ BeginTick(o) \/ Callback(o)
    \/ Factory

Spec == Init /\ [][Next]_vars

\* Fairness: a call returns, and the engine calls every ticker each frame,
\* whatever the factory and the other tickers do.
Fairness ==
    \A o \in Purges :
        WF_vars(Gather(o) \/ StartTicker(o) \/ Callback(o)) /\ SF_vars(BeginTick(o))

FairSpec == Spec /\ Fairness

-----------------------------------------------------------------------------
\* "Never delete more than its initial item total" (Tick), although items keep
\* arriving, and are counted again in every place they move to; nor is a place
\* gathered, and visited in a pass, twice, or a callback's share exceeded.
BudgetKept ==
    \A o \in Purges :
        /\ op[o].removed <= op[o].initial
        /\ IsInjective(op[o].chains) /\ IsInjective(InventoriesOf(o))
        /\ op[o].work <= MaximumItemsPerTick

\* The places within reach of t: those in every set that holds t and is closed
\* under connections between belts, attachments and machine inputs.
Connected(a, b) ==
    \/ a \in Chains /\ wire.Out[a] = b
    \/ b \in Chains /\ wire.Out[b] = a /\ a \notin Machines
    \/ a \in Chains /\ wire.In[a] = b /\ b \notin Machines
    \/ b \in Chains /\ wire.In[b] = a /\ a \notin Machines
Closed(S) == \A a \in S, b \in alive : Connected(a, b) => b \in S
Reachable(t) ==
    {n \in alive : \A S \in SUBSET alive : t \in S /\ Closed(S) => n \in S}

\* An operation works on the whole network around its target and on nothing
\* else, wherever in the network the target is and whatever loops there are:
\* the network follows branches and ends at machines.
GathersNetwork ==
    [][\A o \in Purges : op[o].phase = "gathering" /\ op'[o].phase = "running"
          => Gathered(o) = Reachable(op[o].start)]_vars

AmountOf(kind, p) == IF p \in Chains THEN Count(belt[p], kind) ELSE buffer[p][kind]
Amount(kind) == MapThenSumSet(LAMBDA p : AmountOf(kind, p), Places)

\* An operation removes what it counts and nothing else: no protected item, no
\* item from a chain it has stopped at (although another operation, or the
\* factory, has moved the protected item away since), and none outside of its
\* network.
RemovesWhatItCounts ==
    [][\A o \in Purges : active = o =>
          /\ Amount("protected")' = Amount("protected")
          /\ Amount("sinkable")' + op'[o].removed = Amount("sinkable") + op[o].removed
          /\ \A c \in op[o].stopped : belt'[c] = belt[c]
          /\ op[o].stopped \subseteq op'[o].stopped
          /\ \A p \in Places \ Gathered(o) :
                IF p \in Chains THEN belt'[p] = belt[p] ELSE buffer'[p] = buffer[p]]_vars

SinkableLeft(o) ==
    \/ \E i \in Gathered(o) \cap alive \cap Inventories : buffer[i]["sinkable"] > 0
    \/ \E c \in (Gathered(o) \cap alive \cap Chains) \ op[o].stopped :
          Eligible(belt[c]) > 0

\* An operation that ends as complete, after a last pass within one callback,
\* leaves no sinkable item in its network but behind protected ones.
CompleteIsEmpty ==
    [][\A o \in Purges :
          op'[o].result = "complete" /\ op[o].result = None /\ op[o].whole
          => ~SinkableLeft(o)]_vars

\* What the README says of a purge, with no supply: sinkable items are deleted,
\* and what remains are unsinkable ones and what is behind them on a chain.
CompleteMeansPurged ==
    [][\A o \in Purges :
          op'[o].result = "complete" /\ op[o].result = None => ~SinkableLeft(o)]_vars

\* Every purge ends, however the factory moves items around in front of it.
PurgeEnds == \A o \in Purges : op[o].phase = "gathering" ~> op[o].phase = "over"
=============================================================================
