----------------------------- MODULE RouteTrace -----------------------------
(***************************************************************************)
(* The search of FPathFinderTraceService: which directed segments of a     *)
(* vehicle path network a route uses.  A network is a set of segments      *)
(* [from, to, length, passable, actor].  Both searches of the code visit   *)
(* the nearest node not yet visited and relax what leaves it; they differ  *)
(* in what "nearest" adds and in when they stop, so they share Visit.      *)
(***************************************************************************)
EXTENDS Naturals, Sequences, FiniteSets, FiniteSetsExt, Functions

CONSTANTS
    Nodes,
    Apart   \* <<node, node>> -> their straight distance (FVector::Distance)

ASSUME RouteTraceAssumption ==
    /\ Apart \in [Nodes \X Nodes -> Nat]
    /\ \A a \in Nodes : Apart[<<a, a>>] = 0
    /\ \A a, b, c \in Nodes : Apart[<<a, c>>] <= Apart[<<a, b>>] + Apart[<<b, c>>]

\* TMap: Add, and what one map adds to another.
With(f, k, value) == [x \in DOMAIN f \cup {k} |-> IF x = k THEN value ELSE f[x]]
Merged(f, g) == [x \in DOMAIN f \cup DOMAIN g |-> IF x \in DOMAIN f THEN f[x] ELSE g[x]]

NodesOf(net) == {seg.from : seg \in net} \cup {seg.to : seg \in net}
Leaving(net, n) == {seg \in net : seg.from = n /\ seg.passable}
KeyOf(seg) == <<seg.from, seg.to>>
ApartFrom(target) == [n \in Nodes |-> Apart[<<n, target>>]]

\* The first of those with the least cost; which is first is not told apart.
Least(S, cost) == CHOOSE x \in S : \A y \in S : cost[x] <= cost[y]

\* `dist' and `previous' have the nodes reached (the code's other distances
\* are infinite); `samples' the segments that shortened a way.
Started(start) ==
    [dist |-> [n \in {start} |-> 0], previous |-> << >>, visited |-> {}, samples |-> {}]

LengthThrough(s, seg) == s.dist[seg.from] + seg.length
ReachThrough(s, seg) ==
    [s EXCEPT !.dist = With(@, seg.to, LengthThrough(s, seg)),
              !.previous = With(@, seg.to, seg.from),
              !.samples = @ \cup {seg}]

\* Mutant: what was found first is kept.
RelaxFirst(s, seg) ==
    IF seg.to \in DOMAIN s.dist THEN s ELSE ReachThrough(s, seg)

Relax(s, seg) ==
    IF seg.to \in DOMAIN s.dist /\ LengthThrough(s, seg) >= s.dist[seg.to] THEN s
    ELSE ReachThrough(s, seg)

Unvisited(s) == DOMAIN s.dist \ s.visited

\* One turn of the loop, with what is estimated to remain, up to a target.
Visit(s, net, remaining, targets) ==
    IF Unvisited(s) = {} \/ targets \cap s.visited # {} THEN s
    ELSE LET node == Least(Unvisited(s), [n \in Unvisited(s) |-> s.dist[n] + remaining[n]])
             reached == [s EXCEPT !.visited = @ \cup {node}]
         IN  IF node \in targets THEN reached
             ELSE FoldSet(LAMBDA seg, r : Relax(r, seg), reached, Leaving(net, node))

Search(net, start, remaining, targets) ==
    LET after[turns \in 0 .. Cardinality(NodesOf(net))] ==
            IF turns = 0 THEN Started(start)
            ELSE Visit(after[turns - 1], net, remaining, targets)
    IN  after[Cardinality(NodesOf(net))]

\* The path back from a node, turned round.
PathTo(s, last) ==
    LET back[n \in DOMAIN s.dist] ==
            IF n \in DOMAIN s.previous THEN Append(back[s.previous[n]], n) ELSE <<n>>
    IN  back[last]

\* The independent search (A*): its path and length, or the node visited that
\* is closest to the target.
RunIndependentSearch(net, from, to) ==
    LET s == Search(net, from, ApartFrom(to), {to}) IN
    IF to \in s.visited
    THEN [found |-> TRUE, path |-> PathTo(s, to), length |-> s.dist[to]]
    ELSE LET closest == Least(s.visited, ApartFrom(to)) IN
         [found |-> FALSE, closest |-> closest, length |-> s.dist[closest]]

BuildReachableSamples(net, start) == Search(net, start, [n \in Nodes |-> 0], {}).samples

BuildSuccessfulPathSamples(net, path) ==
    {seg \in net : \E i \in 1 .. Len(path) - 1 : KeyOf(seg) = <<path[i], path[i + 1]>>}

\* The game's own search, which the independent one repeats.
FindVehiclePath(net, from, to) ==
    IF {from, to} \subseteq NodesOf(net) THEN RunIndependentSearch(net, from, to)
    ELSE [found |-> FALSE]

TraceLeg(net, from, to) ==
    LET path == FindVehiclePath(net, from, to) IN
    IF from \notin NodesOf(net) THEN {}
    ELSE IF path.found THEN BuildSuccessfulPathSamples(net, path.path)
    ELSE BuildReachableSamples(net, from)

\* The legs of a route lead from each of its nodes to the next, and back.
BuildLoopLegs(route) ==
    IF Len(route) < 2 THEN {}
    ELSE {<<route[i], route[(i % Len(route)) + 1]>> : i \in DOMAIN route}

\* What all legs use.
ScanRoute(net, route) == UNION {TraceLeg(net, leg[1], leg[2]) : leg \in BuildLoopLegs(route)}

-----------------------------------------------------------------------------
\* What the searches are to find: the ways along passable segments that visit
\* no node twice.
Ways(net, from, to) ==
    {p \in UNION {[1 .. k -> NodesOf(net)] : k \in 1 .. Cardinality(NodesOf(net))} :
        /\ p[1] = from /\ p[Len(p)] = to
        /\ Cardinality(Range(p)) = Len(p)
        /\ \A i \in 1 .. Len(p) - 1 : \E seg \in Leaving(net, p[i]) : seg.to = p[i + 1]}
LengthOf(net, p) ==
    LET upTo[i \in 1 .. Len(p)] ==
            IF i = 1 THEN 0
            ELSE upTo[i - 1] + (CHOOSE seg \in Leaving(net, p[i - 1]) : seg.to = p[i]).length
    IN  upTo[Len(p)]
Reachable(net, from) == {n \in NodesOf(net) : Ways(net, from, n) # {}}

\* The independent search finds a path exactly when there is one, and then a
\* shortest one; else it names a node that can be reached, and none that can
\* is closer to the target.
SearchIsExact(net) ==
    \A from, to \in NodesOf(net) :
        LET r == RunIndependentSearch(net, from, to)  ways == Ways(net, from, to) IN
        IF ways # {}
        THEN /\ r.found /\ r.path \in ways /\ r.length = LengthOf(net, r.path)
             /\ \A p \in ways : r.length <= LengthOf(net, p)
        ELSE /\ ~r.found /\ r.closest \in Reachable(net, from)
             /\ \A n \in Reachable(net, from) : Apart[<<r.closest, to>>] <= Apart[<<n, to>>]

\* A leg that fails paints a way to every node that can be reached, and
\* nothing that cannot.
PaintsReachable(net) ==
    \A start \in NodesOf(net) :
        LET samples == BuildReachableSamples(net, start) IN
        /\ {start} \cup {seg.to : seg \in samples} = Reachable(net, start)
        /\ \A seg \in samples : seg.from \in Reachable(net, start)
=============================================================================
