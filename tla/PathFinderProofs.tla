--------------------------- MODULE PathFinderProofs ---------------------------
(* Proofs about PathFinder for any network, routes, saves and vehicles.      *)
EXTENDS PathFinder, FiniteSetTheorems, WellFoundedInduction, TLAPS

-----------------------------------------------------------------------------
(* What the searches use                                                    *)

LEMMA ImageFinite ==
    ASSUME NEW S, IsFiniteSet(S), NEW f
    PROVE  IsFiniteSet({f[x] : x \in S})
<1> DEFINE T == {f[x] : x \in S}
           g == [x \in S |-> f[x]]
<1>1. g \in Surjection(S, T)
  BY DEF Surjection
<1>2. QED
  <2> HIDE DEF g, T
  <2>1. IsFiniteSet(T)
    BY <1>1, FS_Surjection
  <2>2. QED
    BY <2>1 DEF T

SearchState(s) ==
    s = [dist |-> s.dist, previous |-> s.previous, visited |-> s.visited, samples |-> s.samples]

\* The steps of the two loops of a search, and what they keep: a way is
\* shortened by segments of the network alone.
RelaxStep(net, seg, s) == Relax(s, seg)
VisitStep(p, turn, s) == Visit(s, p.net, p.remaining, p.targets)
WithinNetwork(net, done, s) == SearchState(s) /\ s.samples \subseteq net
VisitsWithin(p, turn, s) == WithinNetwork(p.net, {}, s)
Relaxing == INSTANCE FiniteFolds WITH Op <- RelaxStep, Holds <- WithinNetwork
Visiting == INSTANCE FiniteFolds WITH Op <- VisitStep, Holds <- VisitsWithin

LEMMA RelaxWithin ==
    ASSUME NEW net, NEW seg \in net, NEW s, SearchState(s), s.samples \subseteq net
    PROVE  SearchState(Relax(s, seg)) /\ Relax(s, seg).samples \subseteq net
<1>1. PICK d, p, v, m : s = [dist |-> d, previous |-> p, visited |-> v, samples |-> m]
  BY DEF SearchState
<1>2. PICK d1 : d1 = With(s.dist, seg.to, LengthThrough(s, seg))
  OBVIOUS
<1>3. PICK p1 : p1 = With(s.previous, seg.to, seg.from)
  OBVIOUS
<1>4. ReachThrough(s, seg) = [s EXCEPT !.dist = d1, !.previous = p1, !.samples = s.samples \cup {seg}]
  BY <1>2, <1>3 DEF ReachThrough
<1>5. m \subseteq net
  BY <1>1
<1>6. SearchState(ReachThrough(s, seg)) /\ ReachThrough(s, seg).samples \subseteq net
  <2>1. PICK r : r = ReachThrough(s, seg)
    OBVIOUS
  <2>2. r = [dist |-> d1, previous |-> p1, visited |-> v, samples |-> m \cup {seg}]
    BY <1>1, <1>4, <2>1
  <2>3. SearchState(r) /\ r.samples \subseteq net
    BY <1>5, <2>2 DEF SearchState
  <2>4. QED
    BY <2>1, <2>3
<1>7. QED
  BY <1>6 DEF Relax

LEMMA LeavingWithin ==
    ASSUME NEW net, IsFiniteSet(net), NEW n
    PROVE  Leaving(net, n) \subseteq net /\ IsFiniteSet(Leaving(net, n))
<1>1. Leaving(net, n) \subseteq net
  BY DEF Leaving
<1>2. QED
  BY <1>1, FS_Subset

LEMMA RelaxAllWithin ==
    ASSUME NEW net, IsFiniteSet(net), NEW n, NEW s, SearchState(s), s.samples \subseteq net
    PROVE  WithinNetwork(net, {}, FoldSet(LAMBDA seg, r : Relax(r, seg), s, Leaving(net, n)))
<1> DEFINE S == Leaving(net, n)
<1>1. FoldSet(LAMBDA seg, r : Relax(r, seg), s, Leaving(net, n)) = Relaxing!Fold(net, s, S)
  BY DEF FoldSet, MapThenFoldSet, Relaxing!Fold, Relaxing!Pick, RelaxStep
<1>2. WithinNetwork(net, {}, s)
  BY DEF WithinNetwork
<1>3. \A T \in SUBSET S : \A x \in T : \A y :
          WithinNetwork(net, T \ {x}, y) => WithinNetwork(net, T, RelaxStep(net, x, y))
  <2>1. S \subseteq net
    BY LeavingWithin
  <2> HIDE DEF S
  <2>2. QED
    BY <2>1, RelaxWithin DEF WithinNetwork, RelaxStep
<1>4. IsFiniteSet(S)
  BY LeavingWithin
<1>5. WithinNetwork(net, S, Relaxing!Fold(net, s, S))
  <2> HIDE DEF S
  <2>1. QED
    BY <1>2, <1>3, <1>4, Relaxing!FoldHolds DEF IsFiniteSet, Relaxing!IsFiniteSet
<1>6. QED
  BY <1>1, <1>5 DEF WithinNetwork

LEMMA VisitWithin ==
    ASSUME NEW net, IsFiniteSet(net), NEW remaining, NEW targets,
           NEW s, SearchState(s), s.samples \subseteq net
    PROVE  WithinNetwork(net, {}, Visit(s, net, remaining, targets))
<1> DEFINE node == Least(Unvisited(s), [n \in Unvisited(s) |-> s.dist[n] + remaining[n]])
           reached == [s EXCEPT !.visited = @ \cup {node}]
<1>1. SearchState(reached) /\ reached.samples \subseteq net
  <2>1. PICK d, p, v, m : s = [dist |-> d, previous |-> p, visited |-> v, samples |-> m]
    BY DEF SearchState
  <2>2. PICK x : x = node
    OBVIOUS
  <2> HIDE DEF node
  <2>3. reached = [dist |-> d, previous |-> p, visited |-> v \cup {x}, samples |-> m]
    BY <2>1, <2>2
  <2>4. m \subseteq net
    BY <2>1
  <2> HIDE DEF reached
  <2>5. QED
    BY <2>3, <2>4 DEF SearchState
<1>2. WithinNetwork(net, {}, s) /\ WithinNetwork(net, {}, reached)
  <2> HIDE DEF reached
  <2>1. QED
    BY <1>1 DEF WithinNetwork
<1>3. WithinNetwork(net, {}, FoldSet(LAMBDA seg, r : Relax(r, seg), reached, Leaving(net, node)))
  <2> HIDE DEF reached, node
  <2>1. QED
    BY <1>1, RelaxAllWithin
<1>4. QED
  BY <1>2, <1>3 DEF Visit

LEMMA SearchWithin ==
    ASSUME NEW net, IsFiniteSet(net), NEW start, NEW remaining, NEW targets
    PROVE  Search(net, start, remaining, targets).samples \subseteq net
<1> DEFINE p == [net |-> net, remaining |-> remaining, targets |-> targets]
           n == Cardinality(NodesOf(net))
<1>1. n \in Nat
  <2>1. IsFiniteSet({seg.from : seg \in net}) /\ IsFiniteSet({seg.to : seg \in net})
    <3>1. /\ {seg.from : seg \in net} = {[s \in net |-> s.from][seg] : seg \in net}
          /\ {seg.to : seg \in net} = {[s \in net |-> s.to][seg] : seg \in net}
      OBVIOUS
    <3>2. /\ IsFiniteSet({[s \in net |-> s.from][seg] : seg \in net})
          /\ IsFiniteSet({[s \in net |-> s.to][seg] : seg \in net})
      BY ImageFinite
    <3>3. QED
      BY <3>1, <3>2
  <2>2. IsFiniteSet(NodesOf(net))
    BY <2>1, FS_Union DEF NodesOf
  <2>3. QED
    BY <2>2, FS_CardinalityType
<1>2. Search(net, start, remaining, targets) = Visiting!Loop(p, Started(start), n)
  BY DEF Search, Visiting!Loop, VisitStep
<1>3. VisitsWithin(p, 0, Started(start))
  <2>1. SearchState(Started(start)) /\ Started(start).samples = {}
    BY DEF SearchState, Started
  <2>2. QED
    BY <2>1 DEF VisitsWithin, WithinNetwork
<1>4. \A i \in 1 .. n : \A y : VisitsWithin(p, i - 1, y) => VisitsWithin(p, i, VisitStep(p, i, y))
  BY VisitWithin DEF VisitsWithin, VisitStep, WithinNetwork
<1>5. VisitsWithin(p, n, Visiting!Loop(p, Started(start), n))
  <2> HIDE DEF p, n
  <2>1. QED
    BY <1>1, <1>3, <1>4, Visiting!LoopHolds
<1>6. QED
  BY <1>2, <1>5 DEF VisitsWithin, WithinNetwork

\* A route uses segments of the network alone, and so finitely many.
LEMMA RouteWithin ==
    ASSUME NEW net, IsFiniteSet(net), NEW route
    PROVE  ScanRoute(net, route) \subseteq net
<1>1. ASSUME NEW from, NEW to PROVE TraceLeg(net, from, to) \subseteq net
  <2>1. BuildReachableSamples(net, from) \subseteq net
    BY SearchWithin DEF BuildReachableSamples
  <2>2. \A path : BuildSuccessfulPathSamples(net, path) \subseteq net
    BY DEF BuildSuccessfulPathSamples
  <2>3. QED
    BY <2>1, <2>2 DEF TraceLeg
<1>2. QED
  BY <1>1 DEF ScanRoute

-----------------------------------------------------------------------------
(* What the searches find: ways and their lengths                           *)

\* A network whose segments are no shorter than their nodes are apart.
Network(net) ==
    /\ IsFiniteSet(net)
    /\ \A seg \in net : /\ seg.from \in Nodes /\ seg.to \in Nodes /\ seg.length \in Nat
                        /\ Apart[KeyOf(seg)] <= seg.length
    /\ \A s, t \in net : KeyOf(s) = KeyOf(t) => s = t

LEMMA NodesFinite ==
    ASSUME NEW net, IsFiniteSet(net)
    PROVE  IsFiniteSet(NodesOf(net)) /\ Cardinality(NodesOf(net)) \in Nat
<1>1. IsFiniteSet({seg.from : seg \in net}) /\ IsFiniteSet({seg.to : seg \in net})
  <2>1. /\ {seg.from : seg \in net} = {[s \in net |-> s.from][seg] : seg \in net}
        /\ {seg.to : seg \in net} = {[s \in net |-> s.to][seg] : seg \in net}
    OBVIOUS
  <2>2. /\ IsFiniteSet({[s \in net |-> s.from][seg] : seg \in net})
        /\ IsFiniteSet({[s \in net |-> s.to][seg] : seg \in net})
    BY ImageFinite
  <2>3. QED
    BY <2>1, <2>2
<1>2. IsFiniteSet(NodesOf(net))
  BY <1>1, FS_Union DEF NodesOf
<1>3. QED
  BY <1>2, FS_CardinalityType

\* The least cost is there.
LEMMA LeastIs ==
    ASSUME NEW S, S # {}, NEW cost, \A x \in S : cost[x] \in Nat
    PROVE  Least(S, cost) \in S /\ \A y \in S : cost[Least(S, cost)] <= cost[y]
<1> DEFINE T == {cost[x] : x \in S}
           Less == {ss \in Nat \X Nat : ss[1] < ss[2]}
<1>1. IsWellFoundedOn(Less, Nat)
  BY NatLessThanWellFounded DEF OpToRel
<1>2. PICK m \in T : \A k \in T : <<k, m>> \notin Less
  <2>1. T \subseteq Nat /\ T # {}
    OBVIOUS
  <2> HIDE DEF T, Less
  <2>2. QED
    BY <1>1, <2>1, WFMin
<1>3. PICK x \in S : m = cost[x]
  BY <1>2
<1>4. ASSUME NEW y \in S PROVE cost[x] <= cost[y]
  <2>1. <<cost[y], cost[x]>> \notin Less
    BY <1>2, <1>3
  <2>2. cost[x] \in Nat /\ cost[y] \in Nat
    OBVIOUS
  <2>3. QED
    BY <2>1, <2>2
<1>5. QED
  BY <1>4 DEF Least

\* The length of a step of a way, and of a way up to each of its nodes.
StepLength(net, x, y) == (CHOOSE seg \in Leaving(net, x) : seg.to = y).length
UpTo(net, p, f) ==
    f = [i \in 1 .. Len(p) |-> IF i = 1 THEN 0 ELSE f[i - 1] + StepLength(net, p[i - 1], p[i])]

LengthStep(q, i, y) == y + StepLength(q.net, q.way[i], q.way[i + 1])
Whatever(q, i, y) == TRUE
Measuring == INSTANCE FiniteFolds WITH Op <- LengthStep, Holds <- Whatever

LEMMA StepLengthIs ==
    ASSUME NEW net, Network(net), NEW x, NEW seg \in Leaving(net, x)
    PROVE  StepLength(net, x, seg.to) = seg.length
<1>1. seg \in net /\ seg.from = x
  BY DEF Leaving
<1>2. PICK t : t = CHOOSE s \in Leaving(net, x) : s.to = seg.to
  OBVIOUS
<1>3. t \in Leaving(net, x) /\ t.to = seg.to
  BY <1>2
<1>4. t \in net /\ t.from = x
  BY <1>3 DEF Leaving
<1>5. t = seg
  BY <1>1, <1>3, <1>4 DEF Network, KeyOf
<1>6. QED
  BY <1>2, <1>5 DEF StepLength

LEMMA UpToIs ==
    ASSUME NEW net, NEW p, Len(p) \in Nat \ {0}, NEW f, UpTo(net, p, f)
    PROVE  /\ DOMAIN f = 1 .. Len(p) /\ f[1] = 0
           /\ \A i \in 2 .. Len(p) : f[i] = f[i - 1] + StepLength(net, p[i - 1], p[i])
<1>1. DOMAIN f = 1 .. Len(p)
  BY DEF UpTo
<1>2. \A i \in 1 .. Len(p) :
          f[i] = IF i = 1 THEN 0 ELSE f[i - 1] + StepLength(net, p[i - 1], p[i])
  BY DEF UpTo
<1>3. QED
  BY <1>1, <1>2

LEMMA UpToExists ==
    ASSUME NEW net, NEW p, Len(p) \in Nat \ {0}
    PROVE  \E f : UpTo(net, p, f)
<1>1. PICK q : q = [net |-> net, way |-> p]
  OBVIOUS
<1>2. PICK n : n = Len(p) - 1
  OBVIOUS
<1>3. PICK g : Measuring!Looped(q, 0, n, g)
  <2>1. n \in Nat
    BY <1>2
  <2>2. QED
    BY <2>1, Measuring!LoopExists
<1>4. \A i \in 0 .. n : g[i] = IF i = 0 THEN 0 ELSE g[i - 1] + StepLength(net, p[i], p[i + 1])
  BY <1>1, <1>3 DEF Measuring!Looped, LengthStep
<1>5. PICK f : f = [i \in 1 .. Len(p) |-> g[i - 1]]
  OBVIOUS
<1>6. ASSUME NEW i \in 1 .. Len(p)
      PROVE  f[i] = IF i = 1 THEN 0 ELSE f[i - 1] + StepLength(net, p[i - 1], p[i])
  <2>1. f[i] = g[i - 1] /\ i - 1 \in 0 .. n
    BY <1>2, <1>5
  <2>2. CASE i = 1
    BY <1>4, <2>1, <2>2
  <2>3. CASE i # 1
    <3>1. i - 1 \in 1 .. Len(p) /\ (i - 1) + 1 = i
      BY <2>3
    <3>2. f[i - 1] = g[(i - 1) - 1]
      BY <1>5, <3>1
    <3>3. g[i - 1] = g[(i - 1) - 1] + StepLength(net, p[i - 1], p[(i - 1) + 1])
      BY <1>4, <2>1, <2>3
    <3>4. QED
      BY <2>1, <2>3, <3>1, <3>2, <3>3
  <2>4. QED
    BY <2>2, <2>3
<1>7. f = [i \in 1 .. Len(p) |-> f[i]]
  BY <1>5
<1>8. \A i \in 1 .. Len(p) :
          f[i] = IF i = 1 THEN 0 ELSE f[i - 1] + StepLength(net, p[i - 1], p[i])
  BY <1>6
<1>9. UpTo(net, p, f)
  BY <1>7, <1>8 DEF UpTo
<1>10. QED
  BY <1>9

\* Two ways that begin alike are equally long up to there.
LEMMA UpToAgrees ==
    ASSUME NEW net, NEW p, Len(p) \in Nat \ {0}, NEW f, UpTo(net, p, f),
           NEW q, Len(q) \in Nat \ {0}, NEW g, UpTo(net, q, g),
           NEW k \in Nat \ {0}, k <= Len(p), k <= Len(q), \A i \in 1 .. k : p[i] = q[i]
    PROVE  \A i \in 1 .. k : f[i] = g[i]
<1>1. PICK n : n = k - 1
  OBVIOUS
<1> DEFINE G == {i \in 0 .. n : f[i + 1] = g[i + 1]}
<1>2. n \in Nat
  BY <1>1
<1>a. /\ DOMAIN f = 1 .. Len(p) /\ f[1] = 0
      /\ \A i \in 2 .. Len(p) : f[i] = f[i - 1] + StepLength(net, p[i - 1], p[i])
  BY UpToIs
<1>b. /\ DOMAIN g = 1 .. Len(q) /\ g[1] = 0
      /\ \A i \in 2 .. Len(q) : g[i] = g[i - 1] + StepLength(net, q[i - 1], q[i])
  BY UpToIs
<1>3. 0 \in G
  BY <1>2, <1>a, <1>b
<1>4. ASSUME NEW i \in 1 .. n, i - 1 \in G PROVE i \in G
  <2>1. /\ i + 1 \in 2 .. Len(p) /\ i + 1 \in 2 .. Len(q) /\ i \in 1 .. k /\ i + 1 \in 1 .. k
        /\ (i + 1) - 1 = i /\ (i - 1) + 1 = i
    BY <1>1
  <2>2. /\ f[i + 1] = f[i] + StepLength(net, p[i], p[i + 1])
        /\ g[i + 1] = g[i] + StepLength(net, q[i], q[i + 1])
    BY <2>1, <1>a, <1>b
  <2>3. f[i] = g[i] /\ p[i] = q[i] /\ p[i + 1] = q[i + 1]
    BY <1>4, <2>1
  <2>4. QED
    BY <2>2, <2>3
<1>5. G = 0 .. n
  <2>1. G \in SUBSET (0 .. n)
    OBVIOUS
  <2> HIDE DEF G
  <2>2. QED
    BY <1>2, <1>3, <1>4, <2>1, Measuring!CountInduction
<1>6. ASSUME NEW i \in 1 .. k PROVE f[i] = g[i]
  <2>1. i - 1 \in 0 .. n /\ (i - 1) + 1 = i
    BY <1>1
  <2>2. QED
    BY <1>5, <2>1
<1>7. QED
  BY <1>6

LEMMA LengthIs ==
    ASSUME NEW net, NEW p, Len(p) \in Nat \ {0}, NEW f, UpTo(net, p, f)
    PROVE  LengthOf(net, p) = f[Len(p)]
<1>1. PICK g : g = CHOOSE h : UpTo(net, p, h)
  OBVIOUS
<1>2. UpTo(net, p, g)
  BY <1>1
<1>3. LengthOf(net, p) = g[Len(p)]
  BY <1>1 DEF LengthOf, UpTo, StepLength
<1>4. \A i \in 1 .. Len(p) : f[i] = g[i]
  BY <1>2, UpToAgrees
<1>5. QED
  BY <1>3, <1>4

LEMMA LengthOfOne == ASSUME NEW net, NEW n PROVE LengthOf(net, <<n>>) = 0
<1>1. PICK p : p = <<n>>
  OBVIOUS
<1>2. Len(p) = 1 /\ Len(p) \in Nat \ {0}
  BY <1>1
<1>3. PICK f : UpTo(net, p, f)
  BY <1>2, UpToExists
<1>4. f[1] = 0
  BY <1>2, <1>3, UpToIs
<1>5. LengthOf(net, p) = f[Len(p)]
  BY <1>2, <1>3, LengthIs
<1>6. QED
  BY <1>1, <1>2, <1>4, <1>5

LEMMA LengthOfAppend ==
    ASSUME NEW net, NEW S, NEW p \in Seq(S), p # << >>, NEW m \in S
    PROVE  LengthOf(net, Append(p, m)) = LengthOf(net, p) + StepLength(net, p[Len(p)], m)
<1>1. PICK q : q = Append(p, m)
  OBVIOUS
<1>2. PICK k : k = Len(p)
  OBVIOUS
<1>3. k \in Nat \ {0} /\ Len(q) = k + 1 /\ q[k + 1] = m /\ \A i \in 1 .. k : q[i] = p[i]
  BY <1>1, <1>2
<1>4. PICK f : UpTo(net, p, f)
  BY <1>2, <1>3, UpToExists
<1>5. PICK g : UpTo(net, q, g)
  <2>1. Len(q) \in Nat \ {0}
    BY <1>3
  <2>2. QED
    BY <2>1, UpToExists
<1>6. \A i \in 1 .. k : f[i] = g[i]
  <2>1. \A i \in 1 .. k : p[i] = q[i]
    BY <1>3
  <2>2. QED
    BY <1>2, <1>3, <1>4, <1>5, <2>1, UpToAgrees
<1>7. g[k + 1] = g[k] + StepLength(net, q[k], q[k + 1])
  <2>1. \A i \in 2 .. Len(q) : g[i] = g[i - 1] + StepLength(net, q[i - 1], q[i])
    BY <1>3, <1>5, UpToIs
  <2>2. k + 1 \in 2 .. Len(q) /\ (k + 1) - 1 = k
    BY <1>3
  <2>3. QED
    BY <2>1, <2>2
<1>8. LengthOf(net, p) = f[k] /\ LengthOf(net, q) = g[k + 1]
  BY <1>2, <1>3, <1>4, <1>5, LengthIs
<1>9. k \in 1 .. k
  BY <1>3
<1>10. QED
  BY <1>1, <1>2, <1>3, <1>6, <1>7, <1>8, <1>9

\* A way as a sequence.
IsWay(net, from, to, p) ==
    /\ p \in Seq(NodesOf(net)) /\ Len(p) \in Nat \ {0}
    /\ p[1] = from /\ p[Len(p)] = to
    /\ \A i, j \in 1 .. Len(p) : p[i] = p[j] => i = j
    /\ \A i \in 1 .. Len(p) - 1 : \E seg \in Leaving(net, p[i]) : seg.to = p[i + 1]

LEMMA OnceEach ==
    ASSUME NEW S, IsFiniteSet(S), NEW p \in Seq(S), Len(p) \in Nat \ {0}
    PROVE  /\ Cardinality(Range(p)) = Len(p) <=> \A i, j \in 1 .. Len(p) : p[i] = p[j] => i = j
           /\ Cardinality(Range(p)) = Len(p) => Len(p) <= Cardinality(S)
<1>1. PICK k : k = Len(p)
  OBVIOUS
<1>2. k \in Nat /\ DOMAIN p = 1 .. k /\ \A i \in 1 .. k : p[i] \in S
  BY <1>1
<1>3. IsFiniteSet(1 .. k) /\ Cardinality(1 .. k) = k
  BY <1>1, FS_Interval
<1>4. PICK T : T = Range(p)
  OBVIOUS
<1>5. T = {p[i] : i \in 1 .. k}
  BY <1>2, <1>4 DEF Range
<1>6. p = [i \in 1 .. k |-> p[i]]
  BY <1>1
<1>7. p \in [1 .. k -> T] /\ p \in Surjection(1 .. k, T)
  BY <1>5, <1>6 DEF Surjection
<1>8. Cardinality(T) = k <=> p \in Injection(1 .. k, T)
  BY <1>3, <1>7, FS_Surjection
<1>9. p \in Injection(1 .. k, T) <=> \A i, j \in 1 .. k : p[i] = p[j] => i = j
  <2>1. p \in Injection(1 .. k, T) <=>
            p \in [1 .. k -> T] /\ \A i, j \in 1 .. k : p[i] = p[j] => i = j
    BY DEF Injection, IsInjective
  <2>2. QED
    BY <1>7, <2>1
<1>10. T \subseteq S
  BY <1>2, <1>5
<1>11. Cardinality(T) <= Cardinality(S)
  BY <1>10, FS_Subset
<1>12. QED
  BY <1>1, <1>4, <1>8, <1>9, <1>11

LEMMA WayIs ==
    ASSUME NEW net, IsFiniteSet(net), NEW from, NEW to, NEW p
    PROVE  p \in Ways(net, from, to) <=> IsWay(net, from, to, p)
<1>1. PICK N : N = NodesOf(net)
  OBVIOUS
<1>2. IsFiniteSet(N) /\ Cardinality(N) \in Nat
  BY <1>1, NodesFinite
<1>3. ASSUME p \in Ways(net, from, to) PROVE IsWay(net, from, to, p)
  <2>1. PICK k \in 1 .. Cardinality(N) : p \in [1 .. k -> N]
    BY <1>1, <1>3 DEF Ways
  <2>2. p \in Seq(N) /\ Len(p) = k
    BY <1>2, <2>1
  <2>3. Len(p) \in Nat \ {0}
    BY <1>2, <2>1, <2>2
  <2>4. /\ p[1] = from /\ p[Len(p)] = to /\ Cardinality(Range(p)) = Len(p)
        /\ \A i \in 1 .. Len(p) - 1 : \E seg \in Leaving(net, p[i]) : seg.to = p[i + 1]
    BY <1>3 DEF Ways
  <2>5. \A i, j \in 1 .. Len(p) : p[i] = p[j] => i = j
    BY <1>2, <2>2, <2>3, <2>4, OnceEach
  <2>6. QED
    BY <1>1, <2>2, <2>3, <2>4, <2>5 DEF IsWay
<1>4. ASSUME IsWay(net, from, to, p) PROVE p \in Ways(net, from, to)
  <2>1. /\ p \in Seq(N) /\ Len(p) \in Nat \ {0}
        /\ \A i, j \in 1 .. Len(p) : p[i] = p[j] => i = j
    BY <1>1, <1>4 DEF IsWay
  <2>2. Cardinality(Range(p)) = Len(p) /\ Len(p) <= Cardinality(N)
    BY <1>2, <2>1, OnceEach
  <2>3. Len(p) \in 1 .. Cardinality(N) /\ p \in [1 .. Len(p) -> N]
    BY <1>2, <2>1, <2>2
  <2>4. QED
    BY <1>1, <1>4, <2>2, <2>3 DEF IsWay, Ways
<1>5. QED
  BY <1>3, <1>4

LEMMA WayOfOne ==
    ASSUME NEW net, NEW n \in NodesOf(net)
    PROVE  IsWay(net, n, n, <<n>>)
<1>1. PICK p : p = <<n>>
  OBVIOUS
<1>2. p \in Seq(NodesOf(net)) /\ Len(p) = 1 /\ p[1] = n
  BY <1>1
<1>3. QED
  BY <1>1, <1>2 DEF IsWay

\* A way goes on to a node it has not visited.
LEMMA WayOn ==
    ASSUME NEW net, NEW from, NEW n, NEW p, IsWay(net, from, n, p), NEW seg \in Leaving(net, n),
           \A i \in 1 .. Len(p) : p[i] # seg.to
    PROVE  /\ IsWay(net, from, seg.to, Append(p, seg.to)) /\ Len(Append(p, seg.to)) = Len(p) + 1
           /\ \A i \in 1 .. Len(p) : Append(p, seg.to)[i] = p[i]
<1>1. PICK k : k = Len(p)
  OBVIOUS
<1>2. PICK m : m = seg.to
  OBVIOUS
<1>3. PICK q : q = Append(p, m)
  OBVIOUS
<1>4. m \in NodesOf(net)
  BY <1>2 DEF Leaving, NodesOf
<1>5. p \in Seq(NodesOf(net)) /\ k \in Nat \ {0} /\ p[1] = from /\ p[k] = n
  BY <1>1 DEF IsWay
<1>6. /\ q \in Seq(NodesOf(net)) /\ Len(q) = k + 1 /\ q[k + 1] = m
      /\ \A i \in 1 .. k : q[i] = p[i]
  BY <1>1, <1>3, <1>4, <1>5
<1>7. q[1] = from /\ Len(q) \in Nat \ {0} /\ q[Len(q)] = m
  BY <1>5, <1>6
<1>8. ASSUME NEW i \in 1 .. Len(q), NEW j \in 1 .. Len(q), q[i] = q[j] PROVE i = j
  <2>1. \A a, b \in 1 .. k : p[a] = p[b] => a = b
    BY <1>1 DEF IsWay
  <2>2. \A a \in 1 .. k : q[a] # m
    BY <1>1, <1>2, <1>6
  <2>3. /\ i \in 1 .. k \/ i = k + 1
        /\ j \in 1 .. k \/ j = k + 1
    BY <1>5, <1>6
  <2>4. QED
    BY <1>6, <1>8, <2>1, <2>2, <2>3
<1>9. ASSUME NEW i \in 1 .. Len(q) - 1 PROVE \E t \in Leaving(net, q[i]) : t.to = q[i + 1]
  <2>1. i \in 1 .. k
    BY <1>5, <1>6
  <2>2. CASE i = k
    BY <1>2, <1>5, <1>6, <2>1, <2>2
  <2>3. CASE i # k
    <3>1. i \in 1 .. k - 1 /\ i + 1 \in 1 .. k
      BY <1>5, <2>1, <2>3
    <3>2. \E t \in Leaving(net, p[i]) : t.to = p[i + 1]
      BY <1>1, <3>1 DEF IsWay
    <3>3. q[i] = p[i] /\ q[i + 1] = p[i + 1]
      BY <1>6, <2>1, <3>1
    <3>4. QED
      BY <3>2, <3>3
  <2>4. QED
    BY <2>2, <2>3
<1>10. IsWay(net, from, m, q)
  BY <1>6, <1>7, <1>8, <1>9 DEF IsWay
<1>11. QED
  BY <1>1, <1>2, <1>3, <1>6, <1>10

-----------------------------------------------------------------------------
(* What a search has reached                                                *)

\* Each node reached has its distance, the node it was reached from and a
\* sample that leads to it.
Reaches(net, start, s) ==
    /\ SearchState(s)
    /\ start \in DOMAIN s.dist /\ DOMAIN s.dist \subseteq NodesOf(net)
    /\ \A n \in DOMAIN s.dist : s.dist[n] \in Nat
    /\ s.dist[start] = 0
    /\ DOMAIN s.previous = DOMAIN s.dist \ {start}
    /\ \A n \in DOMAIN s.previous : s.previous[n] \in s.visited
    /\ s.visited \subseteq DOMAIN s.dist
    /\ \A seg \in s.samples : seg.from \in s.visited /\ seg.to \in DOMAIN s.dist
    /\ \A n \in DOMAIN s.dist \ {start} : \E seg \in s.samples : seg.to = n

\* The paths back, each as long as the distance says, through visited nodes.
Back(s, b) ==
    b = [n \in DOMAIN s.dist |->
            IF n \in DOMAIN s.previous THEN Append(b[s.previous[n]], n) ELSE <<n>>]
Traces(net, start, s, b) ==
    /\ Back(s, b)
    /\ \A c : Back(s, c) => c = b
    /\ \A n \in DOMAIN s.dist : IsWay(net, start, n, b[n]) /\ LengthOf(net, b[n]) = s.dist[n]
    /\ \A n \in DOMAIN s.dist : \A i \in 1 .. Len(b[n]) - 1 : b[n][i] \in s.visited
Traced(net, start, s) == \E b : Traces(net, start, s, b)

LEMMA PathToIs ==
    ASSUME NEW net, NEW start, NEW s, NEW b, Traces(net, start, s, b), NEW n
    PROVE  PathTo(s, n) = b[n]
<1>1. PICK c : c = CHOOSE x : Back(s, x)
  OBVIOUS
<1>2. c = b
  BY <1>1 DEF Traces
<1>3. QED
  BY <1>1, <1>2 DEF PathTo, Back

LEMMA BackIs ==
    ASSUME NEW s, NEW b, Back(s, b)
    PROVE  /\ DOMAIN b = DOMAIN s.dist
           /\ \A n \in DOMAIN s.dist :
                 b[n] = IF n \in DOMAIN s.previous THEN Append(b[s.previous[n]], n) ELSE <<n>>
BY DEF Back

LEMMA IsBack ==
    ASSUME NEW s, NEW b, b = [n \in DOMAIN s.dist |-> b[n]],
           \A n \in DOMAIN s.dist :
                 b[n] = IF n \in DOMAIN s.previous THEN Append(b[s.previous[n]], n) ELSE <<n>>
    PROVE  Back(s, b)
BY DEF Back

\* What ReachThrough changes.
Through(s, seg, r) ==
    /\ SearchState(r) /\ r.visited = s.visited /\ r.samples = s.samples \cup {seg}
    /\ DOMAIN r.dist = DOMAIN s.dist \cup {seg.to}
    /\ r.dist[seg.to] = s.dist[seg.from] + seg.length
    /\ \A n \in DOMAIN s.dist \ {seg.to} : r.dist[n] = s.dist[n]
    /\ DOMAIN r.previous = DOMAIN s.previous \cup {seg.to}
    /\ r.previous[seg.to] = seg.from
    /\ \A n \in DOMAIN s.previous \ {seg.to} : r.previous[n] = s.previous[n]

LEMMA ReachThroughIs ==
    ASSUME NEW s, SearchState(s), NEW seg
    PROVE  Through(s, seg, ReachThrough(s, seg))
<1>1. PICK d, p, v, m : s = [dist |-> d, previous |-> p, visited |-> v, samples |-> m]
  BY DEF SearchState
<1>2. PICK d1 : d1 = With(s.dist, seg.to, LengthThrough(s, seg))
  OBVIOUS
<1>3. PICK p1 : p1 = With(s.previous, seg.to, seg.from)
  OBVIOUS
<1>4. PICK r : r = ReachThrough(s, seg)
  OBVIOUS
<1>5. r = [s EXCEPT !.dist = d1, !.previous = p1, !.samples = s.samples \cup {seg}]
  BY <1>2, <1>3, <1>4 DEF ReachThrough
<1>6. r = [dist |-> d1, previous |-> p1, visited |-> v, samples |-> m \cup {seg}]
  BY <1>1, <1>5
<1>7. /\ SearchState(r) /\ r.visited = s.visited /\ r.samples = s.samples \cup {seg}
      /\ r.dist = d1 /\ r.previous = p1
  BY <1>1, <1>6 DEF SearchState
<1>8. /\ DOMAIN d1 = DOMAIN s.dist \cup {seg.to} /\ d1[seg.to] = s.dist[seg.from] + seg.length
      /\ \A n \in DOMAIN s.dist \ {seg.to} : d1[n] = s.dist[n]
  BY <1>2 DEF With, LengthThrough
<1>9. /\ DOMAIN p1 = DOMAIN s.previous \cup {seg.to} /\ p1[seg.to] = seg.from
      /\ \A n \in DOMAIN s.previous \ {seg.to} : p1[n] = s.previous[n]
  BY <1>3 DEF With
<1>10. QED
  BY <1>4, <1>7, <1>8, <1>9 DEF Through

\* A segment that leaves a visited node shortens the way to another.
Shortens(net, s, seg) ==
    /\ seg \in net /\ seg.passable /\ seg.from \in s.visited /\ seg.to \notin s.visited
    /\ seg.to \in DOMAIN s.dist => s.dist[seg.from] + seg.length < s.dist[seg.to]

LEMMA ReachesThrough ==
    ASSUME NEW net, Network(net), NEW start, NEW s, Reaches(net, start, s), NEW seg,
           Shortens(net, s, seg), NEW r, Through(s, seg, r)
    PROVE  Reaches(net, start, r) /\ seg.to # start
<1>1. PICK m : m = seg.to
  OBVIOUS
<1>2. PICK u : u = seg.from
  OBVIOUS
<1>3. m \in NodesOf(net) /\ seg.length \in Nat /\ u \in s.visited /\ m \notin s.visited
  BY <1>1, <1>2 DEF Shortens, Network, NodesOf
<1>4. s.dist[u] \in Nat /\ u \in DOMAIN s.dist
  BY <1>3 DEF Reaches
<1>5. m # start
  <2>1. SUFFICES ASSUME m = start PROVE FALSE
    OBVIOUS
  <2>2. s.dist[m] = 0 /\ m \in DOMAIN s.dist
    BY <2>1 DEF Reaches
  <2>3. s.dist[u] + seg.length < 0
    BY <1>1, <1>2, <2>2 DEF Shortens
  <2>4. QED
    BY <1>3, <1>4, <2>3
<1>6. DOMAIN r.dist = DOMAIN s.dist \cup {m} /\ r.dist[m] = s.dist[u] + seg.length
  BY <1>1, <1>2 DEF Through
<1>7. /\ start \in DOMAIN r.dist /\ DOMAIN r.dist \subseteq NodesOf(net)
      /\ \A n \in DOMAIN r.dist : r.dist[n] \in Nat
      /\ r.dist[start] = 0
  <2>1. \A n \in DOMAIN s.dist \ {m} : r.dist[n] = s.dist[n]
    BY <1>1 DEF Through
  <2>2. r.dist[m] \in Nat
    BY <1>3, <1>4, <1>6
  <2>3. QED
    BY <1>3, <1>5, <1>6, <2>1, <2>2 DEF Reaches
<1>8. /\ DOMAIN r.previous = DOMAIN r.dist \ {start}
      /\ \A n \in DOMAIN r.previous : r.previous[n] \in r.visited
      /\ r.visited \subseteq DOMAIN r.dist
  BY <1>1, <1>2, <1>3, <1>5 DEF Reaches, Through
<1>9. /\ \A t \in r.samples : t.from \in r.visited /\ t.to \in DOMAIN r.dist
      /\ \A n \in DOMAIN r.dist \ {start} : \E t \in r.samples : t.to = n
  BY <1>1, <1>2, <1>3 DEF Reaches, Through
<1>10. QED
  BY <1>1, <1>5, <1>7, <1>8, <1>9 DEF Reaches, Through

LEMMA TracedThrough ==
    ASSUME NEW net, Network(net), NEW start, NEW s, Reaches(net, start, s), Traced(net, start, s),
           NEW seg, Shortens(net, s, seg), NEW r, Through(s, seg, r)
    PROVE  Traced(net, start, r)
<1>1. PICK m : m = seg.to
  OBVIOUS
<1>2. PICK u : u = seg.from
  OBVIOUS
<1>3. PICK b : Traces(net, start, s, b)
  BY DEF Traced
<1>4. /\ u \in s.visited /\ m \notin s.visited /\ u \in DOMAIN s.dist /\ u # m
      /\ seg \in Leaving(net, u)
  BY <1>1, <1>2 DEF Shortens, Reaches, Leaving
<1>5. /\ DOMAIN r.dist = DOMAIN s.dist \cup {m} /\ r.dist[m] = s.dist[u] + seg.length
      /\ \A n \in DOMAIN s.dist \ {m} : r.dist[n] = s.dist[n]
      /\ DOMAIN r.previous = DOMAIN s.previous \cup {m} /\ r.previous[m] = u
      /\ \A n \in DOMAIN s.previous \ {m} : r.previous[n] = s.previous[n]
      /\ r.visited = s.visited
  BY <1>1, <1>2 DEF Through
<1>6. /\ DOMAIN s.previous \subseteq DOMAIN s.dist /\ s.visited \subseteq DOMAIN s.dist
      /\ \A n \in DOMAIN s.previous : s.previous[n] \in s.visited
  BY DEF Reaches
<1>7. \A n \in DOMAIN s.dist :
          b[n] = IF n \in DOMAIN s.previous THEN Append(b[s.previous[n]], n) ELSE <<n>>
  BY <1>3, BackIs DEF Traces
<1>8. PICK a : a = Append(b[u], m)
  OBVIOUS
<1>9. PICK c : c = [n \in DOMAIN r.dist |-> IF n = m THEN a ELSE b[n]]
  OBVIOUS
<1>10. c[m] = a /\ \A n \in DOMAIN s.dist \ {m} : c[n] = b[n]
  BY <1>5, <1>9
<1>11. Back(r, c)
  <2>1. c = [n \in DOMAIN r.dist |-> c[n]]
    BY <1>9
  <2>2. ASSUME NEW n \in DOMAIN r.dist
        PROVE  c[n] = IF n \in DOMAIN r.previous THEN Append(c[r.previous[n]], n) ELSE <<n>>
    <3>1. CASE n = m
      BY <1>4, <1>5, <1>8, <1>10, <3>1
    <3>2. CASE n # m
      <4>1. n \in DOMAIN s.dist /\ c[n] = b[n]
        BY <1>5, <1>10, <3>2
      <4>2. n \in DOMAIN r.previous <=> n \in DOMAIN s.previous
        BY <1>5, <3>2
      <4>3. CASE n \in DOMAIN s.previous
        <5>1. r.previous[n] = s.previous[n] /\ s.previous[n] \in DOMAIN s.dist \ {m}
          BY <1>4, <1>5, <1>6, <3>2, <4>3
        <5>2. c[r.previous[n]] = b[s.previous[n]]
          BY <1>10, <5>1
        <5>3. QED
          BY <1>7, <4>1, <4>2, <4>3, <5>2
      <4>4. CASE n \notin DOMAIN s.previous
        BY <1>7, <4>1, <4>2, <4>4
      <4>5. QED
        BY <4>3, <4>4
    <3>3. QED
      BY <3>1, <3>2
  <2>3. \A n \in DOMAIN r.dist :
            c[n] = IF n \in DOMAIN r.previous THEN Append(c[r.previous[n]], n) ELSE <<n>>
    BY <2>2
  <2>4. QED
    BY <2>1, <2>3, IsBack
<1>12. ASSUME NEW x, Back(r, x) PROVE x = c
  <2>1. /\ x = [n \in DOMAIN r.dist |-> x[n]]
        /\ \A n \in DOMAIN r.dist :
              x[n] = IF n \in DOMAIN r.previous THEN Append(x[r.previous[n]], n) ELSE <<n>>
    <3>1. DOMAIN x = DOMAIN r.dist /\ x = [n \in DOMAIN x |-> x[n]]
      BY <1>12 DEF Back
    <3>2. QED
      BY <1>12, <3>1, BackIs
  <2>2. PICK z : z = IF m \in DOMAIN s.previous THEN Append(x[s.previous[m]], m) ELSE <<m>>
    OBVIOUS
  <2>3. PICK y : y = [n \in DOMAIN s.dist |-> IF n = m THEN z ELSE x[n]]
    OBVIOUS
  <2>4. Back(s, y)
    <3>1. y = [n \in DOMAIN s.dist |-> y[n]]
      BY <2>3
    <3>2. \A n \in DOMAIN s.previous : y[s.previous[n]] = x[s.previous[n]]
      BY <1>4, <1>6, <2>3
    <3>3. ASSUME NEW n \in DOMAIN s.dist
          PROVE  y[n] = IF n \in DOMAIN s.previous THEN Append(y[s.previous[n]], n) ELSE <<n>>
      <4>1. CASE n = m
        BY <2>2, <2>3, <3>2, <4>1
      <4>2. CASE n # m
        <5>1. y[n] = x[n] /\ n \in DOMAIN r.dist
          BY <1>5, <2>3, <4>2
        <5>2. /\ n \in DOMAIN r.previous <=> n \in DOMAIN s.previous
              /\ n \in DOMAIN s.previous => r.previous[n] = s.previous[n]
          BY <1>5, <4>2
        <5>3. QED
          BY <2>1, <3>2, <5>1, <5>2
      <4>3. QED
        BY <4>1, <4>2
    <3>4. \A n \in DOMAIN s.dist :
              y[n] = IF n \in DOMAIN s.previous THEN Append(y[s.previous[n]], n) ELSE <<n>>
      BY <3>3
    <3>5. QED
      BY <3>1, <3>4, IsBack
  <2>5. y = b
    BY <1>3, <2>4 DEF Traces
  <2>6. \A n \in DOMAIN s.dist \ {m} : x[n] = b[n]
    BY <2>3, <2>5
  <2>7. x[m] = a
    <3>1. x[m] = Append(x[u], m)
      BY <1>5, <2>1
    <3>2. x[u] = b[u]
      BY <1>4, <2>6
    <3>3. QED
      BY <1>8, <3>1, <3>2
  <2>8. \A n \in DOMAIN r.dist : x[n] = IF n = m THEN a ELSE b[n]
    BY <1>5, <2>6, <2>7
  <2>9. QED
    BY <1>9, <2>1, <2>8
<1>13. ASSUME NEW n \in DOMAIN s.dist
       PROVE  /\ IsWay(net, start, n, b[n]) /\ LengthOf(net, b[n]) = s.dist[n]
              /\ \A i \in 1 .. Len(b[n]) - 1 : b[n][i] \in s.visited
  BY <1>3 DEF Traces
<1>14. /\ IsWay(net, start, m, a) /\ LengthOf(net, a) = r.dist[m]
       /\ \A i \in 1 .. Len(a) - 1 : a[i] \in s.visited
  <2>1. PICK p : p = b[u]
    OBVIOUS
  <2>2. /\ IsWay(net, start, u, p) /\ LengthOf(net, p) = s.dist[u]
        /\ \A i \in 1 .. Len(p) - 1 : p[i] \in s.visited
    BY <1>4, <1>13, <2>1
  <2>3. p \in Seq(NodesOf(net)) /\ Len(p) \in Nat \ {0} /\ p[Len(p)] = u
    BY <2>2 DEF IsWay
  <2>4. \A i \in 1 .. Len(p) : p[i] \in s.visited
    <3>1. \A i \in 1 .. Len(p) : i \in 1 .. Len(p) - 1 \/ i = Len(p)
      BY <2>3
    <3>2. QED
      BY <1>4, <2>2, <2>3, <3>1
  <2>5. \A i \in 1 .. Len(p) : p[i] # seg.to
    BY <1>1, <1>4, <2>4
  <2>6. /\ IsWay(net, start, seg.to, Append(p, seg.to)) /\ Len(Append(p, seg.to)) = Len(p) + 1
        /\ \A i \in 1 .. Len(p) : Append(p, seg.to)[i] = p[i]
    BY <1>4, <2>2, <2>5, WayOn
  <2>7. m \in NodesOf(net) /\ p # << >>
    <3>1. m \in NodesOf(net)
      BY <1>1, <1>4 DEF Leaving, NodesOf
    <3>2. QED
      BY <2>3, <3>1
  <2>8. LengthOf(net, Append(p, m)) = LengthOf(net, p) + StepLength(net, p[Len(p)], m)
    BY <2>3, <2>7, LengthOfAppend
  <2>9. StepLength(net, u, m) = seg.length
    BY <1>1, <1>4, StepLengthIs
  <2>10. \A i \in 1 .. Len(a) - 1 : a[i] \in s.visited
    BY <1>1, <1>8, <2>1, <2>3, <2>4, <2>6
  <2>11. QED
    BY <1>1, <1>5, <1>8, <2>1, <2>2, <2>3, <2>6, <2>8, <2>9, <2>10
<1>15. ASSUME NEW n \in DOMAIN r.dist
       PROVE  /\ IsWay(net, start, n, c[n]) /\ LengthOf(net, c[n]) = r.dist[n]
              /\ \A i \in 1 .. Len(c[n]) - 1 : c[n][i] \in r.visited
  <2>1. CASE n = m
    BY <1>5, <1>10, <1>14, <2>1
  <2>2. CASE n # m
    <3>1. n \in DOMAIN s.dist /\ c[n] = b[n] /\ r.dist[n] = s.dist[n]
      BY <1>5, <1>10, <2>2
    <3>2. QED
      BY <1>5, <1>13, <3>1
  <2>3. QED
    BY <2>1, <2>2
<1>16. Traces(net, start, r, c)
  BY <1>11, <1>12, <1>15 DEF Traces
<1>17. QED
  BY <1>16 DEF Traced

-----------------------------------------------------------------------------
(* Relaxing what leaves a node                                              *)

\* What is estimated to remain: never more than a segment and what remains
\* after it.
Consistent(net, h) ==
    /\ \A n \in NodesOf(net) : h[n] \in Nat
    /\ \A seg \in net : h[seg.from] <= seg.length + h[seg.to]

\* The nearest are visited first.
Ordered(h, s) ==
    \A u \in s.visited : \A v \in DOMAIN s.dist \ s.visited : s.dist[u] + h[u] <= s.dist[v] + h[v]
Followed(s, seg) == seg.to \in DOMAIN s.dist /\ s.dist[seg.to] <= s.dist[seg.from] + seg.length

\* Up to a node: what was visited is as near as it, what was not no nearer.
Nearest(h, s, node) ==
    /\ node \in s.visited
    /\ \A u \in s.visited : s.dist[u] + h[u] <= s.dist[node] + h[node]
    /\ \A v \in DOMAIN s.dist \ s.visited : s.dist[node] + h[node] <= s.dist[v] + h[v]
Shrinks(s, r) ==
    /\ r.visited = s.visited
    /\ DOMAIN s.dist \subseteq DOMAIN r.dist
    /\ \A n \in s.visited : r.dist[n] = s.dist[n]
    /\ \A n \in DOMAIN s.dist : r.dist[n] <= s.dist[n]

LEMMA ShortensIs ==
    ASSUME NEW net, Network(net), NEW h, Consistent(net, h), NEW start, NEW s,
           Reaches(net, start, s), NEW node, Nearest(h, s, node), NEW seg \in Leaving(net, node),
           ~(seg.to \in DOMAIN s.dist /\ LengthThrough(s, seg) >= s.dist[seg.to])
    PROVE  Shortens(net, s, seg)
<1>1. PICK m : m = seg.to
  OBVIOUS
<1>2. seg \in net /\ seg.from = node /\ seg.passable
  BY DEF Leaving
<1>3. /\ node \in s.visited /\ node \in DOMAIN s.dist /\ s.dist[node] \in Nat
      /\ seg.length \in Nat /\ m \in NodesOf(net) /\ node \in NodesOf(net)
      /\ h[m] \in Nat /\ h[node] \in Nat /\ h[node] <= seg.length + h[m]
  BY <1>1, <1>2 DEF Nearest, Reaches, Network, NodesOf, Consistent
<1>4. m \in DOMAIN s.dist => s.dist[m] \in Nat /\ s.dist[node] + seg.length < s.dist[m]
  <2>1. ASSUME m \in DOMAIN s.dist
        PROVE  s.dist[m] \in Nat /\ s.dist[node] + seg.length < s.dist[m]
    <3>1. s.dist[m] \in Nat
      BY <2>1 DEF Reaches
    <3>2. ~(s.dist[node] + seg.length >= s.dist[m])
      BY <1>1, <1>2, <2>1 DEF LengthThrough
    <3>3. QED
      BY <1>3, <3>1, <3>2
  <2>2. QED
    BY <2>1
<1>5. m \notin s.visited
  <2>1. SUFFICES ASSUME m \in s.visited PROVE FALSE
    OBVIOUS
  <2>2. m \in DOMAIN s.dist /\ s.dist[m] + h[m] <= s.dist[node] + h[node]
    BY <2>1 DEF Reaches, Nearest
  <2>3. s.dist[m] \in Nat /\ s.dist[node] + seg.length < s.dist[m]
    BY <1>4, <2>2
  <2>4. QED
    BY <1>3, <2>2, <2>3
<1>6. QED
  BY <1>1, <1>2, <1>3, <1>4, <1>5 DEF Shortens

LEMMA ShrinksThrough ==
    ASSUME NEW net, Network(net), NEW h, Consistent(net, h), NEW start, NEW s,
           Reaches(net, start, s), NEW node, Nearest(h, s, node), NEW seg \in Leaving(net, node),
           Shortens(net, s, seg), NEW r, Through(s, seg, r)
    PROVE  Shrinks(s, r) /\ Nearest(h, r, node) /\ Followed(r, seg)
<1>1. PICK m : m = seg.to
  OBVIOUS
<1>2. seg \in net /\ seg.from = node
  BY DEF Leaving
<1>3. /\ node \in s.visited /\ node \in DOMAIN s.dist /\ s.dist[node] \in Nat
      /\ seg.length \in Nat /\ m \in NodesOf(net) /\ node \in NodesOf(net)
      /\ h[m] \in Nat /\ h[node] \in Nat /\ h[node] <= seg.length + h[m]
  BY <1>1, <1>2 DEF Nearest, Reaches, Network, NodesOf, Consistent
<1>4. /\ r.visited = s.visited /\ DOMAIN r.dist = DOMAIN s.dist \cup {m}
      /\ r.dist[m] = s.dist[node] + seg.length
      /\ \A n \in DOMAIN s.dist \ {m} : r.dist[n] = s.dist[n]
  BY <1>1, <1>2 DEF Through
<1>5. m \notin s.visited /\ (m \in DOMAIN s.dist => s.dist[node] + seg.length < s.dist[m])
  BY <1>1, <1>2 DEF Shortens
<1>6. s.visited \subseteq DOMAIN s.dist /\ \A n \in DOMAIN s.dist : s.dist[n] \in Nat
  BY DEF Reaches
<1>7. \A n \in s.visited : r.dist[n] = s.dist[n]
  BY <1>4, <1>5, <1>6
<1>8. ASSUME NEW n \in DOMAIN s.dist PROVE r.dist[n] <= s.dist[n]
  <2>1. CASE n = m
    <3>1. s.dist[m] \in Nat /\ s.dist[node] + seg.length < s.dist[m]
      BY <1>5, <1>6, <2>1
    <3>2. QED
      BY <1>3, <1>4, <2>1, <3>1
  <2>2. CASE n # m
    <3>1. r.dist[n] = s.dist[n] /\ s.dist[n] \in Nat
      BY <1>4, <1>6, <2>2
    <3>2. QED
      BY <3>1
  <2>3. QED
    BY <2>1, <2>2
<1>9. Shrinks(s, r)
  BY <1>4, <1>7, <1>8 DEF Shrinks
<1>10. Followed(r, seg)
  <2>1. r.dist[node] = s.dist[node]
    BY <1>3, <1>7
  <2>2. r.dist[m] <= r.dist[node] + seg.length
    BY <1>3, <1>4, <2>1
  <2>3. QED
    BY <1>1, <1>2, <1>4, <2>2 DEF Followed
<1>11. Nearest(h, r, node)
  <2>1. \A u \in r.visited : r.dist[u] + h[u] <= r.dist[node] + h[node]
    BY <1>3, <1>4, <1>7 DEF Nearest
  <2>2. ASSUME NEW v \in DOMAIN r.dist \ r.visited
        PROVE  r.dist[node] + h[node] <= r.dist[v] + h[v]
    <3>1. r.dist[node] = s.dist[node]
      BY <1>3, <1>7
    <3>2. CASE v = m
      BY <1>3, <1>4, <3>1, <3>2
    <3>3. CASE v # m
      <4>1. v \in DOMAIN s.dist \ s.visited /\ r.dist[v] = s.dist[v]
        BY <1>4, <3>3
      <4>2. QED
        BY <3>1, <4>1 DEF Nearest
    <3>4. QED
      BY <3>2, <3>3
  <2>3. QED
    BY <1>3, <1>4, <2>1, <2>2 DEF Nearest
<1>12. QED
  BY <1>9, <1>10, <1>11

\* Relaxing the segments that leave a node, from what was reached before.
Relaxed(q, T, r) ==
    /\ Reaches(q.net, q.start, r) /\ Traced(q.net, q.start, r)
    /\ Nearest(q.h, r, q.node) /\ Shrinks(q.before, r)
    /\ \A seg \in T : Followed(r, seg)
RelaxNode(q, seg, r) == Relax(r, seg)
RelaxingNode == INSTANCE FiniteFolds WITH Op <- RelaxNode, Holds <- Relaxed

LEMMA ShrinksOn ==
    ASSUME NEW net, NEW start, NEW s, NEW r, NEW t, Reaches(net, start, s),
           Reaches(net, start, r), Reaches(net, start, t), Shrinks(s, r), Shrinks(r, t)
    PROVE  Shrinks(s, t)
<1>1. /\ t.visited = s.visited
      /\ DOMAIN s.dist \subseteq DOMAIN t.dist
      /\ \A n \in s.visited : t.dist[n] = s.dist[n]
  BY DEF Shrinks
<1>2. ASSUME NEW n \in DOMAIN s.dist PROVE t.dist[n] <= s.dist[n]
  <2>1. n \in DOMAIN r.dist /\ n \in DOMAIN t.dist /\ r.dist[n] <= s.dist[n] /\ t.dist[n] <= r.dist[n]
    BY DEF Shrinks
  <2>2. s.dist[n] \in Nat /\ r.dist[n] \in Nat /\ t.dist[n] \in Nat
    BY <2>1 DEF Reaches
  <2>3. QED
    BY <2>1, <2>2
<1>3. QED
  BY <1>1, <1>2 DEF Shrinks

LEMMA SettledOn ==
    ASSUME NEW net, Network(net), NEW start, NEW s, NEW r, Reaches(net, start, s),
           Reaches(net, start, r), Shrinks(s, r), NEW seg \in net, seg.from \in s.visited,
           Followed(s, seg)
    PROVE  Followed(r, seg)
<1>1. seg.to \in DOMAIN s.dist /\ s.dist[seg.to] <= s.dist[seg.from] + seg.length
  BY DEF Followed
<1>2. seg.to \in DOMAIN r.dist /\ r.dist[seg.to] <= s.dist[seg.to] /\ r.dist[seg.from] = s.dist[seg.from]
  BY <1>1 DEF Shrinks
<1>3. /\ s.dist[seg.to] \in Nat /\ r.dist[seg.to] \in Nat /\ s.dist[seg.from] \in Nat
      /\ seg.length \in Nat
  BY <1>1, <1>2 DEF Reaches, Network
<1>4. r.dist[seg.to] <= r.dist[seg.from] + seg.length
  BY <1>1, <1>2, <1>3
<1>5. QED
  BY <1>2, <1>4 DEF Followed

LEMMA RelaxedOn ==
    ASSUME NEW q, Network(q.net), Consistent(q.net, q.h), Reaches(q.net, q.start, q.before),
           NEW T, T \subseteq Leaving(q.net, q.node), NEW x \in T, NEW y, Relaxed(q, T \ {x}, y)
    PROVE  Relaxed(q, T, Relax(y, x))
<1>1. PICK net, h, start, node, before :
          net = q.net /\ h = q.h /\ start = q.start /\ node = q.node /\ before = q.before
  OBVIOUS
<1>2. /\ Network(net) /\ Consistent(net, h) /\ Reaches(net, start, before)
      /\ T \subseteq Leaving(net, node) /\ x \in Leaving(net, node)
      /\ Reaches(net, start, y) /\ Traced(net, start, y) /\ Nearest(h, y, node) /\ Shrinks(before, y)
      /\ \A seg \in T \ {x} : Followed(y, seg)
  BY <1>1 DEF Relaxed
<1>3. CASE x.to \in DOMAIN y.dist /\ LengthThrough(y, x) >= y.dist[x.to]
  <2>1. Relax(y, x) = y
    BY <1>3 DEF Relax
  <2>2. Followed(y, x)
    <3>1. x \in net /\ x.from = node
      BY <1>2 DEF Leaving
    <3>2. x.length \in Nat /\ y.dist[x.to] \in Nat /\ y.dist[x.from] \in Nat
      BY <1>2, <1>3, <3>1 DEF Network, Reaches, Nearest
    <3>3. y.dist[x.to] <= y.dist[x.from] + x.length
      BY <1>3, <3>2 DEF LengthThrough
    <3>4. QED
      BY <1>3, <3>3 DEF Followed
  <2>3. QED
    BY <1>1, <1>2, <2>1, <2>2 DEF Relaxed
<1>4. CASE ~(x.to \in DOMAIN y.dist /\ LengthThrough(y, x) >= y.dist[x.to])
  <2>1. PICK r : r = ReachThrough(y, x)
    OBVIOUS
  <2>2. Relax(y, x) = r
    BY <1>4, <2>1 DEF Relax
  <2>3. Shortens(net, y, x)
    BY <1>2, <1>4, ShortensIs
  <2>4. Through(y, x, r)
    <3>1. SearchState(y)
      BY <1>2 DEF Reaches
    <3>2. QED
      BY <2>1, <3>1, ReachThroughIs
  <2>5. Reaches(net, start, r)
    BY <1>2, <2>3, <2>4, ReachesThrough
  <2>6. Traced(net, start, r)
    BY <1>2, <2>3, <2>4, TracedThrough
  <2>7. Shrinks(y, r) /\ Nearest(h, r, node) /\ Followed(r, x)
    BY <1>2, <2>3, <2>4, ShrinksThrough
  <2>8. Shrinks(before, r)
    BY <1>2, <2>5, <2>7, ShrinksOn
  <2>9. ASSUME NEW seg \in T PROVE Followed(r, seg)
    <3>1. CASE seg = x
      BY <2>7, <3>1
    <3>2. CASE seg # x
      <4>1. seg \in net /\ seg.from = node /\ node \in y.visited
        BY <1>2 DEF Leaving, Nearest
      <4>2. Followed(y, seg)
        BY <1>2, <3>2
      <4>3. QED
        BY <1>2, <2>5, <2>7, <4>1, <4>2, SettledOn
    <3>3. QED
      BY <3>1, <3>2
  <2>10. QED
    BY <1>1, <2>2, <2>5, <2>6, <2>7, <2>8, <2>9 DEF Relaxed
<1>5. QED
  BY <1>3, <1>4

LEMMA RelaxedAll ==
    ASSUME NEW net, Network(net), NEW h, Consistent(net, h), NEW start, NEW s,
           Reaches(net, start, s), Traced(net, start, s), NEW node, Nearest(h, s, node)
    PROVE  \E r : /\ r = FoldSet(LAMBDA seg, t : Relax(t, seg), s, Leaving(net, node))
                  /\ Reaches(net, start, r) /\ Traced(net, start, r)
                  /\ Nearest(h, r, node) /\ Shrinks(s, r)
                  /\ \A seg \in Leaving(net, node) : Followed(r, seg)
<1>1. PICK q : q = [net |-> net, start |-> start, h |-> h, node |-> node, before |-> s]
  OBVIOUS
<1>2. q.net = net /\ q.start = start /\ q.h = h /\ q.node = node /\ q.before = s
  BY <1>1
<1>3. PICK r : r = FoldSet(LAMBDA seg, t : Relax(t, seg), s, Leaving(net, node))
  OBVIOUS
<1>4. PICK S : S = Leaving(net, node)
  OBVIOUS
<1>5. r = RelaxingNode!Fold(q, s, S)
  BY <1>3, <1>4 DEF FoldSet, MapThenFoldSet, RelaxingNode!Fold, RelaxingNode!Pick, RelaxNode
<1>6. IsFiniteSet(S)
  BY <1>4, FS_Subset DEF Leaving, Network
<1>7. Relaxed(q, {}, s)
  <2>1. Shrinks(s, s)
    <3>1. \A n \in DOMAIN s.dist : s.dist[n] \in Nat
      BY DEF Reaches
    <3>2. QED
      BY <3>1 DEF Shrinks
  <2>2. QED
    BY <1>2, <2>1 DEF Relaxed
<1>8. ASSUME NEW T \in SUBSET S, NEW x \in T, NEW y, Relaxed(q, T \ {x}, y)
      PROVE  Relaxed(q, T, RelaxNode(q, x, y))
  <2>1. T \subseteq Leaving(q.net, q.node)
    BY <1>2, <1>4
  <2>2. Network(q.net) /\ Consistent(q.net, q.h) /\ Reaches(q.net, q.start, q.before)
    BY <1>2
  <2>3. Relaxed(q, T, Relax(y, x))
    BY <1>8, <2>1, <2>2, RelaxedOn
  <2>4. QED
    BY <2>3 DEF RelaxNode
<1>9. Relaxed(q, S, RelaxingNode!Fold(q, s, S))
  <2>1. \A T \in SUBSET S : \A x \in T : \A y :
            Relaxed(q, T \ {x}, y) => Relaxed(q, T, RelaxNode(q, x, y))
    BY <1>8
  <2>2. QED
    BY <1>6, <1>7, <2>1, RelaxingNode!FoldHolds DEF IsFiniteSet, RelaxingNode!IsFiniteSet
<1>10. QED
  BY <1>2, <1>3, <1>4, <1>5, <1>9 DEF Relaxed

-----------------------------------------------------------------------------
(* The turns of a search                                                    *)

Finished(s, targets) == Unvisited(s) = {} \/ targets \cap s.visited # {}

\* A search after so many turns: a node visited in each until it finishes,
\* and what leaves the nodes visited relaxed, but for the target.
Explored(net, start, h, targets, s) ==
    /\ Reaches(net, start, s) /\ Traced(net, start, s) /\ Ordered(h, s)
    /\ \A u \in s.visited \ targets : \A seg \in Leaving(net, u) : Followed(s, seg)
Explores(q, turn, s) ==
    /\ Explored(q.net, q.start, q.remaining, q.targets, s)
    /\ Finished(s, q.targets) \/ Cardinality(s.visited) = turn
VisitNext(q, turn, s) == Visit(s, q.net, q.remaining, q.targets)
VisitingNodes == INSTANCE FiniteFolds WITH Op <- VisitNext, Holds <- Explores

\* Visiting one more node.
Visited(s, node, r) ==
    /\ SearchState(r) /\ r.dist = s.dist /\ r.previous = s.previous /\ r.samples = s.samples
    /\ r.visited = s.visited \cup {node}

LEMMA VisitedIs ==
    ASSUME NEW s, SearchState(s), NEW node
    PROVE  Visited(s, node, [s EXCEPT !.visited = @ \cup {node}])
<1>1. PICK d, p, v, m : s = [dist |-> d, previous |-> p, visited |-> v, samples |-> m]
  BY DEF SearchState
<1>2. PICK r : r = [s EXCEPT !.visited = @ \cup {node}]
  OBVIOUS
<1>3. r = [dist |-> d, previous |-> p, visited |-> v \cup {node}, samples |-> m]
  BY <1>1, <1>2
<1>4. Visited(s, node, r)
  BY <1>1, <1>3 DEF Visited, SearchState
<1>5. QED
  BY <1>2, <1>4

LEMMA ExploredVisited ==
    ASSUME NEW net, Network(net), NEW h, Consistent(net, h), NEW start, NEW s,
           Reaches(net, start, s), Traced(net, start, s), Ordered(h, s), NEW node \in Unvisited(s),
           \A n \in Unvisited(s) : s.dist[node] + h[node] <= s.dist[n] + h[n],
           NEW r, Visited(s, node, r)
    PROVE  Reaches(net, start, r) /\ Traced(net, start, r) /\ Ordered(h, r) /\ Nearest(h, r, node)
<1>1. node \in DOMAIN s.dist /\ node \notin s.visited
  BY DEF Unvisited
<1>2. Reaches(net, start, r)
  BY <1>1 DEF Reaches, Visited
<1>3. Traced(net, start, r)
  <2>1. PICK b : Traces(net, start, s, b)
    BY DEF Traced
  <2>2. /\ Back(s, b) /\ (\A c : Back(s, c) => c = b)
        /\ \A n \in DOMAIN s.dist : IsWay(net, start, n, b[n]) /\ LengthOf(net, b[n]) = s.dist[n]
        /\ \A n \in DOMAIN s.dist : \A i \in 1 .. Len(b[n]) - 1 : b[n][i] \in s.visited
    BY <2>1 DEF Traces
  <2>3. \A c : Back(r, c) <=> Back(s, c)
    BY DEF Back, Visited
  <2>4. r.dist = s.dist /\ s.visited \subseteq r.visited
    BY DEF Visited
  <2>5. Traces(net, start, r, b)
    BY <2>2, <2>3, <2>4 DEF Traces
  <2>6. QED
    BY <2>5 DEF Traced
<1>4. /\ r.dist = s.dist /\ r.visited = s.visited \cup {node}
      /\ DOMAIN r.dist \ r.visited \subseteq Unvisited(s)
  BY DEF Visited, Unvisited
<1>5. \A u \in s.visited : s.dist[u] + h[u] <= s.dist[node] + h[node]
  BY <1>1 DEF Ordered
<1>6. Ordered(h, r)
  <2>1. ASSUME NEW u \in r.visited, NEW v \in DOMAIN r.dist \ r.visited
        PROVE  s.dist[u] + h[u] <= s.dist[v] + h[v]
    <3>1. v \in Unvisited(s) /\ v \in DOMAIN s.dist \ s.visited
      BY <1>4 DEF Unvisited
    <3>2. QED
      BY <1>4, <3>1 DEF Ordered
  <2>2. QED
    BY <1>4, <2>1 DEF Ordered
<1>7. Nearest(h, r, node)
  <2>1. s.dist[node] + h[node] <= s.dist[node] + h[node]
    <3>1. s.dist[node] \in Nat /\ h[node] \in Nat
      BY <1>1 DEF Reaches, Consistent
    <3>2. QED
      BY <3>1
  <2>2. \A u \in r.visited : r.dist[u] + h[u] <= r.dist[node] + h[node]
    BY <1>4, <1>5, <2>1
  <2>3. \A v \in DOMAIN r.dist \ r.visited : r.dist[node] + h[node] <= r.dist[v] + h[v]
    BY <1>4
  <2>4. QED
    BY <1>4, <2>2, <2>3 DEF Nearest
<1>8. QED
  BY <1>2, <1>3, <1>6, <1>7

\* The nearest stay ordered when what leaves the last of them is relaxed.
LEMMA NearestOrdered ==
    ASSUME NEW net, Network(net), NEW h, Consistent(net, h), NEW start, NEW r,
           Reaches(net, start, r), NEW node, Nearest(h, r, node)
    PROVE  Ordered(h, r)
<1>1. ASSUME NEW u \in r.visited, NEW v \in DOMAIN r.dist \ r.visited
      PROVE  r.dist[u] + h[u] <= r.dist[v] + h[v]
  <2>1. /\ r.dist[u] + h[u] <= r.dist[node] + h[node]
        /\ r.dist[node] + h[node] <= r.dist[v] + h[v]
        /\ u \in DOMAIN r.dist /\ node \in DOMAIN r.dist /\ v \in DOMAIN r.dist
    BY DEF Nearest, Reaches
  <2>2. /\ r.dist[u] \in Nat /\ r.dist[node] \in Nat /\ r.dist[v] \in Nat
        /\ h[u] \in Nat /\ h[node] \in Nat /\ h[v] \in Nat
    BY <2>1 DEF Reaches, Consistent
  <2>3. QED
    BY <2>1, <2>2
<1>2. QED
  BY <1>1 DEF Ordered

LEMMA VisitExplores ==
    ASSUME NEW net, Network(net), NEW h, Consistent(net, h), NEW start, NEW targets, NEW s,
           Explored(net, start, h, targets, s), ~Finished(s, targets)
    PROVE  \E node \in Unvisited(s) :
              /\ Explored(net, start, h, targets, Visit(s, net, h, targets))
              /\ Visit(s, net, h, targets).visited = s.visited \cup {node}
<1>1. /\ Reaches(net, start, s) /\ Traced(net, start, s) /\ Ordered(h, s)
      /\ \A u \in s.visited \ targets : \A seg \in Leaving(net, u) : Followed(s, seg)
  BY DEF Explored
<1>2. PICK cost : cost = [n \in Unvisited(s) |-> s.dist[n] + h[n]]
  OBVIOUS
<1>3. PICK node : node = Least(Unvisited(s), cost)
  OBVIOUS
<1>4. PICK t : t = [s EXCEPT !.visited = @ \cup {node}]
  OBVIOUS
<1>5. Unvisited(s) # {} /\ ~(Unvisited(s) = {} \/ targets \cap s.visited # {})
  BY DEF Finished
<1>6. Visit(s, net, h, targets) =
          IF node \in targets THEN t
          ELSE FoldSet(LAMBDA seg, r : Relax(r, seg), t, Leaving(net, node))
  BY <1>2, <1>3, <1>4, <1>5 DEF Visit
<1>7. \A n \in Unvisited(s) : cost[n] \in Nat /\ cost[n] = s.dist[n] + h[n]
  BY <1>1, <1>2 DEF Unvisited, Reaches, Consistent
<1>8. /\ node \in Unvisited(s)
      /\ \A n \in Unvisited(s) : s.dist[node] + h[node] <= s.dist[n] + h[n]
  <2>1. PICK S : S = Unvisited(s)
    OBVIOUS
  <2>2. S # {} /\ \A n \in S : cost[n] \in Nat
    BY <1>5, <1>7, <2>1
  <2>3. Least(S, cost) \in S /\ \A y \in S : cost[Least(S, cost)] <= cost[y]
    BY <2>2, LeastIs
  <2>4. QED
    BY <1>3, <1>7, <2>1, <2>3
<1>9. Visited(s, node, t)
  <2>1. SearchState(s)
    BY <1>1 DEF Reaches
  <2>2. QED
    BY <1>4, <2>1, VisitedIs
<1>10. Reaches(net, start, t) /\ Traced(net, start, t) /\ Ordered(h, t) /\ Nearest(h, t, node)
  BY <1>1, <1>8, <1>9, ExploredVisited
<1>11. t.visited = s.visited \cup {node} /\ \A seg : Followed(t, seg) <=> Followed(s, seg)
  BY <1>9 DEF Visited, Followed
<1>12. CASE node \in targets
  <2>1. \A u \in t.visited \ targets : \A seg \in Leaving(net, u) : Followed(t, seg)
    BY <1>1, <1>11, <1>12
  <2>2. Explored(net, start, h, targets, t)
    BY <1>10, <2>1 DEF Explored
  <2>3. QED
    BY <1>6, <1>8, <1>11, <1>12, <2>2
<1>13. CASE node \notin targets
  <2>1. PICK r : /\ r = FoldSet(LAMBDA seg, x : Relax(x, seg), t, Leaving(net, node))
                 /\ Reaches(net, start, r) /\ Traced(net, start, r)
                 /\ Nearest(h, r, node) /\ Shrinks(t, r)
                 /\ \A seg \in Leaving(net, node) : Followed(r, seg)
    BY <1>10, RelaxedAll
  <2>2. Ordered(h, r)
    BY <2>1, NearestOrdered
  <2>3. r.visited = t.visited
    BY <2>1 DEF Shrinks
  <2>4. ASSUME NEW u \in r.visited \ targets, NEW seg \in Leaving(net, u) PROVE Followed(r, seg)
    <3>1. CASE u = node
      BY <2>1, <3>1
    <3>2. CASE u # node
      <4>1. u \in s.visited \ targets /\ seg \in net /\ seg.from = u /\ u \in t.visited
        BY <1>11, <2>3, <3>2 DEF Leaving
      <4>2. Followed(t, seg)
        BY <1>1, <1>11, <4>1
      <4>3. QED
        BY <1>10, <2>1, <4>1, <4>2, SettledOn
    <3>3. QED
      BY <3>1, <3>2
  <2>5. Explored(net, start, h, targets, r)
    BY <2>1, <2>2, <2>4 DEF Explored
  <2>6. Visit(s, net, h, targets) = r
    BY <1>6, <1>13, <2>1
  <2>7. QED
    BY <1>8, <1>11, <2>3, <2>5, <2>6
<1>14. QED
  BY <1>12, <1>13

\* Of the start.
LEMMA StartExplored ==
    ASSUME NEW net, NEW h, NEW start \in NodesOf(net), NEW targets
    PROVE  Explored(net, start, h, targets, Started(start)) /\ Started(start).visited = {}
<1>1. PICK s : s = Started(start)
  OBVIOUS
<1>2. /\ SearchState(s) /\ s.dist = [n \in {start} |-> 0] /\ s.previous = << >>
      /\ s.visited = {} /\ s.samples = {}
  BY <1>1 DEF Started, SearchState
<1>3. DOMAIN s.previous = {}
  BY <1>2
<1>4. Reaches(net, start, s)
  BY <1>2, <1>3 DEF Reaches
<1>5. PICK b : b = [n \in {start} |-> <<n>>]
  OBVIOUS
<1>6. Traces(net, start, s, b)
  <2>1. \A c : Back(s, c) <=> c = b
    BY <1>2, <1>3, <1>5 DEF Back
  <2>2. b[start] = <<start>> /\ Len(<<start>>) = 1
    BY <1>5
  <2>3. IsWay(net, start, start, <<start>>) /\ LengthOf(net, <<start>>) = 0
    BY WayOfOne, LengthOfOne
  <2>4. \A n \in DOMAIN s.dist : n = start /\ s.dist[n] = 0
    BY <1>2
  <2>5. \A n \in DOMAIN s.dist : IsWay(net, start, n, b[n]) /\ LengthOf(net, b[n]) = s.dist[n]
    BY <2>2, <2>3, <2>4
  <2>6. \A n \in DOMAIN s.dist : \A i \in 1 .. Len(b[n]) - 1 : b[n][i] \in s.visited
    <3>1. ASSUME NEW n \in DOMAIN s.dist PROVE 1 .. Len(b[n]) - 1 = {}
      <4>1. Len(b[n]) - 1 = 0
        BY <2>2, <2>4
      <4>2. 1 .. 0 = {}
        OBVIOUS
      <4>3. QED
        BY <4>1, <4>2
    <3>2. QED
      BY <3>1
  <2>7. QED
    BY <2>1, <2>5, <2>6 DEF Traces
<1>7. QED
  BY <1>1, <1>2, <1>4, <1>6 DEF Explored, Ordered, Traced

LEMMA SearchExplores ==
    ASSUME NEW net, Network(net), NEW h, Consistent(net, h), NEW start \in NodesOf(net), NEW targets
    PROVE  /\ Explored(net, start, h, targets, Search(net, start, h, targets))
           /\ Finished(Search(net, start, h, targets), targets)
<1>1. PICK q : q = [net |-> net, start |-> start, remaining |-> h, targets |-> targets]
  OBVIOUS
<1>2. q.net = net /\ q.start = start /\ q.remaining = h /\ q.targets = targets
  BY <1>1
<1>3. PICK n : n = Cardinality(NodesOf(net))
  OBVIOUS
<1>4. IsFiniteSet(NodesOf(net)) /\ n \in Nat
  BY <1>3, NodesFinite DEF Network
<1>5. PICK s : s = Search(net, start, h, targets)
  OBVIOUS
<1>6. s = VisitingNodes!Loop(q, Started(start), n)
  BY <1>2, <1>3, <1>5 DEF Search, VisitingNodes!Loop, VisitNext
<1>7. Explores(q, 0, Started(start))
  <2>1. Explored(net, start, h, targets, Started(start)) /\ Started(start).visited = {}
    BY StartExplored
  <2>2. Cardinality({}) = 0
    BY FS_EmptySet
  <2>3. QED
    BY <1>2, <2>1, <2>2 DEF Explores
<1>8. ASSUME NEW i \in 1 .. n, NEW y, Explores(q, i - 1, y) PROVE Explores(q, i, VisitNext(q, i, y))
  <2>1. /\ Explored(net, start, h, targets, y)
        /\ Finished(y, targets) \/ Cardinality(y.visited) = i - 1
    BY <1>2, <1>8 DEF Explores
  <2>2. PICK z : z = Visit(y, net, h, targets)
    OBVIOUS
  <2>3. CASE Finished(y, targets)
    <3>1. z = y
      BY <2>2, <2>3 DEF Visit, Finished
    <3>2. QED
      BY <1>2, <2>1, <2>2, <2>3, <3>1 DEF Explores, VisitNext
  <2>4. CASE ~Finished(y, targets)
    <3>1. PICK node \in Unvisited(y) :
              /\ Explored(net, start, h, targets, z) /\ z.visited = y.visited \cup {node}
      BY <2>1, <2>2, <2>4, VisitExplores
    <3>2. IsFiniteSet(y.visited) /\ node \notin y.visited
      <4>1. y.visited \subseteq NodesOf(net)
        BY <2>1 DEF Explored, Reaches
      <4>2. QED
        BY <1>4, <3>1, <4>1, FS_Subset DEF Unvisited
    <3>3. Cardinality(y.visited \cup {node}) = Cardinality(y.visited) + 1
      BY <3>2, FS_AddElement
    <3>4. Cardinality(z.visited) = i
      BY <1>4, <2>1, <2>4, <3>1, <3>3
    <3>5. QED
      BY <1>2, <2>2, <3>1, <3>4 DEF Explores, VisitNext
  <2>5. QED
    BY <2>3, <2>4
<1>9. Explores(q, n, s)
  <2>1. \A i \in 1 .. n : \A y : Explores(q, i - 1, y) => Explores(q, i, VisitNext(q, i, y))
    BY <1>8
  <2>2. QED
    BY <1>4, <1>6, <1>7, <2>1, VisitingNodes!LoopHolds
<1>10. /\ Explored(net, start, h, targets, s)
       /\ Finished(s, targets) \/ Cardinality(s.visited) = n
  BY <1>2, <1>9 DEF Explores
<1>11. Finished(s, targets)
  <2>1. SUFFICES ASSUME Cardinality(s.visited) = n PROVE Unvisited(s) = {}
    BY <1>10 DEF Finished
  <2>2. s.visited \subseteq DOMAIN s.dist /\ DOMAIN s.dist \subseteq NodesOf(net)
    BY <1>10 DEF Explored, Reaches
  <2>3. s.visited = NodesOf(net)
    BY <1>3, <1>4, <2>1, <2>2, FS_Subset
  <2>4. QED
    BY <2>2, <2>3 DEF Unvisited
<1>12. QED
  BY <1>5, <1>10, <1>11

-----------------------------------------------------------------------------
(* What the searches find                                                   *)

\* A search that did not meet its target has visited all that can be reached.
LEMMA VisitsReachable ==
    ASSUME NEW net, Network(net), NEW h, NEW start, NEW targets, NEW s,
           Explored(net, start, h, targets, s), Finished(s, targets), targets \cap s.visited = {}
    PROVE  s.visited = DOMAIN s.dist /\ s.visited = Reachable(net, start)
<1>1. Reaches(net, start, s) /\ Traced(net, start, s)
  BY DEF Explored
<1>2. s.visited = DOMAIN s.dist
  BY <1>1 DEF Finished, Unvisited, Reaches
<1>3. IsFiniteSet(net) /\ DOMAIN s.dist \subseteq NodesOf(net) /\ start \in s.visited
  BY <1>1, <1>2 DEF Network, Reaches
<1>4. ASSUME NEW n \in s.visited PROVE n \in Reachable(net, start)
  <2>1. PICK b : Traces(net, start, s, b)
    BY <1>1 DEF Traced
  <2>2. IsWay(net, start, n, b[n])
    BY <1>2, <2>1 DEF Traces
  <2>3. b[n] \in Ways(net, start, n)
    BY <1>3, <2>2, WayIs
  <2>4. QED
    BY <1>2, <1>3, <2>3 DEF Reachable
<1>5. ASSUME NEW n \in Reachable(net, start) PROVE n \in s.visited
  <2>1. PICK p : p \in Ways(net, start, n)
    BY DEF Reachable
  <2>2. IsWay(net, start, n, p)
    BY <1>3, <2>1, WayIs
  <2>3. PICK k : k = Len(p) - 1
    OBVIOUS
  <2>4. /\ k \in Nat /\ p[1] = start /\ p[k + 1] = n
        /\ \A i \in 1 .. k : \E seg \in Leaving(net, p[i]) : seg.to = p[i + 1]
    BY <2>2, <2>3 DEF IsWay
  <2> DEFINE G == {i \in 0 .. k : p[i + 1] \in s.visited}
  <2>5. 0 \in G
    BY <1>3, <2>4
  <2>6. ASSUME NEW i \in 1 .. k, i - 1 \in G PROVE i \in G
    <3>1. (i - 1) + 1 = i /\ i \in 0 .. k
      BY <2>4
    <3>2. p[i] \in s.visited
      BY <2>6, <3>1
    <3>3. PICK seg \in Leaving(net, p[i]) : seg.to = p[i + 1]
      BY <2>4
    <3>4. Followed(s, seg)
      BY <3>2, <3>3 DEF Explored
    <3>5. p[i + 1] \in s.visited
      BY <1>2, <3>3, <3>4 DEF Followed
    <3>6. QED
      BY <3>1, <3>5
  <2>7. G = 0 .. k
    <3>1. G \in SUBSET (0 .. k)
      OBVIOUS
    <3> HIDE DEF G
    <3>2. QED
      BY <2>4, <2>5, <2>6, <3>1, Measuring!CountInduction
  <2>8. k \in G
    BY <2>4, <2>7
  <2>9. QED
    BY <2>4, <2>8
<1>6. QED
  BY <1>2, <1>4, <1>5

\* A target is visited only at its least distance, if nothing is estimated
\* to remain at it.
LEMMA TargetNearest ==
    ASSUME NEW net, Network(net), NEW h, Consistent(net, h), NEW start, NEW to, h[to] = 0, NEW s,
           Explored(net, start, h, {to}, s), to \in s.visited, NEW p, IsWay(net, start, to, p)
    PROVE  s.dist[to] <= LengthOf(net, p)
<1>1. Reaches(net, start, s) /\ Ordered(h, s)
  BY DEF Explored
<1>2. PICK k : k = Len(p) - 1
  OBVIOUS
<1>3. /\ Len(p) \in Nat \ {0} /\ k \in Nat /\ Len(p) = k + 1 /\ p[1] = start /\ p[k + 1] = to
      /\ p \in Seq(NodesOf(net))
      /\ \A i \in 1 .. k : \E seg \in Leaving(net, p[i]) : seg.to = p[i + 1]
  BY <1>2 DEF IsWay
<1>4. PICK f : UpTo(net, p, f)
  BY <1>3, UpToExists
<1>5. /\ f[1] = 0 /\ LengthOf(net, p) = f[k + 1]
      /\ \A i \in 2 .. Len(p) : f[i] = f[i - 1] + StepLength(net, p[i - 1], p[i])
  <2>1. Len(p) \in Nat \ {0}
    BY <1>3
  <2>2. /\ DOMAIN f = 1 .. Len(p) /\ f[1] = 0
        /\ \A i \in 2 .. Len(p) : f[i] = f[i - 1] + StepLength(net, p[i - 1], p[i])
    BY ONLY <1>4, <2>1, UpToIs
  <2>3. LengthOf(net, p) = f[Len(p)]
    BY <1>4, <2>1, LengthIs
  <2>4. QED
    BY <1>3, <2>2, <2>3
<1>6. /\ s.dist[to] \in Nat /\ to \in DOMAIN s.dist
      /\ \A i \in 0 .. k : p[i + 1] \in NodesOf(net) /\ h[p[i + 1]] \in Nat
  BY <1>1, <1>3 DEF Reaches, Consistent
<1> DEFINE Near(i) ==
               /\ f[i + 1] \in Nat
               /\ \/ p[i + 1] \in DOMAIN s.dist /\ s.dist[p[i + 1]] <= f[i + 1]
                  \/ s.dist[to] <= f[i + 1] + h[p[i + 1]]
           G == {i \in 0 .. k : Near(i)}
<1>7. 0 \in G
  BY <1>1, <1>3, <1>5 DEF Reaches
<1>8. ASSUME NEW i \in 1 .. k, i - 1 \in G PROVE i \in G
  <2>1. /\ (i - 1) + 1 = i /\ i \in 0 .. k /\ i - 1 \in 0 .. k
        /\ i + 1 \in 2 .. Len(p) /\ (i + 1) - 1 = i
    BY <1>3
  <2>2. PICK x, y : x = p[i] /\ y = p[i + 1]
    OBVIOUS
  <2>3. /\ f[i] \in Nat
        /\ \/ x \in DOMAIN s.dist /\ s.dist[x] <= f[i]
           \/ s.dist[to] <= f[i] + h[x]
    BY <1>8, <2>1, <2>2
  <2>4. PICK seg \in Leaving(net, x) : seg.to = y
    BY <1>3, <2>2
  <2>5. StepLength(net, x, y) = seg.length
    BY <2>4, StepLengthIs
  <2>6. f[i + 1] = f[i] + seg.length
    BY <1>5, <2>1, <2>2, <2>5
  <2>7. /\ seg \in net /\ seg.from = x /\ seg.length \in Nat /\ h[x] <= seg.length + h[y]
        /\ h[x] \in Nat /\ h[y] \in Nat
    BY <1>6, <2>1, <2>2, <2>4 DEF Leaving, Network, Consistent
  <2>8. f[i + 1] \in Nat
    BY <2>3, <2>6, <2>7
  <2>9. s.dist[to] <= f[i] + h[x] => s.dist[to] <= f[i + 1] + h[y]
    BY <1>6, <2>3, <2>6, <2>7, <2>8
  <2>10. ASSUME x \in DOMAIN s.dist, s.dist[x] <= f[i]
         PROVE  \/ y \in DOMAIN s.dist /\ s.dist[y] <= f[i + 1]
                \/ s.dist[to] <= f[i] + h[x]
    <3>1. s.dist[x] \in Nat
      BY <1>1, <2>10 DEF Reaches
    <3>2. CASE x = to
      BY <1>6, <2>3, <2>7, <2>10, <3>1, <3>2
    <3>3. CASE x \in s.visited \ {to}
      <4>1. Followed(s, seg)
        BY <2>4, <3>3 DEF Explored
      <4>2. y \in DOMAIN s.dist /\ s.dist[y] <= s.dist[x] + seg.length
        BY <2>4, <2>7, <4>1 DEF Followed
      <4>3. s.dist[y] \in Nat
        BY <1>1, <4>2 DEF Reaches
      <4>4. s.dist[y] <= f[i + 1]
        BY <2>3, <2>6, <2>7, <2>10, <3>1, <4>2, <4>3
      <4>5. QED
        BY <4>2, <4>4
    <3>4. CASE x \notin s.visited
      <4>1. s.dist[to] + h[to] <= s.dist[x] + h[x]
        BY <1>1, <2>10, <3>4 DEF Ordered
      <4>2. s.dist[to] <= s.dist[x] + h[x]
        BY <1>6, <4>1
      <4>3. s.dist[to] <= f[i] + h[x]
        BY <1>6, <2>3, <2>7, <2>10, <3>1, <4>2
      <4>4. QED
        BY <4>3
    <3>5. QED
      BY <3>2, <3>3, <3>4
  <2>11. \/ y \in DOMAIN s.dist /\ s.dist[y] <= f[i + 1]
         \/ s.dist[to] <= f[i + 1] + h[y]
    BY <2>3, <2>9, <2>10
  <2>12. QED
    BY <2>1, <2>2, <2>8, <2>11
<1>9. G = 0 .. k
  <2>1. G \in SUBSET (0 .. k)
    OBVIOUS
  <2> HIDE DEF G
  <2>2. QED
    BY <1>3, <1>7, <1>8, <2>1, Measuring!CountInduction
<1>10. Near(k)
  <2>1. k \in 0 .. k
    BY <1>3
  <2>2. k \in G
    <3> HIDE DEF G
    <3>1. QED
      BY <1>9, <2>1
  <2>3. QED
    BY <2>2
<1>11. s.dist[to] <= f[k + 1]
  <2>1. /\ f[k + 1] \in Nat
        /\ s.dist[to] <= f[k + 1] \/ s.dist[to] <= f[k + 1] + h[to]
    BY <1>3, <1>10
  <2>2. QED
    BY <1>6, <2>1
<1>12. QED
  BY <1>5, <1>11

LEMMA ApartConsistent ==
    ASSUME NEW net, Network(net), NEW to \in NodesOf(net)
    PROVE  Consistent(net, ApartFrom(to)) /\ ApartFrom(to)[to] = 0
<1>1. NodesOf(net) \subseteq Nodes
  BY DEF NodesOf, Network
<1>2. \A n \in Nodes : ApartFrom(to)[n] = Apart[<<n, to>>] /\ Apart[<<n, to>>] \in Nat
  BY <1>1, RouteTraceAssumption DEF ApartFrom, RouteTraceAssumption
<1>3. ASSUME NEW seg \in net
      PROVE  ApartFrom(to)[seg.from] <= seg.length + ApartFrom(to)[seg.to]
  <2>1. PICK a, b, l : a = seg.from /\ b = seg.to /\ l = seg.length
    OBVIOUS
  <2>2. a \in Nodes /\ b \in Nodes /\ to \in Nodes /\ l \in Nat /\ Apart[<<a, b>>] <= l
    BY <1>1, <2>1 DEF Network, KeyOf
  <2>3. Apart[<<a, to>>] <= Apart[<<a, b>>] + Apart[<<b, to>>]
    BY <2>2, RouteTraceAssumption DEF RouteTraceAssumption
  <2>4. Apart[<<a, to>>] \in Nat /\ Apart[<<a, b>>] \in Nat /\ Apart[<<b, to>>] \in Nat
    BY <2>2, RouteTraceAssumption DEF RouteTraceAssumption
  <2>5. QED
    BY <1>2, <2>1, <2>2, <2>3, <2>4
<1>4. Apart[<<to, to>>] = 0
  BY <1>1, RouteTraceAssumption DEF RouteTraceAssumption
<1>5. QED
  BY <1>1, <1>2, <1>3, <1>4 DEF Consistent

LEMMA NetworkExact == ASSUME NEW net, Network(net) PROVE SearchIsExact(net)
<1>1. IsFiniteSet(net)
  BY DEF Network
<1>2. SUFFICES ASSUME NEW from \in NodesOf(net), NEW to \in NodesOf(net)
               PROVE  LET r == RunIndependentSearch(net, from, to)  ways == Ways(net, from, to) IN
                      IF ways # {}
                      THEN /\ r.found /\ r.path \in ways /\ r.length = LengthOf(net, r.path)
                           /\ \A p \in ways : r.length <= LengthOf(net, p)
                      ELSE /\ ~r.found /\ r.closest \in Reachable(net, from)
                           /\ \A n \in Reachable(net, from) :
                                 Apart[<<r.closest, to>>] <= Apart[<<n, to>>]
  BY DEF SearchIsExact
<1>3. PICK h : h = ApartFrom(to)
  OBVIOUS
<1>4. PICK s : s = Search(net, from, h, {to})
  OBVIOUS
<1>5. PICK ways : ways = Ways(net, from, to)
  OBVIOUS
<1>6. Consistent(net, h) /\ h[to] = 0
  BY <1>3, ApartConsistent
<1>7. Explored(net, from, h, {to}, s) /\ Finished(s, {to})
  BY <1>4, <1>6, SearchExplores
<1>8. PICK r : r = RunIndependentSearch(net, from, to)
  OBVIOUS
<1>9. CASE to \in s.visited
  <2>1. r = [found |-> TRUE, path |-> PathTo(s, to), length |-> s.dist[to]]
    BY <1>3, <1>4, <1>8, <1>9 DEF RunIndependentSearch
  <2>2. PICK b : Traces(net, from, s, b)
    BY <1>7 DEF Explored, Traced
  <2>3. PathTo(s, to) = b[to]
    BY <2>2, PathToIs
  <2>4. to \in DOMAIN s.dist
    BY <1>7, <1>9 DEF Explored, Reaches
  <2>5. IsWay(net, from, to, b[to]) /\ LengthOf(net, b[to]) = s.dist[to]
    BY <2>2, <2>4 DEF Traces
  <2>6. b[to] \in ways
    BY <1>1, <1>5, <2>5, WayIs
  <2>7. ASSUME NEW p \in ways PROVE s.dist[to] <= LengthOf(net, p)
    <3>1. IsWay(net, from, to, p)
      BY <1>1, <1>5, WayIs
    <3>2. QED
      BY <1>6, <1>7, <1>9, <3>1, TargetNearest
  <2>8. /\ r.found /\ r.path \in ways /\ r.length = LengthOf(net, r.path)
        /\ \A p \in ways : r.length <= LengthOf(net, p)
    BY <2>1, <2>3, <2>5, <2>6, <2>7
  <2>9. QED
    BY <1>5, <1>8, <2>6, <2>8
<1>10. CASE to \notin s.visited
  <2>1. PICK closest : closest = Least(s.visited, h)
    OBVIOUS
  <2>2. r = [found |-> FALSE, closest |-> closest, length |-> s.dist[closest]]
    BY <1>3, <1>4, <1>8, <1>10, <2>1 DEF RunIndependentSearch
  <2>3. s.visited = DOMAIN s.dist /\ s.visited = Reachable(net, from)
    <3>1. {to} \cap s.visited = {}
      BY <1>10
    <3>2. QED
      BY <1>7, <3>1, VisitsReachable
  <2>4. ways = {}
    BY <1>5, <1>10, <2>3 DEF Reachable
  <2>5. PICK V : V = s.visited
    OBVIOUS
  <2>6. V # {} /\ \A n \in V : h[n] \in Nat
    BY <1>6, <1>7, <2>3, <2>5 DEF Explored, Reaches, Consistent
  <2>7. Least(V, h) \in V /\ \A y \in V : h[Least(V, h)] <= h[y]
    BY <2>6, LeastIs
  <2>8. V \subseteq Nodes
    BY <2>3, <2>5 DEF Reachable, NodesOf, Network
  <2>9. \A n \in V : h[n] = Apart[<<n, to>>]
    BY <1>3, <2>8 DEF ApartFrom
  <2>10. closest \in V /\ \A n \in V : Apart[<<closest, to>>] <= Apart[<<n, to>>]
    BY <2>1, <2>5, <2>7, <2>9
  <2>11. /\ ~r.found /\ r.closest \in Reachable(net, from)
         /\ \A n \in Reachable(net, from) : Apart[<<r.closest, to>>] <= Apart[<<n, to>>]
    BY <2>2, <2>3, <2>5, <2>10
  <2>12. QED
    BY <1>5, <1>8, <2>4, <2>11
<1>11. QED
  BY <1>9, <1>10

LEMMA NetworkPainted == ASSUME NEW net, Network(net) PROVE PaintsReachable(net)
<1>1. SUFFICES ASSUME NEW start \in NodesOf(net)
               PROVE  LET samples == BuildReachableSamples(net, start) IN
                      /\ {start} \cup {seg.to : seg \in samples} = Reachable(net, start)
                      /\ \A seg \in samples : seg.from \in Reachable(net, start)
  BY DEF PaintsReachable
<1>2. PICK h : h = [n \in Nodes |-> 0]
  OBVIOUS
<1>3. PICK s : s = Search(net, start, h, {})
  OBVIOUS
<1>4. Consistent(net, h)
  <2>1. NodesOf(net) \subseteq Nodes
    BY DEF NodesOf, Network
  <2>2. \A n \in Nodes : h[n] = 0
    BY <1>2
  <2>3. \A seg \in net : h[seg.from] = 0 /\ h[seg.to] = 0 /\ seg.length \in Nat
    BY <2>2 DEF Network
  <2>4. QED
    BY <2>1, <2>2, <2>3 DEF Consistent
<1>5. Explored(net, start, h, {}, s) /\ Finished(s, {})
  BY <1>3, <1>4, SearchExplores
<1>6. s.visited = DOMAIN s.dist /\ s.visited = Reachable(net, start)
  BY <1>5, VisitsReachable
<1>7. BuildReachableSamples(net, start) = s.samples
  BY <1>2, <1>3 DEF BuildReachableSamples
<1>8. /\ start \in DOMAIN s.dist
      /\ \A seg \in s.samples : seg.from \in s.visited /\ seg.to \in DOMAIN s.dist
      /\ \A n \in DOMAIN s.dist \ {start} : \E seg \in s.samples : seg.to = n
  BY <1>5 DEF Explored, Reaches
<1>9. {start} \cup {seg.to : seg \in s.samples} = DOMAIN s.dist
  BY <1>8
<1>10. QED
  BY <1>6, <1>7, <1>8, <1>9

-----------------------------------------------------------------------------
(* The world                                                                *)

KnownRoutes == Routes \cup LoadedRoutes
PathsOK ==
    /\ world \in Nat
    /\ Built \subseteq Segments /\ \A s \in Built : shape[s] \in Nat
    /\ DOMAIN vehicles \subseteq Vehicles
    /\ \A v \in DOMAIN vehicles : vehicles[v].route \in KnownRoutes
    /\ ~subsystem => Built = {}

LEMMA NetworkFinite ==
    ASSUME NEW built \in SUBSET Segments
    PROVE  IsFiniteSet(built) /\ IsFiniteSet(NetworkOf(built))
<1>1. IsFiniteSet(built)
  BY VehiclePathsAssumption, FS_Subset DEF VehiclePathsAssumption
<1> DEFINE f == [s \in built |-> [from |-> Start[s], to |-> End[s], length |-> Length[s],
                                  passable |-> s \notin Impassable, actor |-> s]]
<1>2. NetworkOf(built) = {f[s] : s \in built}
  BY DEF NetworkOf
<1>3. IsFiniteSet({f[s] : s \in built})
  <2> HIDE DEF f
  <2>1. QED
    BY <1>1, ImageFinite
<1>4. QED
  BY <1>1, <1>2, <1>3

LEMMA BuiltNetwork == ASSUME NEW built \in SUBSET Segments PROVE Network(NetworkOf(built))
<1>1. PICK net : net = NetworkOf(built)
  OBVIOUS
<1>2. IsFiniteSet(net)
  BY <1>1, NetworkFinite
<1>3. \A seg \in net : \E s \in Segments :
          seg.from = Start[s] /\ seg.to = End[s] /\ seg.length = Length[s]
          /\ seg = [from |-> Start[s], to |-> End[s], length |-> Length[s],
                     passable |-> s \notin Impassable, actor |-> s]
  BY <1>1 DEF NetworkOf
<1>4. ASSUME NEW seg \in net
      PROVE  /\ seg.from \in Nodes /\ seg.to \in Nodes /\ seg.length \in Nat
             /\ Apart[KeyOf(seg)] <= seg.length
  <2>1. PICK s \in Segments : seg.from = Start[s] /\ seg.to = End[s] /\ seg.length = Length[s]
    BY <1>3
  <2>2. /\ Start[s] \in Nodes /\ End[s] \in Nodes /\ Length[s] \in Nat
        /\ Length[s] >= Apart[<<Start[s], End[s]>>]
    BY VehiclePathsAssumption DEF VehiclePathsAssumption
  <2>3. Apart[<<Start[s], End[s]>>] \in Nat
    BY <2>2, RouteTraceAssumption DEF RouteTraceAssumption
  <2>4. QED
    BY <2>1, <2>2, <2>3 DEF KeyOf
<1>5. ASSUME NEW x \in net, NEW y \in net, KeyOf(x) = KeyOf(y) PROVE x = y
  <2>1. x.from = y.from /\ x.to = y.to
    BY <1>5 DEF KeyOf
  <2>2. PICK s \in Segments :
            /\ x.from = Start[s] /\ x.to = End[s]
            /\ x = [from |-> Start[s], to |-> End[s], length |-> Length[s],
                     passable |-> s \notin Impassable, actor |-> s]
    BY <1>3
  <2>3. PICK t \in Segments :
            /\ y.from = Start[t] /\ y.to = End[t]
            /\ y = [from |-> Start[t], to |-> End[t], length |-> Length[t],
                     passable |-> t \notin Impassable, actor |-> t]
    BY <1>3
  <2>4. s = t
    BY <2>1, <2>2, <2>3, VehiclePathsAssumption DEF VehiclePathsAssumption
  <2>5. QED
    BY <2>2, <2>3, <2>4
<1>6. QED
  BY <1>1, <1>2, <1>4, <1>5 DEF Network

LEMMA LoadedOK ==
    ASSUME NEW built \in LoadedNetworks, NEW fleet \in LoadedFleets
    PROVE  /\ DOMAIN LoadedShape(built) \subseteq Segments
           /\ \A s \in DOMAIN LoadedShape(built) : LoadedShape(built)[s] \in Nat
           /\ DOMAIN LoadedVehicles(fleet) \subseteq Vehicles
           /\ \A v \in DOMAIN LoadedVehicles(fleet) : LoadedVehicles(fleet)[v].route \in KnownRoutes
<1>1. built \subseteq Segments /\ DOMAIN fleet \subseteq Vehicles
  BY VehiclePathsAssumption DEF VehiclePathsAssumption
<1>2. \A v \in DOMAIN fleet : fleet[v] \in KnownRoutes
  <2>1. ASSUME NEW v \in DOMAIN fleet PROVE fleet[v] \in KnownRoutes
    <3>1. fleet[v] \in Range(fleet)
      BY DEF Range
    <3>2. QED
      BY <3>1 DEF KnownRoutes, LoadedRoutes
  <2>2. QED
    BY <2>1
<1>3. QED
  BY <1>1, <1>2 DEF LoadedShape, LoadedVehicles

\* Every step of the game keeps the world as it is described above.
PathsNext ==
    \/ UNCHANGED pathVars
    \/ \E s \in Segments :
          AddPathSegment(s) \/ SetSplinePointsAndValidatePath(s) \/ RemovePathSegment(s)
    \/ \E v \in Vehicles, route \in Routes : AddVehicle(v, route) \/ SetVehicleRoute(v, route)
    \/ \E v \in Vehicles : RemoveVehicle(v)
    \/ LeaveWorld
    \/ \E built \in LoadedNetworks, fleet \in LoadedFleets : EnterWorld(built, fleet)

LEMMA NextPaths == ASSUME [Next]_vars PROVE PathsNext
<1>1. CASE UNCHANGED vars
  BY <1>1 DEF vars, pathVars, PathsNext
<1>2. CASE SegmentsNext
  BY <1>2 DEF SegmentsNext, PathsNext
<1>3. CASE VehiclesNext
  BY <1>3 DEF VehiclesNext, PathsNext
<1>4. CASE WorldsNext
  BY <1>4 DEF WorldsNext, PathsNext
<1>5. CASE Players \/ TickMap \/ TickOverlay
  BY <1>5 DEF Players, TickMap, TickOverlay, MapPart, OverlayPart, PathsNext
<1>6. QED
  BY <1>1, <1>2, <1>3, <1>4, <1>5 DEF Next

LEMMA PathsStep == ASSUME PathsOK, PathsNext PROVE PathsOK'
<1>1. CASE UNCHANGED pathVars
  BY <1>1 DEF pathVars, PathsOK, Built
<1>2. ASSUME NEW s \in Segments, AddPathSegment(s) PROVE PathsOK'
  <2>1. PICK spline \in {0, 1} :
            shape' = [t \in Built \cup {s} |-> IF t = s THEN spline ELSE shape[t]]
    BY <1>2 DEF AddPathSegment
  <2>2. subsystem /\ UNCHANGED <<world, subsystem, vehicles>>
    BY <1>2 DEF AddPathSegment, Change
  <2>3. QED
    BY <2>1, <2>2 DEF PathsOK, Built
<1>3. ASSUME NEW s \in Segments, SetSplinePointsAndValidatePath(s) PROVE PathsOK'
  <2>1. /\ s \in Built /\ shape' = [shape EXCEPT ![s] = shape[s] + 1]
        /\ UNCHANGED <<world, subsystem, vehicles>>
    BY <1>3 DEF SetSplinePointsAndValidatePath
  <2>2. Built' = Built /\ \A t \in Built : shape'[t] = IF t = s THEN shape[s] + 1 ELSE shape[t]
    BY <2>1 DEF Built
  <2>3. shape[s] + 1 \in Nat
    BY <2>1 DEF PathsOK
  <2>4. QED
    BY <2>1, <2>2, <2>3 DEF PathsOK
<1>4. ASSUME NEW s \in Segments, RemovePathSegment(s) PROVE PathsOK'
  <2>1. subsystem /\ shape' = Restrict(shape, Built \ {s}) /\ UNCHANGED <<world, subsystem, vehicles>>
    BY <1>4 DEF RemovePathSegment, Change
  <2>2. Built' = Built \ {s} /\ \A t \in Built \ {s} : shape'[t] = shape[t]
    BY <2>1 DEF Built, Restrict
  <2>3. QED
    BY <2>1, <2>2 DEF PathsOK
<1>5. ASSUME NEW v \in Vehicles, NEW route \in Routes, AddVehicle(v, route) PROVE PathsOK'
  <2>1. /\ vehicles' = [u \in DOMAIN vehicles \cup {v} |->
                           IF u = v THEN [route |-> route, changelist |-> changes'] ELSE vehicles[u]]
        /\ UNCHANGED <<world, subsystem, shape>>
    BY <1>5 DEF AddVehicle
  <2>2. QED
    BY <2>1 DEF PathsOK, Built, KnownRoutes
<1>6. ASSUME NEW v \in Vehicles, NEW route \in Routes, SetVehicleRoute(v, route) PROVE PathsOK'
  <2>1. /\ v \in DOMAIN vehicles
        /\ vehicles' = [vehicles EXCEPT ![v] = [route |-> route, changelist |-> changes']]
        /\ UNCHANGED <<world, subsystem, shape>>
    BY <1>6 DEF SetVehicleRoute
  <2>2. /\ DOMAIN vehicles' = DOMAIN vehicles
        /\ \A u \in DOMAIN vehicles :
              vehicles'[u].route = IF u = v THEN route ELSE vehicles[u].route
    BY <2>1
  <2>3. QED
    BY <2>1, <2>2 DEF PathsOK, Built, KnownRoutes
<1>7. ASSUME NEW v \in Vehicles, RemoveVehicle(v) PROVE PathsOK'
  <2>1. /\ vehicles' = Restrict(vehicles, DOMAIN vehicles \ {v})
        /\ UNCHANGED <<world, subsystem, shape>>
    BY <1>7 DEF RemoveVehicle
  <2>2. /\ DOMAIN vehicles' = DOMAIN vehicles \ {v}
        /\ \A u \in DOMAIN vehicles \ {v} : vehicles'[u] = vehicles[u]
    BY <2>1 DEF Restrict
  <2>3. QED
    BY <2>1, <2>2 DEF PathsOK, Built
<1>8. CASE LeaveWorld
  <2>1. world' = world + 1 /\ shape' = << >> /\ vehicles' = << >>
    BY <1>8 DEF LeaveWorld
  <2>2. DOMAIN shape' = {} /\ DOMAIN vehicles' = {}
    BY <2>1
  <2>3. QED
    BY <2>1, <2>2 DEF PathsOK, Built
<1>9. ASSUME NEW built \in LoadedNetworks, NEW fleet \in LoadedFleets, EnterWorld(built, fleet)
      PROVE  PathsOK'
  <2>1. /\ shape' = LoadedShape(built) /\ vehicles' = LoadedVehicles(fleet)
        /\ world' = world /\ subsystem'
    BY <1>9 DEF EnterWorld
  <2>2. QED
    BY <2>1, LoadedOK DEF PathsOK, Built
<1>10. QED
  BY <1>1, <1>2, <1>3, <1>4, <1>5, <1>6, <1>7, <1>8, <1>9 DEF PathsNext

LEMMA PathsInit == ASSUME Init PROVE PathsOK
<1>1. PICK built \in LoadedNetworks, fleet \in LoadedFleets :
          shape = LoadedShape(built) /\ vehicles = LoadedVehicles(fleet)
  BY DEF Init
<1>2. world = 0 /\ subsystem
  BY DEF Init
<1>3. QED
  BY <1>1, <1>2, LoadedOK DEF PathsOK, Built

-----------------------------------------------------------------------------
(* The route cache                                                          *)

\* An entry of a vehicle without a preset uses nothing.
EntryOK(e) == IsFiniteSet(DOMAIN e.samples) /\ (~e.valid => DOMAIN e.samples = {})
CacheShape(c) ==
    /\ c = [entries |-> c.entries, counts |-> c.counts, samples |-> c.samples, dirty |-> c.dirty,
            membershipChanged |-> c.membershipChanged]
    /\ c.samples = [k \in DOMAIN c.samples |-> c.samples[k]]
    /\ c.membershipChanged \in BOOLEAN
    /\ IsFiniteSet(DOMAIN c.entries)
    /\ \A i \in DOMAIN c.entries : EntryOK(c.entries[i])

\* What CountsMatchEntries says, of some of the entries: while an entry is
\* replaced, the counts are those of the others.
UsersAmong(c, ids, k) == {i \in ids : k \in DOMAIN c.entries[i].samples}
CountsOf(c, ids) ==
    /\ Counted(c) = UNION {DOMAIN c.entries[i].samples : i \in ids}
    /\ \A k \in Counted(c) : c.counts[k] = Cardinality(UsersAmong(c, ids, k))
    /\ DOMAIN c.samples = Counted(c)
    /\ c.dirty \subseteq Counted(c)

\* What an update keeps of the cache it began with: a segment that came into
\* use is dirty, and without a report the segments in use are the same.
Since(c, b) ==
    /\ ~c.membershipChanged => c.samples = b.samples
    /\ Counted(c) \ c.dirty \subseteq Counted(b) \ b.dirty

CacheOK(c) == CacheShape(c) /\ CountsMatchEntries(c)

LEMMA AllCounted == ASSUME NEW c PROVE CountsMatchEntries(c) <=> CountsOf(c, DOMAIN c.entries)
BY DEF CountsMatchEntries, CountsOf, Users, UsersAmong

LEMMA UsersFinite ==
    ASSUME NEW c, CacheShape(c), NEW ids \in SUBSET DOMAIN c.entries, NEW k
    PROVE  IsFiniteSet(UsersAmong(c, ids, k))
<1>1. UsersAmong(c, ids, k) \subseteq DOMAIN c.entries /\ IsFiniteSet(DOMAIN c.entries)
  BY DEF UsersAmong, CacheShape
<1>2. QED
  BY <1>1, FS_Subset

LEMMA CountedFinite == ASSUME NEW c, CacheOK(c) PROVE IsFiniteSet(Counted(c))
<1> DEFINE f == [i \in DOMAIN c.entries |-> DOMAIN c.entries[i].samples]
           S == {f[i] : i \in DOMAIN c.entries}
<1>1. IsFiniteSet(DOMAIN c.entries) /\ \A i \in DOMAIN c.entries : EntryOK(c.entries[i])
  BY DEF CacheOK, CacheShape
<1>2. IsFiniteSet(S)
  <2> HIDE DEF f
  <2>1. QED
    BY <1>1, ImageFinite
<1>3. \A T \in S : IsFiniteSet(T)
  BY <1>1 DEF EntryOK
<1>4. IsFiniteSet(UNION S)
  <2> HIDE DEF S
  <2>1. QED
    BY <1>2, <1>3, FS_UNION
<1>5. UNION S = Counted(c)
  BY DEF CacheOK, CountsMatchEntries
<1>6. QED
  BY <1>4, <1>5

LEMMA EmptyCacheOK == CacheOK(EmptyCache) /\ Counted(EmptyCache) = {}
<1>1. /\ EmptyCache.entries = << >> /\ EmptyCache.counts = << >> /\ EmptyCache.samples = << >>
      /\ EmptyCache.dirty = {} /\ EmptyCache.membershipChanged = FALSE
      /\ EmptyCache = [entries |-> EmptyCache.entries, counts |-> EmptyCache.counts,
                       samples |-> EmptyCache.samples, dirty |-> EmptyCache.dirty,
                       membershipChanged |-> EmptyCache.membershipChanged]
  BY DEF EmptyCache
<1>2. DOMAIN << >> = {} /\ << >> = [k \in {} |-> << >>[k]]
  OBVIOUS
<1>3. IsFiniteSet({})
  BY FS_EmptySet
<1>4. CacheShape(EmptyCache)
  BY <1>1, <1>2, <1>3 DEF CacheShape
<1>5. CountsMatchEntries(EmptyCache)
  BY <1>1, <1>2 DEF CountsMatchEntries, Counted
<1>6. QED
  BY <1>1, <1>2, <1>4, <1>5 DEF CacheOK, Counted

LEMMA MergedIs ==
    ASSUME NEW f, NEW g
    PROVE  /\ DOMAIN Merged(f, g) = DOMAIN f \cup DOMAIN g
           /\ \A x \in DOMAIN f : Merged(f, g)[x] = f[x]
           /\ \A x \in DOMAIN g \ DOMAIN f : Merged(f, g)[x] = g[x]
           /\ Merged(f, g) = [x \in DOMAIN Merged(f, g) |-> Merged(f, g)[x]]
BY DEF Merged

\* The result of each operation, field by field.
LEMMA AddIs ==
    ASSUME NEW c, CacheShape(c), NEW e, EntryOK(e), NEW new,
           new = {k \in DOMAIN e.samples : Count(c, k) = 0}
    PROVE  AddRouteContribution(c, e) =
              [entries |-> c.entries,
               counts |-> Merged([k \in DOMAIN e.samples |-> Count(c, k) + 1], c.counts),
               samples |-> Merged(c.samples, e.samples),
               dirty |-> c.dirty \cup new,
               membershipChanged |-> c.membershipChanged \/ new # {}]
<1>1. PICK n : n = Merged([k \in DOMAIN e.samples |-> Count(c, k) + 1], c.counts)
  OBVIOUS
<1>2. PICK s : s = Merged(c.samples, e.samples)
  OBVIOUS
<1>3. PICK m : m = (c.membershipChanged \/ new # {})
  OBVIOUS
<1>4. (IF e.valid THEN DOMAIN e.samples ELSE {}) = DOMAIN e.samples
  BY DEF EntryOK
<1>5. AddRouteContribution(c, e) =
          [c EXCEPT !.counts = n, !.samples = s, !.dirty = c.dirty \cup new, !.membershipChanged = m]
  BY <1>1, <1>2, <1>3, <1>4 DEF AddRouteContribution
<1>6. PICK a1, a2, a3, a4, a5 : c = [entries |-> a1, counts |-> a2, samples |-> a3, dirty |-> a4,
                                     membershipChanged |-> a5]
  BY DEF CacheShape
<1>7. AddRouteContribution(c, e) =
          [entries |-> c.entries, counts |-> n, samples |-> s, dirty |-> c.dirty \cup new,
           membershipChanged |-> m]
  BY <1>5, <1>6
<1>8. QED
  BY <1>1, <1>2, <1>3, <1>7

LEMMA RemoveIs ==
    ASSUME NEW c, CacheShape(c), NEW e, EntryOK(e), DOMAIN e.samples \subseteq Counted(c), NEW unused,
           unused = {k \in DOMAIN e.samples : c.counts[k] <= 1}
    PROVE  RemoveRouteContribution(c, e) =
              [entries |-> c.entries,
               counts |-> Merged([k \in DOMAIN e.samples \ unused |-> c.counts[k] - 1],
                                Restrict(c.counts, DOMAIN c.counts \ unused)),
               samples |-> Restrict(c.samples, DOMAIN c.samples \ unused),
               dirty |-> c.dirty \ unused,
               membershipChanged |-> c.membershipChanged \/ unused # {}]
<1>1. PICK n : n = Merged([k \in DOMAIN e.samples \ unused |-> c.counts[k] - 1],
                                Restrict(c.counts, DOMAIN c.counts \ unused))
  OBVIOUS
<1>2. PICK s : s = Restrict(c.samples, DOMAIN c.samples \ unused)
  OBVIOUS
<1>3. PICK m : m = (c.membershipChanged \/ unused # {})
  OBVIOUS
<1>4. KeysGivenBack(c, e) = DOMAIN e.samples
  BY DEF EntryOK, KeysGivenBack
<1>5. WithFewerUsers(c, DOMAIN e.samples, unused) =
          [c EXCEPT !.counts = n, !.samples = s, !.dirty = c.dirty \ unused]
  BY <1>1, <1>2 DEF WithFewerUsers
<1>6. PICK a1, a2, a3, a4, a5 : c = [entries |-> a1, counts |-> a2, samples |-> a3, dirty |-> a4,
                                     membershipChanged |-> a5]
  BY DEF CacheShape
<1>7. WithFewerUsers(c, DOMAIN e.samples, unused) =
          [entries |-> a1, counts |-> n, samples |-> s, dirty |-> c.dirty \ unused,
           membershipChanged |-> a5]
  BY <1>5, <1>6
<1>8. PICK w : w = WithFewerUsers(c, DOMAIN e.samples, unused)
  OBVIOUS
<1>9. RemoveRouteContribution(c, e) = [w EXCEPT !.membershipChanged = m]
  <2>1. w.membershipChanged = c.membershipChanged
    BY <1>6, <1>7, <1>8
  <2>2. RemoveRouteContribution(c, e) =
            [w EXCEPT !.membershipChanged = w.membershipChanged \/ unused # {}]
    BY <1>4, <1>8 DEF RemoveRouteContribution
  <2>3. QED
    BY <1>3, <2>1, <2>2
<1>10. RemoveRouteContribution(c, e) =
          [entries |-> c.entries, counts |-> n, samples |-> s, dirty |-> c.dirty \ unused,
           membershipChanged |-> m]
  BY <1>6, <1>7, <1>8, <1>9
<1>11. QED
  BY <1>1, <1>2, <1>3, <1>10

\* The counts of a cache when an entry that is not counted yet is added, and
\* when one is given back.
LEMMA AddCounts ==
    ASSUME NEW c, CacheShape(c), NEW ids \in SUBSET DOMAIN c.entries, CountsOf(c, ids),
           NEW i \in DOMAIN c.entries, i \notin ids, NEW e, e = c.entries[i],
           NEW b, Since(c, b)
    PROVE  LET d == AddRouteContribution(c, e) IN
           /\ CacheShape(d) /\ d.entries = c.entries
           /\ CountsOf(d, ids \cup {i}) /\ Since(d, b)
<1> DEFINE keys == DOMAIN e.samples
           new == {k \in keys : Count(c, k) = 0}
           n == Merged([k \in keys |-> Count(c, k) + 1], c.counts)
           s == Merged(c.samples, e.samples)
<1>1. EntryOK(e)
  BY DEF CacheShape
<1>2. PICK d : d = AddRouteContribution(c, e)
  OBVIOUS
<1>3. d = [entries |-> c.entries, counts |-> n, samples |-> s, dirty |-> c.dirty \cup new,
           membershipChanged |-> c.membershipChanged \/ new # {}]
  BY <1>1, <1>2, AddIs
<1>4. /\ DOMAIN n = keys \cup Counted(c)
      /\ \A k \in keys : n[k] = Count(c, k) + 1
      /\ \A k \in Counted(c) \ keys : n[k] = c.counts[k]
  <2> DEFINE f == [k \in keys |-> Count(c, k) + 1]
  <2>1. DOMAIN f = keys /\ \A k \in keys : f[k] = Count(c, k) + 1
    OBVIOUS
  <2>2. n = Merged(f, c.counts)
    OBVIOUS
  <2> HIDE DEF f, n, keys
  <2>3. /\ DOMAIN Merged(f, c.counts) = DOMAIN f \cup DOMAIN c.counts
        /\ \A x \in DOMAIN f : Merged(f, c.counts)[x] = f[x]
        /\ \A x \in DOMAIN c.counts \ DOMAIN f : Merged(f, c.counts)[x] = c.counts[x]
        /\ Merged(f, c.counts) = [x \in DOMAIN Merged(f, c.counts) |-> Merged(f, c.counts)[x]]
    BY MergedIs
  <2>4. QED
    BY <2>1, <2>2, <2>3 DEF Counted
<1>5. /\ DOMAIN s = DOMAIN c.samples \cup keys /\ s = [k \in DOMAIN s |-> s[k]]
      /\ \A k \in DOMAIN c.samples : s[k] = c.samples[k]
  <2>1. PICK f, g : f = c.samples /\ g = e.samples
    OBVIOUS
  <2>2. /\ DOMAIN Merged(f, g) = DOMAIN f \cup DOMAIN g
        /\ \A x \in DOMAIN f : Merged(f, g)[x] = f[x]
        /\ \A x \in DOMAIN g \ DOMAIN f : Merged(f, g)[x] = g[x]
        /\ Merged(f, g) = [x \in DOMAIN Merged(f, g) |-> Merged(f, g)[x]]
    BY MergedIs
  <2>3. QED
    BY <2>1, <2>2
<1>6. /\ d.entries = c.entries /\ d.counts = n /\ d.samples = s /\ d.dirty = c.dirty \cup new
      /\ d.membershipChanged = (c.membershipChanged \/ new # {})
      /\ d = [entries |-> d.entries, counts |-> d.counts, samples |-> d.samples, dirty |-> d.dirty,
              membershipChanged |-> d.membershipChanged]
  <2> HIDE DEF n, s, new
  <2>1. QED
    BY <1>3
<1> HIDE DEF n, s
<1>7. CacheShape(d)
  BY <1>5, <1>6 DEF CacheShape
<1>8. Counted(d) = keys \cup Counted(c)
  BY <1>4, <1>6 DEF Counted
<1>9. ASSUME NEW k \in Counted(d) PROVE d.counts[k] = Cardinality(UsersAmong(d, ids \cup {i}, k))
  <2>1. IsFiniteSet(UsersAmong(c, ids, k))
    BY UsersFinite
  <2>2. Count(c, k) = Cardinality(UsersAmong(c, ids, k))
    <3>1. CASE k \in Counted(c)
      BY <3>1 DEF Count, CountsOf
    <3>2. CASE k \notin Counted(c)
      <4>1. UsersAmong(c, ids, k) = {}
        BY <3>2 DEF CountsOf, UsersAmong
      <4>2. QED
        BY <3>2, <4>1, FS_EmptySet DEF Count
    <3>3. QED
      BY <3>1, <3>2
  <2>3. CASE k \in keys
    <3>1. UsersAmong(d, ids \cup {i}, k) = UsersAmong(c, ids, k) \cup {i}
      BY <1>6, <2>3 DEF UsersAmong
    <3>2. i \notin UsersAmong(c, ids, k)
      BY DEF UsersAmong
    <3>3. Cardinality(UsersAmong(c, ids, k) \cup {i}) = Cardinality(UsersAmong(c, ids, k)) + 1
      BY <2>1, <3>2, FS_AddElement
    <3>4. d.counts[k] = Count(c, k) + 1
      BY <1>4, <1>6, <2>3
    <3>5. QED
      BY <2>2, <3>1, <3>3, <3>4
  <2>4. CASE k \notin keys
    <3>1. UsersAmong(d, ids \cup {i}, k) = UsersAmong(c, ids, k)
      BY <1>6, <2>4 DEF UsersAmong
    <3>2. k \in Counted(c) /\ d.counts[k] = c.counts[k]
      BY <1>4, <1>6, <1>8, <2>4
    <3>3. QED
      BY <2>2, <3>1, <3>2 DEF Count
  <2>5. QED
    BY <2>3, <2>4
<1>10. CountsOf(d, ids \cup {i})
  <2>1. Counted(d) = UNION {DOMAIN d.entries[j].samples : j \in ids \cup {i}}
    BY <1>6, <1>8 DEF CountsOf
  <2>2. DOMAIN d.samples = Counted(d) /\ d.dirty \subseteq Counted(d)
    BY <1>5, <1>6, <1>8 DEF CountsOf
  <2>3. QED
    BY <1>9, <2>1, <2>2 DEF CountsOf
<1>11. Since(d, b)
  <2>1. ASSUME ~d.membershipChanged PROVE d.samples = b.samples
    <3>1. new = {} /\ ~c.membershipChanged /\ c.samples = b.samples
      BY <1>6, <2>1 DEF Since
    <3>2. keys \subseteq Counted(c)
      BY <3>1 DEF Count
    <3>3. DOMAIN s = DOMAIN c.samples
      BY <1>5, <3>2 DEF CountsOf
    <3>4. s = c.samples
      BY <1>5, <3>3 DEF CacheShape
    <3>5. QED
      BY <1>6, <3>1, <3>4
  <2>2. Counted(d) \ d.dirty \subseteq Counted(c) \ c.dirty
    BY <1>6, <1>8 DEF Count
  <2>3. QED
    BY <2>1, <2>2 DEF Since
<1>12. QED
  BY <1>2, <1>6, <1>7, <1>10, <1>11

LEMMA RemoveCounts ==
    ASSUME NEW c, CacheShape(c), NEW ids \in SUBSET DOMAIN c.entries, CountsOf(c, ids),
           NEW i \in ids, NEW e, e = c.entries[i],
           NEW b, Since(c, b)
    PROVE  LET d == RemoveRouteContribution(c, e) IN
           /\ CacheShape(d) /\ d.entries = c.entries
           /\ CountsOf(d, ids \ {i}) /\ Since(d, b)
<1> DEFINE keys == DOMAIN e.samples
           unused == {k \in keys : c.counts[k] <= 1}
           n == Merged([k \in keys \ unused |-> c.counts[k] - 1],
                       Restrict(c.counts, DOMAIN c.counts \ unused))
           s == Restrict(c.samples, DOMAIN c.samples \ unused)
<1>1. EntryOK(e) /\ keys \subseteq Counted(c)
  BY DEF CacheShape, CountsOf
<1>2. PICK d : d = RemoveRouteContribution(c, e)
  OBVIOUS
<1>3. d = [entries |-> c.entries, counts |-> n, samples |-> s, dirty |-> c.dirty \ unused,
           membershipChanged |-> c.membershipChanged \/ unused # {}]
  BY <1>1, <1>2, RemoveIs
<1>4. /\ DOMAIN n = Counted(c) \ unused
      /\ \A k \in keys \ unused : n[k] = c.counts[k] - 1
      /\ \A k \in Counted(c) \ keys : n[k] = c.counts[k]
  <2> DEFINE f == [k \in keys \ unused |-> c.counts[k] - 1]
             g == Restrict(c.counts, DOMAIN c.counts \ unused)
  <2>1. DOMAIN f = keys \ unused /\ \A k \in keys \ unused : f[k] = c.counts[k] - 1
    OBVIOUS
  <2>2. DOMAIN g = Counted(c) \ unused /\ \A k \in Counted(c) \ unused : g[k] = c.counts[k]
    BY DEF Counted, Restrict
  <2>3. n = Merged(f, g) /\ unused \subseteq keys
    OBVIOUS
  <2> HIDE DEF f, g, n, keys, unused
  <2>4. /\ DOMAIN Merged(f, g) = DOMAIN f \cup DOMAIN g
        /\ \A x \in DOMAIN f : Merged(f, g)[x] = f[x]
        /\ \A x \in DOMAIN g \ DOMAIN f : Merged(f, g)[x] = g[x]
        /\ Merged(f, g) = [x \in DOMAIN Merged(f, g) |-> Merged(f, g)[x]]
    BY MergedIs
  <2>5. QED
    BY <1>1, <2>1, <2>2, <2>3, <2>4
<1>5. /\ DOMAIN s = DOMAIN c.samples \ unused /\ s = [k \in DOMAIN s |-> s[k]]
      /\ \A k \in DOMAIN s : s[k] = c.samples[k]
  BY DEF Restrict
<1>6. /\ d.entries = c.entries /\ d.counts = n /\ d.samples = s /\ d.dirty = c.dirty \ unused
      /\ d.membershipChanged = (c.membershipChanged \/ unused # {})
      /\ d = [entries |-> d.entries, counts |-> d.counts, samples |-> d.samples, dirty |-> d.dirty,
              membershipChanged |-> d.membershipChanged]
  <2> HIDE DEF n, s, unused
  <2>1. QED
    BY <1>3
<1> HIDE DEF n, s
<1>7. CacheShape(d)
  BY <1>5, <1>6 DEF CacheShape
<1>8. Counted(d) = Counted(c) \ unused
  BY <1>4, <1>6 DEF Counted
<1>9. ASSUME NEW k \in Counted(c)
      PROVE  /\ IsFiniteSet(UsersAmong(c, ids, k)) /\ c.counts[k] \in Nat
             /\ c.counts[k] = Cardinality(UsersAmong(c, ids, k))
             /\ k \in keys => Cardinality(UsersAmong(c, ids \ {i}, k)) = c.counts[k] - 1
             /\ k \notin keys => UsersAmong(c, ids \ {i}, k) = UsersAmong(c, ids, k)
             /\ IsFiniteSet(UsersAmong(c, ids \ {i}, k))
  <2>1. IsFiniteSet(UsersAmong(c, ids, k)) /\ c.counts[k] = Cardinality(UsersAmong(c, ids, k))
    BY UsersFinite DEF CountsOf
  <2>2. c.counts[k] \in Nat
    BY <2>1, FS_CardinalityType
  <2>3. UsersAmong(c, ids \ {i}, k) = UsersAmong(c, ids, k) \ {i}
    BY DEF UsersAmong
  <2>4. k \in keys <=> i \in UsersAmong(c, ids, k)
    BY DEF UsersAmong
  <2>5. /\ IsFiniteSet(UsersAmong(c, ids, k) \ {i})
        /\ k \in keys => Cardinality(UsersAmong(c, ids, k) \ {i})
                             = Cardinality(UsersAmong(c, ids, k)) - 1
    BY <2>1, <2>4, FS_RemoveElement
  <2>6. k \notin keys => UsersAmong(c, ids, k) \ {i} = UsersAmong(c, ids, k)
    BY <2>4
  <2>7. QED
    BY <2>1, <2>2, <2>3, <2>5, <2>6
<1>10. ASSUME NEW k \in Counted(d) PROVE d.counts[k] = Cardinality(UsersAmong(d, ids \ {i}, k))
  <2>1. UsersAmong(d, ids \ {i}, k) = UsersAmong(c, ids \ {i}, k)
    BY <1>6 DEF UsersAmong
  <2>2. k \in Counted(c) /\ k \notin unused
    BY <1>8, <1>10
  <2>3. CASE k \in keys
    BY <1>4, <1>6, <1>9, <2>1, <2>2, <2>3
  <2>4. CASE k \notin keys
    BY <1>4, <1>6, <1>9, <2>1, <2>2, <2>4
  <2>5. QED
    BY <2>3, <2>4
<1>11. UNION {DOMAIN c.entries[j].samples : j \in ids \ {i}} = Counted(d)
  <2>1. ASSUME NEW k \in Counted(c)
        PROVE  k \in unused <=> UsersAmong(c, ids \ {i}, k) = {}
    <3>1. CASE k \in keys
      <4>1. k \in unused <=> c.counts[k] <= 1
        BY <3>1
      <4>2. i \in UsersAmong(c, ids, k)
        BY <3>1 DEF UsersAmong
      <4>3. c.counts[k] # 0
        BY <1>9, <4>2, FS_EmptySet
      <4>4. c.counts[k] <= 1 <=> c.counts[k] - 1 = 0
        BY <1>9, <4>3
      <4>5. c.counts[k] - 1 = 0 <=> UsersAmong(c, ids \ {i}, k) = {}
        <5>1. PICK U : U = UsersAmong(c, ids \ {i}, k)
          OBVIOUS
        <5>2. IsFiniteSet(U) /\ Cardinality(U) = c.counts[k] - 1
          BY <1>9, <3>1, <5>1
        <5>3. Cardinality(U) = 0 <=> U = {}
          BY <5>2, FS_EmptySet
        <5>4. QED
          BY <5>1, <5>2, <5>3
      <4>6. QED
        BY <4>1, <4>4, <4>5
    <3>2. CASE k \notin keys
      <4>1. UsersAmong(c, ids \ {i}, k) = UsersAmong(c, ids, k)
        BY <1>9, <3>2
      <4>2. UsersAmong(c, ids, k) # {}
        BY DEF CountsOf, UsersAmong
      <4>3. QED
        BY <3>2, <4>1, <4>2
    <3>3. QED
      BY <3>1, <3>2
  <2>2. UNION {DOMAIN c.entries[j].samples : j \in ids \ {i}} \subseteq Counted(c)
    BY DEF CountsOf
  <2>3. \A k : k \in UNION {DOMAIN c.entries[j].samples : j \in ids \ {i}}
                   <=> UsersAmong(c, ids \ {i}, k) # {}
    BY DEF UsersAmong
  <2> HIDE DEF unused
  <2>4. QED
    BY <1>8, <2>1, <2>2, <2>3
<1>12. CountsOf(d, ids \ {i})
  <2>1. Counted(d) = UNION {DOMAIN d.entries[j].samples : j \in ids \ {i}}
    BY <1>6, <1>11
  <2>2. DOMAIN d.samples = Counted(d) /\ d.dirty \subseteq Counted(d)
    BY <1>5, <1>6, <1>8 DEF CountsOf
  <2>3. QED
    BY <1>10, <2>1, <2>2 DEF CountsOf
<1>13. Since(d, b)
  <2>1. ASSUME ~d.membershipChanged PROVE d.samples = b.samples
    <3>1. unused = {} /\ ~c.membershipChanged /\ c.samples = b.samples
      BY <1>6, <2>1 DEF Since
    <3>2. s = c.samples
      BY <1>5, <3>1 DEF CacheShape
    <3>3. QED
      BY <1>6, <3>1, <3>2
  <2>2. Counted(d) \ d.dirty \subseteq Counted(c) \ c.dirty
    BY <1>6, <1>8
  <2>3. QED
    BY <2>1, <2>2 DEF Since
<1>14. QED
  BY <1>2, <1>6, <1>7, <1>12, <1>13

\* A cache of which one field that the counts do not depend on is another.
LEMMA ReportIs ==
    ASSUME NEW c, CacheOK(c), NEW m \in BOOLEAN
    PROVE  LET d == [c EXCEPT !.membershipChanged = m] IN
           /\ CacheOK(d) /\ d.entries = c.entries /\ d.samples = c.samples /\ d.dirty = c.dirty
           /\ Counted(d) = Counted(c) /\ d.membershipChanged = m
<1>1. PICK d : d = [c EXCEPT !.membershipChanged = m]
  OBVIOUS
<1>2. PICK a1, a2, a3, a4, a5 : c = [entries |-> a1, counts |-> a2, samples |-> a3, dirty |-> a4,
                                     membershipChanged |-> a5]
  BY DEF CacheOK, CacheShape
<1>3. d = [entries |-> a1, counts |-> a2, samples |-> a3, dirty |-> a4, membershipChanged |-> m]
  BY <1>1, <1>2
<1>4. /\ d.entries = c.entries /\ d.counts = c.counts /\ d.samples = c.samples /\ d.dirty = c.dirty
      /\ d.membershipChanged = m
      /\ d = [entries |-> d.entries, counts |-> d.counts, samples |-> d.samples, dirty |-> d.dirty,
              membershipChanged |-> d.membershipChanged]
  BY <1>2, <1>3
<1>5. CacheShape(d) /\ Counted(d) = Counted(c)
  BY <1>4 DEF CacheOK, CacheShape, Counted
<1>6. CountsMatchEntries(d)
  BY <1>4, <1>5 DEF CacheOK, CountsMatchEntries, Users
<1>7. QED
  BY <1>1, <1>4, <1>5, <1>6 DEF CacheOK

LEMMA KeptIs ==
    ASSUME NEW c, CacheOK(c)
    PROVE  CacheOK(Kept(c)) /\ Kept(c).samples = c.samples /\ Counted(Kept(c)) = Counted(c)
BY ReportIs DEF Kept

LEMMA DirtyIs ==
    ASSUME NEW c, CacheOK(c), NEW keys
    PROVE  LET d == MarkSegmentsDirty([Kept(c) EXCEPT !.dirty = {}], keys) IN
           /\ CacheOK(d) /\ d.samples = c.samples /\ Counted(d) = Counted(c)
           /\ d.dirty = keys \cap Counted(c)
<1>1. PICK k : k = Kept(c)
  OBVIOUS
<1>2. CacheOK(k) /\ k.samples = c.samples /\ Counted(k) = Counted(c)
  BY <1>1, KeptIs
<1>3. PICK a1, a2, a3, a4, a5 : k = [entries |-> a1, counts |-> a2, samples |-> a3, dirty |-> a4,
                                     membershipChanged |-> a5]
  BY <1>2 DEF CacheOK, CacheShape
<1>4. PICK e : e = [k EXCEPT !.dirty = {}]
  OBVIOUS
<1>5. e = [entries |-> a1, counts |-> a2, samples |-> a3, dirty |-> {}, membershipChanged |-> a5]
  BY <1>3, <1>4
<1>6. Counted(e) = Counted(k)
  BY <1>3, <1>5 DEF Counted
<1>7. PICK d : d = MarkSegmentsDirty(e, keys)
  OBVIOUS
<1>8. d = [e EXCEPT !.dirty = e.dirty \cup (keys \cap Counted(e))]
  BY <1>7 DEF MarkSegmentsDirty
<1>9. PICK m : m = e.dirty \cup (keys \cap Counted(e))
  OBVIOUS
<1>10. m = keys \cap Counted(k)
  BY <1>5, <1>6, <1>9
<1>11. d = [entries |-> a1, counts |-> a2, samples |-> a3, dirty |-> m, membershipChanged |-> a5]
  BY <1>5, <1>8, <1>9
<1>12. /\ d.entries = k.entries /\ d.counts = k.counts /\ d.samples = k.samples /\ d.dirty = m
       /\ d.membershipChanged = k.membershipChanged
       /\ d = [entries |-> d.entries, counts |-> d.counts, samples |-> d.samples, dirty |-> d.dirty,
               membershipChanged |-> d.membershipChanged]
  BY <1>3, <1>11
<1>13. CacheShape(d) /\ Counted(d) = Counted(k)
  BY <1>2, <1>12 DEF CacheOK, CacheShape, Counted
<1>14. CountsMatchEntries(d)
  <2>1. \A x : Users(d, x) = Users(k, x)
    BY <1>12 DEF Users
  <2>2. CountsMatchEntries(k)
    BY <1>2 DEF CacheOK
  <2>3. d.dirty \subseteq Counted(d) /\ DOMAIN d.samples = Counted(d)
    BY <1>10, <1>12, <1>13, <2>2 DEF CountsMatchEntries
  <2>4. Counted(d) = UNION {DOMAIN d.entries[i].samples : i \in DOMAIN d.entries}
    BY <1>12, <1>13, <2>2 DEF CountsMatchEntries
  <2>5. \A x \in Counted(d) : d.counts[x] = Cardinality(Users(d, x))
    BY <1>12, <1>13, <2>1, <2>2 DEF CountsMatchEntries
  <2>6. QED
    BY <2>3, <2>4, <2>5 DEF CountsMatchEntries
<1>15. QED
  BY <1>1, <1>2, <1>4, <1>7, <1>10, <1>12, <1>13, <1>14 DEF CacheOK

LEMMA StoreCounts ==
    ASSUME NEW c, CacheShape(c), NEW e, EntryOK(e),
           CountsOf(c, DOMAIN c.entries \ {e.vehicle}), NEW b, Since(c, b)
    PROVE  LET d == Store(c, e) IN
           /\ CacheShape(d) /\ DOMAIN d.entries = DOMAIN c.entries \cup {e.vehicle}
           /\ d.entries[e.vehicle] = e
           /\ CountsOf(d, DOMAIN c.entries \ {e.vehicle}) /\ Since(d, b)
<1> DEFINE ids == DOMAIN c.entries \ {e.vehicle}
<1>1. PICK d : d = Store(c, e)
  OBVIOUS
<1>2. PICK a1, a2, a3, a4, a5 : c = [entries |-> a1, counts |-> a2, samples |-> a3, dirty |-> a4,
                                     membershipChanged |-> a5]
  BY DEF CacheShape
<1>3. PICK w : w = With(c.entries, e.vehicle, e)
  OBVIOUS
<1>4. d = [c EXCEPT !.entries = w]
  BY <1>1, <1>3 DEF Store
<1>5. d = [entries |-> w, counts |-> a2, samples |-> a3, dirty |-> a4, membershipChanged |-> a5]
  BY <1>2, <1>4
<1>6. /\ d.entries = w /\ d.counts = c.counts /\ d.samples = c.samples /\ d.dirty = c.dirty
      /\ d.membershipChanged = c.membershipChanged
      /\ d = [entries |-> d.entries, counts |-> d.counts, samples |-> d.samples, dirty |-> d.dirty,
              membershipChanged |-> d.membershipChanged]
  BY <1>2, <1>5
<1>7. /\ DOMAIN w = DOMAIN c.entries \cup {e.vehicle} /\ w[e.vehicle] = e
      /\ \A i \in ids : w[i] = c.entries[i]
  BY <1>3 DEF With
<1>8. CacheShape(d)
  <2>1. IsFiniteSet(DOMAIN w)
    BY <1>7, FS_AddElement DEF CacheShape
  <2>2. \A i \in DOMAIN w : EntryOK(w[i])
    BY <1>7 DEF CacheShape
  <2>3. QED
    BY <1>6, <2>1, <2>2 DEF CacheShape
<1>9. Counted(d) = Counted(c) /\ \A k : UsersAmong(d, ids, k) = UsersAmong(c, ids, k)
  BY <1>6, <1>7 DEF Counted, UsersAmong
<1>10. UNION {DOMAIN d.entries[i].samples : i \in ids} = UNION {DOMAIN c.entries[i].samples : i \in ids}
  BY <1>6, <1>7
<1>11. CountsOf(d, ids)
  BY <1>6, <1>9, <1>10 DEF CountsOf
<1>12. Since(d, b)
  BY <1>6, <1>9 DEF Since
<1>13. QED
  BY <1>1, <1>6, <1>7, <1>8, <1>11, <1>12

LEMMA RefreshOK ==
    ASSUME NEW c, CacheOK(c), NEW e, EntryOK(e), NEW b, Since(c, b)
    PROVE  CacheOK(Refresh(c, e)) /\ Since(Refresh(c, e), b)
<1> DEFINE ids == DOMAIN c.entries \ {e.vehicle}
<1>1. PICK r : r = IF e.vehicle \in DOMAIN c.entries
                   THEN RemoveRouteContribution(c, c.entries[e.vehicle]) ELSE c
  OBVIOUS
<1>2. CacheShape(c) /\ CountsOf(c, DOMAIN c.entries)
  BY AllCounted DEF CacheOK
<1>3. CacheShape(r) /\ r.entries = c.entries /\ CountsOf(r, ids) /\ Since(r, b)
  <2>1. CASE e.vehicle \in DOMAIN c.entries
    BY <1>1, <1>2, <2>1, RemoveCounts
  <2>2. CASE e.vehicle \notin DOMAIN c.entries
    BY <1>1, <1>2, <2>2
  <2>3. QED
    BY <2>1, <2>2
<1>4. PICK s : s = Store(r, e)
  OBVIOUS
<1>5. /\ CacheShape(s) /\ DOMAIN s.entries = DOMAIN c.entries \cup {e.vehicle}
      /\ s.entries[e.vehicle] = e /\ CountsOf(s, ids) /\ Since(s, b)
  <2>1. CountsOf(r, DOMAIN r.entries \ {e.vehicle})
    BY <1>3
  <2>2. /\ CacheShape(s) /\ DOMAIN s.entries = DOMAIN r.entries \cup {e.vehicle}
        /\ s.entries[e.vehicle] = e
        /\ CountsOf(s, DOMAIN r.entries \ {e.vehicle}) /\ Since(s, b)
    BY <1>3, <1>4, <2>1, StoreCounts
  <2>3. QED
    BY <1>3, <2>2
<1>6. PICK d : d = AddRouteContribution(s, e)
  OBVIOUS
<1>7. /\ CacheShape(d) /\ d.entries = s.entries
      /\ CountsOf(d, ids \cup {e.vehicle}) /\ Since(d, b)
  <2>1. ids \in SUBSET DOMAIN s.entries /\ e.vehicle \in DOMAIN s.entries /\ e.vehicle \notin ids
    BY <1>5
  <2> HIDE DEF ids
  <2>2. QED
    BY <1>5, <1>6, <2>1, AddCounts
<1>8. ids \cup {e.vehicle} = DOMAIN d.entries
  BY <1>5, <1>7
<1>9. CacheOK(d)
  BY <1>7, <1>8, AllCounted DEF CacheOK
<1>10. d = Refresh(c, e)
  BY <1>1, <1>4, <1>6 DEF Refresh
<1>11. QED
  BY <1>7, <1>9, <1>10

LEMMA RemoveStaleOK ==
    ASSUME NEW c, CacheOK(c), NEW i \in DOMAIN c.entries, NEW b, Since(c, b)
    PROVE  /\ CacheOK(RemoveStale(c, i)) /\ Since(RemoveStale(c, i), b)
           /\ DOMAIN RemoveStale(c, i).entries = DOMAIN c.entries \ {i}
<1> DEFINE ids == DOMAIN c.entries \ {i}
<1>1. PICK r : r = RemoveRouteContribution(c, c.entries[i])
  OBVIOUS
<1>2. CacheShape(c) /\ CountsOf(c, DOMAIN c.entries)
  BY AllCounted DEF CacheOK
<1>3. CacheShape(r) /\ r.entries = c.entries /\ CountsOf(r, ids) /\ Since(r, b)
  BY <1>1, <1>2, RemoveCounts
<1>4. PICK a1, a2, a3, a4, a5 : r = [entries |-> a1, counts |-> a2, samples |-> a3, dirty |-> a4,
                                     membershipChanged |-> a5]
  BY <1>3 DEF CacheShape
<1>5. PICK w : w = Restrict(r.entries, DOMAIN r.entries \ {i})
  OBVIOUS
<1>6. PICK d : d = [r EXCEPT !.entries = w]
  OBVIOUS
<1>7. d = RemoveStale(c, i)
  BY <1>1, <1>5, <1>6 DEF RemoveStale
<1>8. d = [entries |-> w, counts |-> a2, samples |-> a3, dirty |-> a4, membershipChanged |-> a5]
  BY <1>4, <1>6
<1>9. /\ d.entries = w /\ d.counts = r.counts /\ d.samples = r.samples /\ d.dirty = r.dirty
      /\ d.membershipChanged = r.membershipChanged
      /\ d = [entries |-> d.entries, counts |-> d.counts, samples |-> d.samples, dirty |-> d.dirty,
              membershipChanged |-> d.membershipChanged]
  BY <1>4, <1>8
<1>10. DOMAIN w = ids /\ \A j \in ids : w[j] = r.entries[j]
  BY <1>3, <1>5 DEF Restrict
<1>11. CacheShape(d)
  <2>1. IsFiniteSet(DOMAIN w)
    BY <1>2, <1>10, FS_RemoveElement DEF CacheShape
  <2>2. \A j \in DOMAIN w : EntryOK(w[j])
    BY <1>3, <1>10 DEF CacheShape
  <2>3. QED
    BY <1>3, <1>9, <2>1, <2>2 DEF CacheShape
<1>12. Counted(d) = Counted(r) /\ \A k : UsersAmong(d, ids, k) = UsersAmong(r, ids, k)
  BY <1>9, <1>10 DEF Counted, UsersAmong
<1>13. UNION {DOMAIN d.entries[j].samples : j \in ids} = UNION {DOMAIN r.entries[j].samples : j \in ids}
  BY <1>9, <1>10
<1>14. CountsOf(d, ids)
  BY <1>3, <1>9, <1>12, <1>13 DEF CountsOf
<1>15. Since(d, b)
  BY <1>3, <1>9, <1>12 DEF Since
<1>16. CacheOK(d)
  BY <1>9, <1>10, <1>11, <1>14, AllCounted DEF CacheOK
<1>17. QED
  BY <1>7, <1>9, <1>10, <1>15, <1>16

-----------------------------------------------------------------------------
(* Updates                                                                  *)

RefreshStep(b, e, c) == Refresh(c, e)
KeepsCounts(b, done, c) == CacheOK(c) /\ Since(c, b)
Refreshing == INSTANCE FiniteFolds WITH Op <- RefreshStep, Holds <- KeepsCounts

RemoveStep(p, i, c) == RemoveStale(c, i)
KeepsOthers(p, done, c) == CacheOK(c) /\ Since(c, p.since) /\ DOMAIN c.entries = p.ids \ done
Removing == INSTANCE FiniteFolds WITH Op <- RemoveStep, Holds <- KeepsOthers

\* What a vehicle's route uses is in the network: the scan that is looked up
\* is one of the network as it is.
LEMMA EntryFound ==
    ASSUME PathsOK, NEW v \in DOMAIN vehicles
    PROVE  EntryOK(BuildCacheEntry(v))
<1> DEFINE Fits(x) == x.built = Built /\ x.route = vehicles[v].route
           scan == CHOOSE x \in Scans : Fits(x)
           samples == IF HasContext(v) THEN PaintSamples(scan.used) ELSE << >>
<1>1. vehicles[v].route \in Routes \cup LoadedRoutes /\ Built \in SUBSET Segments
  BY DEF PathsOK, KnownRoutes
<1>2. PICK y : y = [built |-> Built, route |-> vehicles[v].route,
                    used |-> ScanRoute(NetworkOf(Built), vehicles[v].route)]
  OBVIOUS
<1>3. y \in Scans /\ Fits(y)
  BY <1>1, <1>2 DEF Scans
<1>4. scan \in Scans /\ Fits(scan)
  <2> HIDE DEF Fits
  <2>1. QED
    BY <1>3
<1>5. PICK built \in SUBSET Segments, route \in Routes \cup LoadedRoutes :
          scan = [built |-> built, route |-> route, used |-> ScanRoute(NetworkOf(built), route)]
  BY <1>4 DEF Scans
<1>6. scan.used = ScanRoute(NetworkOf(Built), route)
  <2>1. PICK z : z = scan
    OBVIOUS
  <2>2. z = [built |-> built, route |-> route, used |-> ScanRoute(NetworkOf(built), route)]
    BY <1>5, <2>1
  <2>3. z.built = Built
    BY <1>4, <2>1
  <2> HIDE DEF scan
  <2>4. z.used = ScanRoute(NetworkOf(built), route) /\ built = Built
    BY <2>2, <2>3
  <2>5. QED
    BY <2>1, <2>4
<1>7. IsFiniteSet(scan.used)
  <2>1. IsFiniteSet(NetworkOf(Built))
    BY <1>1, NetworkFinite
  <2>2. ScanRoute(NetworkOf(Built), route) \subseteq NetworkOf(Built)
    BY <2>1, RouteWithin
  <2>3. QED
    BY <1>6, <2>1, <2>2, FS_Subset
<1> HIDE DEF scan
<1>8. IsFiniteSet(DOMAIN PaintSamples(scan.used))
  <2> DEFINE f == [seg \in scan.used |-> KeyOf(seg)]
  <2>1. DOMAIN PaintSamples(scan.used) = {KeyOf(seg) : seg \in scan.used}
    BY DEF PaintSamples
  <2>2. {KeyOf(seg) : seg \in scan.used} = {f[seg] : seg \in scan.used}
    OBVIOUS
  <2>3. IsFiniteSet({f[seg] : seg \in scan.used})
    <3> HIDE DEF f
    <3>1. QED
      BY <1>7, ImageFinite
  <2>4. QED
    BY <2>1, <2>2, <2>3
<1>9. DOMAIN << >> = {} /\ IsFiniteSet({})
  BY FS_EmptySet
<1>10. PICK s : s = samples
  OBVIOUS
<1>11. IsFiniteSet(DOMAIN s) /\ (~HasContext(v) => DOMAIN s = {})
  BY <1>8, <1>9, <1>10
<1>12. PICK ok \in BOOLEAN : ok = HasContext(v)
  BY DEF HasContext
<1>13. BuildCacheEntry(v) =
          [vehicle |-> Identifier(v), changelist |-> vehicles[v].changelist,
           route |-> vehicles[v].route, valid |-> ok, samples |-> s]
  BY <1>10, <1>12 DEF BuildCacheEntry, scan
<1>14. BuildCacheEntry(v).samples = s /\ BuildCacheEntry(v).valid = ok
  BY <1>13
<1>15. QED
  BY <1>11, <1>12, <1>14 DEF EntryOK

LEMMA RefreshAllOK ==
    ASSUME PathsOK, NEW c, CacheOK(c)
    PROVE  CacheOK(RefreshOutdated(c)) /\ Since(RefreshOutdated(c), c)
<1> DEFINE outdated == {u \in DOMAIN vehicles : Outdated(c, u)}
           S == {BuildCacheEntry(v) : v \in outdated}
<1>1. PICK d : d = [c EXCEPT !.membershipChanged = FALSE]
  OBVIOUS
<1>2. CacheOK(d) /\ d.samples = c.samples /\ d.dirty = c.dirty /\ Counted(d) = Counted(c)
  BY <1>1, ReportIs
<1>3. KeepsCounts(c, {}, d)
  BY <1>2 DEF KeepsCounts, Since
<1>4. IsFiniteSet(S)
  <2> DEFINE f == [v \in outdated |-> BuildCacheEntry(v)]
  <2>1. outdated \subseteq Vehicles
    BY DEF PathsOK
  <2>2. IsFiniteSet(outdated)
    <3> HIDE DEF outdated
    <3>1. QED
      BY <2>1, VehiclePathsAssumption, FS_Subset DEF VehiclePathsAssumption
  <2>3. S = {f[v] : v \in outdated}
    <3> HIDE DEF outdated
    <3>1. QED
      OBVIOUS
  <2>4. IsFiniteSet({f[v] : v \in outdated})
    <3> HIDE DEF f, outdated
    <3>1. QED
      BY <2>2, ImageFinite
  <2>5. QED
    BY <2>3, <2>4
<1>5. \A e \in S : EntryOK(e)
  BY EntryFound
<1> HIDE DEF S
<1>6. \A T \in SUBSET S : \A e \in T : \A y :
          KeepsCounts(c, T \ {e}, y) => KeepsCounts(c, T, RefreshStep(c, e, y))
  BY <1>5, RefreshOK DEF KeepsCounts, RefreshStep
<1>7. KeepsCounts(c, S, Refreshing!Fold(c, d, S))
  BY <1>3, <1>4, <1>6, Refreshing!FoldHolds DEF IsFiniteSet, Refreshing!IsFiniteSet
<1>8. RefreshOutdated(c) = Refreshing!Fold(c, d, S)
  BY <1>1 DEF RefreshOutdated, FoldSet, MapThenFoldSet, Refreshing!Fold, Refreshing!Pick, RefreshStep, S
<1>9. QED
  BY <1>7, <1>8 DEF KeepsCounts

LEMMA RemoveAllOK ==
    ASSUME NEW c, CacheOK(c), NEW b, Since(c, b)
    PROVE  CacheOK(RemoveGone(c)) /\ Since(RemoveGone(c), b)
<1> DEFINE S == DOMAIN c.entries \ {Identifier(v) : v \in DOMAIN vehicles}
           p == [since |-> b, ids |-> DOMAIN c.entries]
<1>1. p.since = b /\ p.ids = DOMAIN c.entries
  OBVIOUS
<1>2. S \subseteq DOMAIN c.entries /\ IsFiniteSet(S)
  <2>1. IsFiniteSet(DOMAIN c.entries)
    BY DEF CacheOK, CacheShape
  <2>2. S \subseteq DOMAIN c.entries
    OBVIOUS
  <2> HIDE DEF S
  <2>3. QED
    BY <2>1, <2>2, FS_Subset
<1>3. RemoveGone(c) = Removing!Fold(p, c, S)
  BY DEF RemoveGone, FoldSet, MapThenFoldSet, Removing!Fold, Removing!Pick, RemoveStep
<1> HIDE DEF S, p
<1>4. KeepsOthers(p, {}, c)
  BY <1>1 DEF KeepsOthers
<1>5. \A T \in SUBSET S : \A i \in T : \A y :
          KeepsOthers(p, T \ {i}, y) => KeepsOthers(p, T, RemoveStep(p, i, y))
  <2>1. ASSUME NEW T \in SUBSET S, NEW i \in T, NEW y, KeepsOthers(p, T \ {i}, y)
        PROVE  KeepsOthers(p, T, RemoveStep(p, i, y))
    <3>1. i \in DOMAIN y.entries /\ CacheOK(y) /\ Since(y, b) /\ DOMAIN y.entries = p.ids \ (T \ {i})
      BY <1>1, <1>2, <2>1 DEF KeepsOthers
    <3>2. PICK z : z = RemoveStale(y, i)
      OBVIOUS
    <3>3. CacheOK(z) /\ Since(z, b) /\ DOMAIN z.entries = DOMAIN y.entries \ {i}
      BY <3>1, <3>2, RemoveStaleOK
    <3>4. DOMAIN z.entries = p.ids \ T
      BY <3>1, <3>3
    <3>5. QED
      BY <1>1, <3>2, <3>3, <3>4 DEF KeepsOthers, RemoveStep
  <2>2. QED
    BY <2>1
<1>6. KeepsOthers(p, S, Removing!Fold(p, c, S))
  BY <1>2, <1>4, <1>5, Removing!FoldHolds DEF IsFiniteSet, Removing!IsFiniteSet
<1>7. QED
  BY <1>1, <1>3, <1>6 DEF KeepsOthers

LEMMA UpdateOK ==
    ASSUME PathsOK, NEW c, CacheOK(c)
    PROVE  CacheOK(Update(c)) /\ Since(Update(c), c)
BY RefreshAllOK, RemoveAllOK DEF Update

-----------------------------------------------------------------------------
(* The snapshot                                                             *)

SnapshotShape(snap) ==
    /\ snap = [initialized |-> snap.initialized, lines |-> snap.lines]
    /\ snap.lines = [k \in DOMAIN snap.lines |-> snap.lines[k]]

\* The lines are those of the present segments but for what is still to be
\* refreshed.  LineOf is of a segment that is there, or that is to come.
LinesMatch(lines, waiting) ==
    \A k \in DOMAIN lines :
        \E s \in Built : PathSegmentKey(s) = k /\ (lines[k] = Line(s) \/ s \in waiting)
Drawable(s) == s \in Built /\ Alone(s) /\ shape[s] > 0
LinesCover(lines, waiting) ==
    \A s \in Built : Drawable(s) => PathSegmentKey(s) \in DOMAIN lines \/ s \in waiting

\* The refreshes of a tick.
RefreshStepOf(p, s, r) == RefreshSegment(r, s)
ToBeRefreshed(p, done, r) ==
    /\ SnapshotShape(r.snapshot)
    /\ ~r.changed => r.snapshot.lines = p.lines
    /\ LinesMatch(r.snapshot.lines, p.refreshes \ done)
    /\ LinesCover(r.snapshot.lines, p.refreshes \ done)
Applying == INSTANCE FiniteFolds WITH Op <- RefreshStepOf, Holds <- ToBeRefreshed

LEMMA RemoveSegmentsIs ==
    ASSUME NEW snap, SnapshotShape(snap), NEW keys
    PROVE  LET u == RemoveSegments(snap, keys) IN
           /\ SnapshotShape(u.snapshot) /\ u.changed \in BOOLEAN
           /\ DOMAIN u.snapshot.lines = DOMAIN snap.lines \ keys
           /\ \A k \in DOMAIN snap.lines \ keys : u.snapshot.lines[k] = snap.lines[k]
           /\ ~u.changed => u.snapshot.lines = snap.lines
<1>1. PICK l : l = Restrict(snap.lines, DOMAIN snap.lines \ keys)
  OBVIOUS
<1>2. PICK i : i = (snap.initialized \/ keys # {})
  OBVIOUS
<1>3. PICK c \in BOOLEAN : c = (keys \cap DOMAIN snap.lines # {})
  OBVIOUS
<1>4. RemoveSegments(snap, keys) = [snapshot |-> [initialized |-> i, lines |-> l], changed |-> c]
  BY <1>1, <1>2, <1>3 DEF RemoveSegments
<1>5. /\ DOMAIN l = DOMAIN snap.lines \ keys /\ l = [k \in DOMAIN l |-> l[k]]
      /\ \A k \in DOMAIN l : l[k] = snap.lines[k]
  BY <1>1 DEF Restrict
<1>6. ~c => l = snap.lines
  BY <1>3, <1>5 DEF SnapshotShape
<1>7. PICK u : u = RemoveSegments(snap, keys)
  OBVIOUS
<1>8. PICK w : w = u.snapshot
  OBVIOUS
<1>9. w.initialized = i /\ w.lines = l /\ w = [initialized |-> i, lines |-> l] /\ u.changed = c
  BY <1>4, <1>7, <1>8
<1>10. SnapshotShape(w)
  BY <1>5, <1>9 DEF SnapshotShape
<1>11. QED
  BY <1>5, <1>6, <1>7, <1>8, <1>9, <1>10

LEMMA UpdateSegmentIs ==
    ASSUME NEW snap, SnapshotShape(snap), NEW k, NEW line
    PROVE  LET u == UpdateSegment(snap, k, line) IN
           /\ SnapshotShape(u.snapshot) /\ u.changed \in BOOLEAN
           /\ DOMAIN u.snapshot.lines = DOMAIN snap.lines \cup {k}
           /\ u.snapshot.lines[k] = line
           /\ \A j \in DOMAIN snap.lines \ {k} : u.snapshot.lines[j] = snap.lines[j]
           /\ ~u.changed => u.snapshot.lines = snap.lines
<1>1. PICK l : l = [j \in DOMAIN snap.lines \cup {k} |-> IF j = k THEN line ELSE snap.lines[j]]
  OBVIOUS
<1>3. PICK c \in BOOLEAN : c = (k \notin DOMAIN snap.lines \/ snap.lines[k] # line)
  OBVIOUS
<1>4. UpdateSegment(snap, k, line) = [snapshot |-> [initialized |-> TRUE, lines |-> l], changed |-> c]
  BY <1>1, <1>3 DEF UpdateSegment
<1>5. /\ DOMAIN l = DOMAIN snap.lines \cup {k} /\ l = [j \in DOMAIN l |-> l[j]]
      /\ l[k] = line /\ \A j \in DOMAIN snap.lines \ {k} : l[j] = snap.lines[j]
  BY <1>1
<1>6. ~c => l = snap.lines
  <2>1. ASSUME ~c PROVE DOMAIN l = DOMAIN snap.lines /\ \A j \in DOMAIN l : l[j] = snap.lines[j]
    BY <1>3, <1>5, <2>1
  <2>2. QED
    BY <1>5, <2>1 DEF SnapshotShape
<1>7. PICK u : u = UpdateSegment(snap, k, line)
  OBVIOUS
<1>8. PICK w : w = u.snapshot
  OBVIOUS
<1>9. w.initialized = TRUE /\ w.lines = l /\ w = [initialized |-> TRUE, lines |-> l] /\ u.changed = c
  BY <1>4, <1>7, <1>8
<1>10. SnapshotShape(w)
  BY <1>5, <1>9 DEF SnapshotShape
<1>11. QED
  BY <1>5, <1>6, <1>7, <1>8, <1>9, <1>10

\* One refresh.
LEMMA RefreshSegmentOK ==
    ASSUME PathsOK, NEW r, NEW p, NEW T \in SUBSET p.refreshes, NEW s \in T,
           ToBeRefreshed(p, T \ {s}, r)
    PROVE  ToBeRefreshed(p, T, RefreshSegment(r, s))
<1> DEFINE before == p.refreshes \ (T \ {s})
           after == p.refreshes \ T
           lines == r.snapshot.lines
<1>1. before = after \cup {s} /\ s \notin after
  OBVIOUS
<1>2. /\ SnapshotShape(r.snapshot) /\ (~r.changed => lines = p.lines)
      /\ LinesMatch(lines, before) /\ LinesCover(lines, before)
  BY DEF ToBeRefreshed
<1> HIDE DEF before, after, lines
<1>3. PICK u : u = IF s \notin Built THEN [snapshot |-> r.snapshot, changed |-> FALSE]
                   ELSE IF shape[s] = 0 THEN RemoveSegments(r.snapshot, {PathSegmentKey(s)})
                   ELSE UpdateSegment(r.snapshot, PathSegmentKey(s), Line(s))
  OBVIOUS
<1>4. PICK d : d = RefreshSegment(r, s)
  OBVIOUS
<1>5. d = [snapshot |-> u.snapshot, changed |-> r.changed \/ u.changed]
  BY <1>3, <1>4 DEF RefreshSegment
<1>6. d.snapshot = u.snapshot /\ d.changed = (r.changed \/ u.changed)
  BY <1>5
<1>7. PICK new : new = u.snapshot.lines
  OBVIOUS
<1>8. /\ SnapshotShape(u.snapshot) /\ (~u.changed => new = lines)
      /\ LinesMatch(new, after) /\ LinesCover(new, after)
  <2>1. CASE s \notin Built
    <3>1. u.snapshot = r.snapshot
      BY <1>3, <2>1
    <3>2. new = lines
      BY <1>7, <3>1 DEF lines
    <3>3. LinesMatch(lines, after) /\ LinesCover(lines, after)
      BY <1>1, <1>2, <2>1 DEF LinesMatch, LinesCover
    <3>4. QED
      BY <1>2, <3>1, <3>2, <3>3
  <2>2. CASE s \in Built /\ shape[s] = 0
    <3>1. /\ SnapshotShape(u.snapshot) /\ DOMAIN new = DOMAIN lines \ {PathSegmentKey(s)}
          /\ \A k \in DOMAIN lines \ {PathSegmentKey(s)} : new[k] = lines[k]
          /\ ~u.changed => new = lines
      BY <1>2, <1>3, <1>7, <2>2, RemoveSegmentsIs DEF lines
    <3>2. LinesMatch(new, after)
      <4>1. ASSUME NEW k \in DOMAIN new
            PROVE  \E t \in Built : PathSegmentKey(t) = k /\ (new[k] = Line(t) \/ t \in after)
        <5>1. k \in DOMAIN lines /\ k # PathSegmentKey(s) /\ new[k] = lines[k]
          BY <3>1
        <5>2. PICK t \in Built : PathSegmentKey(t) = k /\ (lines[k] = Line(t) \/ t \in before)
          BY <1>2, <5>1 DEF LinesMatch
        <5>3. t # s
          BY <5>1, <5>2
        <5>4. QED
          BY <1>1, <5>1, <5>2, <5>3
      <4>2. QED
        BY <4>1 DEF LinesMatch
    <3>3. LinesCover(new, after)
      <4>1. ASSUME NEW t \in Built, Drawable(t)
            PROVE  PathSegmentKey(t) \in DOMAIN new \/ t \in after
        <5>1. t # s
          <6>1. shape[t] > 0
            BY <4>1 DEF Drawable
          <6>2. QED
            BY <2>2, <6>1
        <5>2. PathSegmentKey(s) # PathSegmentKey(t)
          <6>1. s \in Segments
            BY <2>2 DEF PathsOK
          <6>2. QED
            BY <4>1, <5>1, <6>1 DEF Drawable, Alone
        <5>3. PathSegmentKey(t) \in DOMAIN lines \/ t \in before
          BY <1>2, <4>1 DEF LinesCover
        <5>4. QED
          BY <1>1, <3>1, <5>1, <5>2, <5>3
      <4>2. QED
        BY <4>1 DEF LinesCover
    <3>4. QED
      BY <3>1, <3>2, <3>3
  <2>3. CASE s \in Built /\ shape[s] # 0
    <3>1. /\ SnapshotShape(u.snapshot) /\ DOMAIN new = DOMAIN lines \cup {PathSegmentKey(s)}
          /\ new[PathSegmentKey(s)] = Line(s)
          /\ \A k \in DOMAIN lines \ {PathSegmentKey(s)} : new[k] = lines[k]
          /\ ~u.changed => new = lines
      BY <1>2, <1>3, <1>7, <2>3, UpdateSegmentIs DEF lines
    <3>2. LinesMatch(new, after)
      <4>1. ASSUME NEW k \in DOMAIN new
            PROVE  \E t \in Built : PathSegmentKey(t) = k /\ (new[k] = Line(t) \/ t \in after)
        <5>1. CASE k = PathSegmentKey(s)
          BY <2>3, <3>1, <5>1
        <5>2. CASE k # PathSegmentKey(s)
          <6>1. k \in DOMAIN lines /\ new[k] = lines[k]
            BY <3>1, <5>2
          <6>2. PICK t \in Built : PathSegmentKey(t) = k /\ (lines[k] = Line(t) \/ t \in before)
            BY <1>2, <6>1 DEF LinesMatch
          <6>3. t # s
            BY <5>2, <6>2
          <6>4. QED
            BY <1>1, <6>1, <6>2, <6>3
        <5>3. QED
          BY <5>1, <5>2
      <4>2. QED
        BY <4>1 DEF LinesMatch
    <3>3. LinesCover(new, after)
      <4>1. ASSUME NEW t \in Built, Drawable(t)
            PROVE  PathSegmentKey(t) \in DOMAIN new \/ t \in after
        <5>1. PathSegmentKey(t) \in DOMAIN lines \/ t \in before
          BY <1>2, <4>1 DEF LinesCover
        <5>2. QED
          BY <1>1, <3>1, <5>1
      <4>2. QED
        BY <4>1 DEF LinesCover
    <3>4. QED
      BY <3>1, <3>2, <3>3
  <2>4. QED
    BY <2>1, <2>2, <2>3
<1>9. ~d.changed => d.snapshot.lines = p.lines
  BY <1>2, <1>6, <1>7, <1>8
<1>10. d.snapshot.lines = new
  BY <1>6, <1>7
<1>11. QED
  BY <1>4, <1>6, <1>8, <1>9, <1>10 DEF ToBeRefreshed, after

-----------------------------------------------------------------------------
(* The map                                                                  *)

\* What the requests leave to do.  A removed key is that of no present
\* segment, but of one that is to be refreshed; before the first tick with a
\* vehicle subsystem the snapshot counts for nothing.
RemovedAreGone ==
    \A t \in Built :
        Drawable(t) /\ PathSegmentKey(t) \in pendingRemovals => t \in pendingRefreshes
LinesMatchBut(lines, removals, waiting) ==
    \A k \in DOMAIN lines \ removals :
        \E s \in Built : PathSegmentKey(s) = k /\ (lines[k] = Line(s) \/ s \in waiting)
RequestsSuffice ==
    /\ ~subsystem => pendingRemovals = {} /\ initialPopulationRequested
    /\ RemovedAreGone
    /\ ~initialPopulationRequested =>
          /\ LinesMatchBut(snapshot.lines, pendingRemovals, pendingRefreshes)
          /\ LinesCover(snapshot.lines, pendingRefreshes)

MapOK ==
    /\ SnapshotShape(snapshot) /\ pendingRefreshes \subseteq Segments
    /\ cachedWorld = NoWorld \/ (cachedWorld \in Nat /\ cachedWorld <= world)
    /\ watched = "overlay" => cachedWorld = NoWorld
    /\ cachedWorld = world => RequestsSuffice
CachesOK == CacheOK(mapCache) /\ CacheOK(tracerCache)
MapInv == PathsOK /\ CachesOK /\ MapOK /\ LayerIsCurrent

LEMMA BuiltLines ==
    ASSUME NEW lines, lines = BuildAllPathSegmentGeometry
    PROVE  /\ lines = [k \in DOMAIN lines |-> lines[k]]
           /\ LinesMatch(lines, {}) /\ LinesCover(lines, {})
<1> DEFINE Of(k) == CHOOSE s \in Built : PathSegmentKey(s) = k
<1>1. /\ DOMAIN lines = {PathSegmentKey(s) : s \in Built}
      /\ \A k \in DOMAIN lines : lines[k] = Line(Of(k))
      /\ lines = [k \in DOMAIN lines |-> lines[k]]
  BY DEF BuildAllPathSegmentGeometry
<1>2. ASSUME NEW k \in DOMAIN lines PROVE Of(k) \in Built /\ PathSegmentKey(Of(k)) = k
  <2>1. \E s \in Built : PathSegmentKey(s) = k
    BY <1>1
  <2>2. QED
    BY <2>1
<1> HIDE DEF Of
<1>3. LinesMatch(lines, {})
  BY <1>1, <1>2 DEF LinesMatch
<1>4. LinesCover(lines, {})
  BY <1>1 DEF LinesCover
<1>5. QED
  BY <1>1, <1>3, <1>4

\* What a tick begins with: the whole network, or what there is, without what
\* was removed.
Populated(s) ==
    IF s.populate THEN ReplaceAllSegments(s.snapshot, BuildAllPathSegmentGeometry)
    ELSE [snapshot |-> s.snapshot, changed |-> FALSE]

Sufficient(s) ==
    /\ SnapshotShape(s.snapshot) /\ s.refreshes \subseteq Segments
    /\ \A t \in Built :
          Drawable(t) /\ PathSegmentKey(t) \in s.removals => t \in s.refreshes
    /\ ~s.populate => /\ LinesMatchBut(s.snapshot.lines, s.removals, s.refreshes)
                      /\ LinesCover(s.snapshot.lines, s.refreshes)

LEMMA PopulatedIs ==
    ASSUME NEW s, Sufficient(s)
    PROVE  /\ SnapshotShape(Populated(s).snapshot)
           /\ ~Populated(s).changed => Populated(s).snapshot.lines = s.snapshot.lines
           /\ LinesMatchBut(Populated(s).snapshot.lines, s.removals, s.refreshes)
           /\ LinesCover(Populated(s).snapshot.lines, s.refreshes)
<1>1. CASE ~s.populate
  <2>1. Populated(s) = [snapshot |-> s.snapshot, changed |-> FALSE]
    BY <1>1 DEF Populated
  <2>2. Populated(s).snapshot = s.snapshot
    BY <2>1
  <2>3. QED
    BY <1>1, <2>2 DEF Sufficient
<1>2. CASE s.populate
  <2>1. PICK lines : lines = BuildAllPathSegmentGeometry
    OBVIOUS
  <2>2. PICK u : u = [initialized |-> TRUE, lines |-> lines]
    OBVIOUS
  <2>3. PICK c \in BOOLEAN : c = (~s.snapshot.initialized \/ s.snapshot.lines # lines)
    OBVIOUS
  <2>4. Populated(s) = [snapshot |-> u, changed |-> c]
    BY <1>2, <2>1, <2>2, <2>3 DEF Populated, ReplaceAllSegments
  <2>5. Populated(s).snapshot = u /\ Populated(s).changed = c
    BY <2>4
  <2>6. u.initialized = TRUE /\ u.lines = lines
    BY <2>2
  <2>7. /\ lines = [k \in DOMAIN lines |-> lines[k]]
        /\ LinesMatch(lines, {}) /\ LinesCover(lines, {})
    BY <2>1, BuiltLines
  <2>8. LinesMatchBut(lines, s.removals, s.refreshes) /\ LinesCover(lines, s.refreshes)
    BY <2>7 DEF LinesMatch, LinesMatchBut, LinesCover
  <2>9. SnapshotShape(u)
    BY <2>2, <2>6, <2>7 DEF SnapshotShape
  <2>10. QED
    BY <2>3, <2>5, <2>6, <2>8, <2>9
<1>3. QED
  BY <1>1, <1>2

\* A tick leaves the lines of the present segments, and reports every change.
LEMMA ApplyGeometryOK ==
    ASSUME PathsOK, NEW s, Sufficient(s), NEW g, g = ApplyGeometry(s)
    PROVE  /\ SnapshotShape(g.snapshot) /\ (~g.changed => g.snapshot.lines = s.snapshot.lines)
           /\ LinesMatch(g.snapshot.lines, {}) /\ LinesCover(g.snapshot.lines, {})
<1>1. PICK u : u = Populated(s)
  OBVIOUS
<1>2. PICK w : w = RemoveSegments(u.snapshot, s.removals)
  OBVIOUS
<1>3. PICK c : c = (u.changed \/ w.changed)
  OBVIOUS
<1>4. PICK base : base = [snapshot |-> w.snapshot, changed |-> c]
  OBVIOUS
<1>5. PICK p : p = [lines |-> s.snapshot.lines, refreshes |-> s.refreshes]
  OBVIOUS
<1>6. p.lines = s.snapshot.lines /\ p.refreshes = s.refreshes
  BY <1>5
<1>7. base.snapshot = w.snapshot /\ base.changed = c
  BY <1>4
<1>8. PICK lines : lines = w.snapshot.lines
  OBVIOUS
<1>9. PICK first : first = u.snapshot.lines
  OBVIOUS
<1>10. /\ SnapshotShape(u.snapshot) /\ (~u.changed => first = s.snapshot.lines)
       /\ LinesMatchBut(first, s.removals, s.refreshes) /\ LinesCover(first, s.refreshes)
  BY <1>1, <1>9, PopulatedIs
<1>11. /\ SnapshotShape(w.snapshot) /\ DOMAIN lines = DOMAIN first \ s.removals
       /\ \A k \in DOMAIN first \ s.removals : lines[k] = first[k]
       /\ ~w.changed => lines = first
  BY <1>2, <1>8, <1>9, <1>10, RemoveSegmentsIs
<1>12. LinesMatch(lines, s.refreshes)
  BY <1>10, <1>11 DEF LinesMatch, LinesMatchBut
<1>13. LinesCover(lines, s.refreshes)
  <2>1. ASSUME NEW t \in Built, Drawable(t) PROVE PathSegmentKey(t) \in DOMAIN lines \/ t \in s.refreshes
    BY <1>10, <1>11, <2>1 DEF LinesCover, Sufficient
  <2>2. QED
    BY <2>1 DEF LinesCover
<1>14. ToBeRefreshed(p, {}, base)
  <2>1. s.refreshes \ {} = s.refreshes
    OBVIOUS
  <2>2. ~c => lines = s.snapshot.lines
    BY <1>3, <1>10, <1>11
  <2>3. QED
    BY <1>6, <1>7, <1>8, <1>11, <1>12, <1>13, <2>1, <2>2 DEF ToBeRefreshed
<1>15. IsFiniteSet(s.refreshes)
  <2>1. s.refreshes \subseteq Segments
    BY DEF Sufficient
  <2>2. QED
    BY <2>1, VehiclePathsAssumption, FS_Subset DEF VehiclePathsAssumption
<1>16. \A T \in SUBSET s.refreshes : \A t \in T : \A y :
          ToBeRefreshed(p, T \ {t}, y) => ToBeRefreshed(p, T, RefreshStepOf(p, t, y))
  BY <1>6, RefreshSegmentOK DEF RefreshStepOf
<1>17. ToBeRefreshed(p, s.refreshes, Applying!Fold(p, base, s.refreshes))
  BY <1>14, <1>15, <1>16, Applying!FoldHolds DEF IsFiniteSet, Applying!IsFiniteSet
<1>18. g = Applying!Fold(p, base, s.refreshes)
  BY <1>1, <1>2, <1>3, <1>4 DEF ApplyGeometry, Populated, FoldSet, MapThenFoldSet,
     Applying!Fold, Applying!Pick, RefreshStepOf
<1>19. s.refreshes \ s.refreshes = {}
  OBVIOUS
<1>20. QED
  BY <1>6, <1>17, <1>18, <1>19 DEF ToBeRefreshed


\* The state in which a tick works.
LEMMA ResetIs ==
    ASSUME MapInv, NEW s, s = ResetForWorld
    PROVE  /\ Sufficient(s) /\ CacheOK(s.cache)
           /\ ~subsystem => s.removals = {} /\ s.populate
           /\ target /\ ~s.redraw => s.layer = Drawn(s.snapshot.lines, s.cache.samples)
<1>1. CASE cachedWorld = world
  <2>1. /\ s.snapshot = snapshot /\ s.cache = mapCache /\ s.refreshes = pendingRefreshes
        /\ s.removals = pendingRemovals /\ s.populate = initialPopulationRequested
        /\ s.redraw = needsRedraw /\ s.layer = layer
    BY <1>1 DEF ResetForWorld, AsBefore
  <2>2. RequestsSuffice /\ SnapshotShape(snapshot) /\ pendingRefreshes \subseteq Segments
    BY <1>1 DEF MapInv, MapOK
  <2>3. Sufficient(s)
    BY <2>1, <2>2 DEF Sufficient, RequestsSuffice, RemovedAreGone
  <2>4. ~subsystem => s.removals = {} /\ s.populate
    BY <2>1, <2>2 DEF RequestsSuffice
  <2>5. target /\ ~s.redraw => s.layer = Drawn(s.snapshot.lines, s.cache.samples)
    BY <2>1 DEF MapInv, LayerIsCurrent
  <2>6. QED
    BY <2>1, <2>3, <2>4, <2>5 DEF MapInv, CachesOK
<1>2. CASE cachedWorld # world
  <2>1. PICK e : e = [initialized |-> FALSE, lines |-> << >>]
    OBVIOUS
  <2>2. /\ s.snapshot = e /\ s.cache = EmptyCache /\ s.refreshes = {}
        /\ s.removals = {} /\ s.populate = TRUE /\ s.redraw = TRUE
    BY <1>2, <2>1 DEF ResetForWorld, Emptied
  <2>3. SnapshotShape(e)
    <3>1. e.initialized = FALSE /\ e.lines = << >>
      BY <2>1
    <3>2. << >> = [k \in DOMAIN << >> |-> << >>[k]]
      OBVIOUS
    <3>3. QED
      BY <2>1, <3>1, <3>2 DEF SnapshotShape
  <2>4. QED
    BY <2>2, <2>3, EmptyCacheOK DEF Sufficient
<1>3. QED
  BY <1>1, <1>2

LEMMA TickOK ==
    ASSUME MapInv, watched = "map", MapTick, UNCHANGED <<pathVars, overlayVars, watched>>
    PROVE  MapInv'
<1>1. PICK s : s = ResetForWorld
  OBVIOUS
<1>2. /\ Sufficient(s) /\ CacheOK(s.cache)
      /\ ~subsystem => s.removals = {} /\ s.populate
      /\ target /\ ~s.redraw => s.layer = Drawn(s.snapshot.lines, s.cache.samples)
  BY <1>1, ResetIs
<1>3. /\ cachedWorld' = world /\ target' = target /\ watched' = watched
      /\ IF subsystem THEN ProcessPendingPathChanges(s) ELSE Wait(s)
  BY <1>1 DEF MapTick
<1>4. /\ world' = world /\ subsystem' = subsystem /\ shape' = shape /\ vehicles' = vehicles
      /\ tracerCache' = tracerCache
  BY DEF pathVars, overlayVars
<1>5. PathsOK'
  BY PathsStep DEF PathsNext, MapInv
<1>6. PathsOK /\ CacheOK(tracerCache) /\ world \in Nat
  BY DEF MapInv, CachesOK, PathsOK
<1>7. CASE ~subsystem
  <2>1. /\ snapshot' = s.snapshot /\ mapCache' = s.cache
        /\ pendingRefreshes' = s.refreshes /\ pendingRemovals' = s.removals
        /\ initialPopulationRequested' = s.populate
        /\ needsRedraw' = s.redraw /\ layer' = s.layer
    BY <1>3, <1>7 DEF Wait, Leave
  <2>2. CachesOK'
    BY <1>2, <1>4, <1>6, <2>1 DEF CachesOK
  <2>3. LayerIsCurrent'
    BY <1>2, <1>3, <2>1 DEF LayerIsCurrent
  <2>4. RequestsSuffice'
    BY <1>2, <1>4, <1>7, <2>1 DEF RequestsSuffice, RemovedAreGone
  <2>5. MapOK'
    BY <1>2, <1>3, <1>4, <1>6, <2>1, <2>4 DEF MapOK, Sufficient
  <2>6. QED
    BY <1>5, <2>2, <2>3, <2>5 DEF MapInv
<1>8. CASE subsystem
  <2>1. PICK g : g = ApplyGeometry(s)
    OBVIOUS
  <2>2. PICK used : used = IF s.usage THEN Update(s.cache) ELSE s.cache
    OBVIOUS
  <2>3. PICK redraw : redraw = (g.changed \/ used.membershipChanged \/ s.redraw)
    OBVIOUS
  <2>4. /\ snapshot' = g.snapshot /\ mapCache' = Kept(used)
        /\ pendingRefreshes' = {} /\ pendingRemovals' = {}
        /\ initialPopulationRequested' = FALSE
        /\ IF redraw /\ target /\ visible THEN RedrawRouteLayer(g.snapshot, used)
           ELSE needsRedraw' = redraw /\ layer' = s.layer
    BY <1>3, <1>8, <2>1, <2>2, <2>3 DEF ProcessPendingPathChanges, Apply
  <2>5. /\ SnapshotShape(g.snapshot) /\ (~g.changed => g.snapshot.lines = s.snapshot.lines)
        /\ LinesMatch(g.snapshot.lines, {}) /\ LinesCover(g.snapshot.lines, {})
    BY <1>2, <1>6, <2>1, ApplyGeometryOK
  <2>6. CacheOK(used) /\ (~used.membershipChanged => used.samples = s.cache.samples)
    BY <1>2, <1>6, <2>2, UpdateOK DEF Since
  <2>7. CacheOK(Kept(used)) /\ Kept(used).samples = used.samples
    BY <2>6, KeptIs
  <2>8. CachesOK'
    BY <1>4, <1>6, <2>4, <2>7 DEF CachesOK
  <2>9. LayerIsCurrent'
    <3>1. CASE redraw /\ target /\ visible
      <4>1. layer' = Drawn(g.snapshot.lines, used.samples)
        BY <2>4, <3>1 DEF RedrawRouteLayer
      <4>2. QED
        BY <2>4, <2>7, <4>1 DEF LayerIsCurrent
    <3>2. CASE ~(redraw /\ target /\ visible)
      <4>1. needsRedraw' = redraw /\ layer' = s.layer
        BY <2>4, <3>2
      <4>2. ASSUME target', ~needsRedraw' PROVE layer' = Drawn(snapshot'.lines, mapCache'.samples)
        <5>1. ~g.changed /\ ~used.membershipChanged /\ ~s.redraw /\ target
          BY <1>3, <2>3, <4>1, <4>2
        <5>2. g.snapshot.lines = s.snapshot.lines /\ used.samples = s.cache.samples
          BY <2>5, <2>6, <5>1
        <5>3. QED
          BY <1>2, <2>4, <2>7, <4>1, <5>1, <5>2
      <4>3. QED
        BY <4>2 DEF LayerIsCurrent
    <3>3. QED
      BY <3>1, <3>2
  <2>10. RequestsSuffice'
    <3>1. LinesMatchBut(g.snapshot.lines, {}, {})
      BY <2>5 DEF LinesMatch, LinesMatchBut
    <3>2. LinesMatchBut(snapshot.lines, pendingRemovals, pendingRefreshes)'
      BY <1>4, <2>4, <3>1 DEF LinesMatchBut, Line, Built
    <3>3. LinesCover(snapshot.lines, pendingRefreshes)'
      BY <1>4, <2>4, <2>5 DEF LinesCover, Drawable, Built
    <3>4. QED
      BY <1>4, <1>8, <2>4, <3>2, <3>3 DEF RequestsSuffice, RemovedAreGone
  <2>11. MapOK'
    BY <1>3, <1>4, <1>6, <2>4, <2>5, <2>10 DEF MapOK
  <2>12. QED
    BY <1>5, <2>8, <2>9, <2>11 DEF MapInv
<1>9. QED
  BY <1>7, <1>8

\* What draws leaves the layer as the snapshot and the routes are.
LEMMA WidgetsOK ==
    ASSUME MapInv, UNCHANGED <<dataVars, requestVars>>, NEW on, RefreshLayer(on),
           UNCHANGED <<pathVars, overlayVars, watched>>
    PROVE  MapInv'
<1>1. /\ cachedWorld' = cachedWorld /\ snapshot' = snapshot /\ mapCache' = mapCache
      /\ pendingRefreshes' = pendingRefreshes /\ pendingRemovals' = pendingRemovals
      /\ initialPopulationRequested' = initialPopulationRequested
      /\ world' = world /\ subsystem' = subsystem /\ shape' = shape /\ tracerCache' = tracerCache
      /\ watched' = watched
  BY DEF dataVars, requestVars, pathVars, overlayVars
<1>2. PathsOK'
  BY PathsStep DEF PathsNext, MapInv
<1>3. CachesOK'
  BY <1>1 DEF MapInv, CachesOK
<1>4. RequestsSuffice => RequestsSuffice'
  BY <1>1 DEF RequestsSuffice, RemovedAreGone, LinesMatchBut, LinesCover, Drawable, Line, Built
<1>5. MapOK'
  BY <1>1, <1>4 DEF MapInv, MapOK
<1>6. LayerIsCurrent'
  BY <1>1 DEF MapInv, LayerIsCurrent, RefreshLayer, AcquireRenderTarget, RedrawRouteLayer, drawVars
<1>7. QED
  BY <1>2, <1>3, <1>5, <1>6 DEF MapInv


\* What the hooks note is enough, whatever changes: nothing that is applied
\* is lost, and nothing of another world is applied.
HookKept == UNCHANGED <<dataVars, drawVars, tracerCache, watched>>

LEMMA HookOK ==
    ASSUME MapInv, PathsNext, HookKept, watched = "map", pendingRefreshes' \subseteq Segments,
           world' \in Nat, world <= world',
           cachedWorld = world /\ world' = world /\ RequestsSuffice => RequestsSuffice'
    PROVE  MapInv'
<1>1. /\ cachedWorld' = cachedWorld /\ snapshot' = snapshot /\ mapCache' = mapCache
      /\ needsRedraw' = needsRedraw /\ layer' = layer /\ target' = target
      /\ tracerCache' = tracerCache /\ watched' = watched
  BY DEF HookKept, dataVars, drawVars
<1>2. PathsOK'
  BY PathsStep DEF MapInv
<1>3. CachesOK'
  BY <1>1 DEF MapInv, CachesOK
<1>4. LayerIsCurrent'
  BY <1>1 DEF MapInv, LayerIsCurrent
<1>5. world \in Nat
  BY DEF MapInv, PathsOK
<1>6. cachedWorld' = NoWorld \/ (cachedWorld' \in Nat /\ cachedWorld' <= world')
  BY <1>1, <1>5 DEF MapInv, MapOK
<1>7. ASSUME cachedWorld' = world' PROVE RequestsSuffice'
  <2>1. cachedWorld = world /\ world' = world
    BY <1>1, <1>5, <1>7, NoWorldAssumption DEF MapInv, MapOK, NoWorldAssumption
  <2>2. RequestsSuffice
    BY <2>1 DEF MapInv, MapOK
  <2>3. QED
    BY <2>1, <2>2
<1>8. MapOK'
  BY <1>1, <1>6, <1>7 DEF MapInv, MapOK
<1>9. QED
  BY <1>2, <1>3, <1>4, <1>8 DEF MapInv

LEMMA RefreshNoted ==
    ASSUME PathsOK, RequestsSuffice, subsystem, NEW s \in Segments,
           UNCHANGED <<subsystem, snapshot, pendingRemovals, initialPopulationRequested>>,
           pendingRefreshes' = pendingRefreshes \cup {s},
           Built' = Built \cup {s}, \A t \in Built \ {s} : shape'[t] = shape[t]
    PROVE  RequestsSuffice'
<1>1. \A t \in Built' : t # s => t \in Built /\ shape'[t] = shape[t]
  OBVIOUS
<1>2. RemovedAreGone'
  <2>1. ASSUME NEW t \in Built', Drawable(t)', PathSegmentKey(t) \in pendingRemovals
        PROVE  t \in pendingRefreshes'
    <3>1. CASE t = s
      BY <3>1
    <3>2. CASE t # s
      <4>1. Drawable(t) /\ t \in Built
        BY <1>1, <2>1, <3>2 DEF Drawable, Alone
      <4>2. QED
        BY <2>1, <4>1 DEF RequestsSuffice, RemovedAreGone
    <3>3. QED
      BY <3>1, <3>2
  <2>2. QED
    BY <2>1 DEF RemovedAreGone, PathSegmentKey
<1>3. ASSUME LinesMatchBut(snapshot.lines, pendingRemovals, pendingRefreshes)
      PROVE  LinesMatchBut(snapshot.lines, pendingRemovals, pendingRefreshes)'
  <2>1. ASSUME NEW k \in DOMAIN snapshot.lines \ pendingRemovals
        PROVE  \E t \in Built' : /\ PathSegmentKey(t) = k
                                 /\ snapshot.lines[k] = <<t, shape'[t]>> \/ t \in pendingRefreshes'
    <3>1. PICK t \in Built : /\ PathSegmentKey(t) = k
                             /\ snapshot.lines[k] = Line(t) \/ t \in pendingRefreshes
      BY <1>3, <2>1 DEF LinesMatchBut
    <3>2. QED
      BY <1>1, <3>1 DEF Line
  <2>2. QED
    BY <2>1 DEF LinesMatchBut, Line, PathSegmentKey
<1>4. ASSUME LinesCover(snapshot.lines, pendingRefreshes)
      PROVE  LinesCover(snapshot.lines, pendingRefreshes)'
  <2>1. ASSUME NEW t \in Built', Drawable(t)'
        PROVE  PathSegmentKey(t) \in DOMAIN snapshot.lines \/ t \in pendingRefreshes'
    <3>1. CASE t = s
      BY <3>1
    <3>2. CASE t # s
      <4>1. Drawable(t) /\ t \in Built
        BY <1>1, <2>1, <3>2 DEF Drawable, Alone
      <4>2. QED
        BY <1>4, <4>1 DEF LinesCover
    <3>3. QED
      BY <3>1, <3>2
  <2>2. QED
    BY <2>1 DEF LinesCover, PathSegmentKey
<1>5. QED
  BY <1>2, <1>3, <1>4 DEF RequestsSuffice

LEMMA RemovalNoted ==
    ASSUME PathsOK, RequestsSuffice, subsystem, NEW s \in Built,
           UNCHANGED <<subsystem, snapshot, initialPopulationRequested>>,
           pendingRemovals' = pendingRemovals \cup {PathSegmentKey(s)},
           pendingRefreshes' = pendingRefreshes \ {s},
           Built' = Built \ {s}, \A t \in Built \ {s} : shape'[t] = shape[t]
    PROVE  RequestsSuffice'
<1>1. \A t \in Built' : t # s /\ t \in Built /\ shape'[t] = shape[t]
  OBVIOUS
<1>2. RemovedAreGone'
  <2>1. ASSUME NEW t \in Built', Drawable(t)', PathSegmentKey(t) \in pendingRemovals'
        PROVE  t \in pendingRefreshes'
    <3>1. Drawable(t) /\ t \in Built /\ t # s
      BY <1>1, <2>1 DEF Drawable, Alone
    <3>2. PathSegmentKey(t) # PathSegmentKey(s)
      <4>1. s \in Segments
        BY DEF PathsOK
      <4>2. QED
        BY <3>1, <4>1 DEF Drawable, Alone
    <3>3. QED
      BY <2>1, <3>1, <3>2 DEF RequestsSuffice, RemovedAreGone
  <2>2. QED
    BY <2>1 DEF RemovedAreGone, PathSegmentKey
<1>3. ASSUME LinesMatchBut(snapshot.lines, pendingRemovals, pendingRefreshes)
      PROVE  LinesMatchBut(snapshot.lines, pendingRemovals, pendingRefreshes)'
  <2>1. ASSUME NEW k \in DOMAIN snapshot.lines \ pendingRemovals'
        PROVE  \E t \in Built' : /\ PathSegmentKey(t) = k
                                 /\ snapshot.lines[k] = <<t, shape'[t]>> \/ t \in pendingRefreshes'
    <3>1. PICK t \in Built : /\ PathSegmentKey(t) = k
                             /\ snapshot.lines[k] = Line(t) \/ t \in pendingRefreshes
      BY <1>3, <2>1 DEF LinesMatchBut
    <3>2. t # s
      BY <2>1, <3>1
    <3>3. QED
      BY <1>1, <3>1, <3>2 DEF Line
  <2>2. QED
    BY <2>1 DEF LinesMatchBut, Line, PathSegmentKey
<1>4. ASSUME LinesCover(snapshot.lines, pendingRefreshes)
      PROVE  LinesCover(snapshot.lines, pendingRefreshes)'
  <2>1. ASSUME NEW t \in Built', Drawable(t)'
        PROVE  PathSegmentKey(t) \in DOMAIN snapshot.lines \/ t \in pendingRefreshes'
    <3>1. Drawable(t) /\ t \in Built /\ t # s
      BY <1>1, <2>1 DEF Drawable, Alone
    <3>2. QED
      BY <1>4, <3>1 DEF LinesCover
  <2>2. QED
    BY <2>1 DEF LinesCover, PathSegmentKey
<1>5. QED
  BY <1>2, <1>3, <1>4 DEF RequestsSuffice

\* Every step keeps the invariant while the map is watched.
LEMMA MapStep ==
    ASSUME MapInv, watched = "map", [Next]_vars
    PROVE  MapInv'
<1> USE DEF HookKept
<1>1. PathsNext /\ PathsOK /\ world \in Nat /\ pendingRefreshes \subseteq Segments
  BY NextPaths DEF MapInv, PathsOK, MapOK
<1>2. CASE UNCHANGED vars
  <2>1. UNCHANGED <<pathVars, mapVars, overlayVars, watched>>
    BY <1>2 DEF vars
  <2>2. RequestsSuffice => RequestsSuffice'
    BY <2>1 DEF pathVars, mapVars, dataVars, requestVars, RequestsSuffice, RemovedAreGone,
       LinesMatchBut, LinesCover, Drawable, Line, Built
  <2>3. QED
    BY <1>1, <2>1, <2>2, HookOK DEF pathVars, mapVars, dataVars, drawVars, requestVars, overlayVars
<1>3. ASSUME NEW s \in Segments, AddPathSegment(s) \/ SetSplinePointsAndValidatePath(s),
             RequestPathSegmentRefresh(s), UNCHANGED overlayVars, UNCHANGED watched
      PROVE  MapInv'
  <2>1. /\ world' = world /\ UNCHANGED <<dataVars, drawVars, tracerCache, watched>>
        /\ subsystem /\ UNCHANGED <<subsystem, snapshot, pendingRemovals, initialPopulationRequested>>
        /\ pendingRefreshes' = pendingRefreshes \cup {s}
    BY <1>3 DEF RequestPathSegmentRefresh, overlayVars, dataVars, AddPathSegment,
       SetSplinePointsAndValidatePath, Change
  <2>2. Built' = Built \cup {s} /\ \A t \in Built \ {s} : shape'[t] = shape[t]
    <3>1. CASE AddPathSegment(s)
      BY <3>1 DEF AddPathSegment, Built
    <3>2. CASE SetSplinePointsAndValidatePath(s)
      BY <3>2 DEF SetSplinePointsAndValidatePath, Built
    <3>3. QED
      BY <1>3, <3>1, <3>2
  <2>3. RequestsSuffice => RequestsSuffice'
    BY <1>1, <2>1, <2>2, RefreshNoted
  <2>4. QED
    BY <1>1, <2>1, <2>3, HookOK
<1>4. ASSUME NEW s \in Segments, RemovePathSegment(s), RequestPathSegmentRemoval(s),
             UNCHANGED overlayVars, UNCHANGED watched
      PROVE  MapInv'
  <2>1. /\ world' = world /\ UNCHANGED <<dataVars, drawVars, tracerCache, watched>>
        /\ subsystem /\ UNCHANGED <<subsystem, snapshot, initialPopulationRequested>>
        /\ pendingRemovals' = pendingRemovals \cup {PathSegmentKey(s)}
        /\ pendingRefreshes' = pendingRefreshes \ {s} /\ s \in Built
    BY <1>4 DEF RequestPathSegmentRemoval, overlayVars, dataVars, RemovePathSegment, Change
  <2>2. Built' = Built \ {s} /\ \A t \in Built \ {s} : shape'[t] = shape[t]
    BY <1>4 DEF RemovePathSegment, Built, Restrict
  <2>3. RequestsSuffice => RequestsSuffice'
    BY <1>1, <2>1, <2>2, RemovalNoted
  <2>4. QED
    BY <1>1, <2>1, <2>3, HookOK
<1>5. CASE VehiclesNext
  <2>1. RequestRouteUsageRefresh /\ UNCHANGED overlayVars /\ UNCHANGED watched
    BY <1>5 DEF VehiclesNext, Seen
  <2>2. world' = world /\ subsystem' = subsystem /\ shape' = shape
    BY <1>5 DEF VehiclesNext, AddVehicle, SetVehicleRoute, RemoveVehicle, Change
  <2>3. /\ UNCHANGED <<dataVars, drawVars, tracerCache, watched>>
        /\ UNCHANGED <<snapshot, pendingRefreshes, pendingRemovals, initialPopulationRequested>>
    BY <2>1 DEF RequestRouteUsageRefresh, overlayVars, dataVars
  <2>4. RequestsSuffice => RequestsSuffice'
    BY <2>2, <2>3 DEF RequestsSuffice, RemovedAreGone, LinesMatchBut, LinesCover, Drawable, Line, Built
  <2>5. QED
    BY <1>1, <2>2, <2>3, <2>4, HookOK
<1>6. ASSUME LeaveWorld, ForgetActors, UNCHANGED overlayVars, UNCHANGED watched
      PROVE  MapInv'
  <2>1. world' = world + 1 /\ UNCHANGED <<dataVars, drawVars, tracerCache, watched>>
        /\ pendingRefreshes' = {}
    BY <1>6 DEF LeaveWorld, ForgetActors, overlayVars
  <2>2. world' \in Nat /\ world <= world' /\ world' # world
    BY <1>1, <2>1
  <2>3. QED
    BY <1>1, <2>1, <2>2, HookOK
<1>7. ASSUME NEW built \in LoadedNetworks, NEW fleet \in LoadedFleets, EnterWorld(built, fleet),
             NEW announced \in {{}, built}, RequestLoadedSegments(announced),
             UNCHANGED overlayVars, UNCHANGED watched
      PROVE  MapInv'
  <2>1. /\ ~subsystem /\ subsystem' /\ world' = world
        /\ UNCHANGED <<dataVars, drawVars, tracerCache, watched>>
        /\ UNCHANGED <<snapshot, pendingRemovals, initialPopulationRequested>>
        /\ pendingRefreshes' = pendingRefreshes \cup announced
    BY <1>7 DEF EnterWorld, RequestLoadedSegments, overlayVars, dataVars
  <2>2. announced \subseteq Segments
    BY VehiclePathsAssumption DEF VehiclePathsAssumption
  <2>3. RequestsSuffice => RequestsSuffice'
    BY <2>1 DEF RequestsSuffice, RemovedAreGone
  <2>4. QED
    BY <1>1, <2>1, <2>2, <2>3, HookOK
<1>8. CASE TickMap
  BY <1>8, TickOK DEF TickMap, MapPart
<1>9. ASSUME MapPart(OpenMap \/ CloseMap \/ ToggleRouteLayerVisibility) PROVE MapInv'
  <2>1. UNCHANGED <<pathVars, overlayVars, watched>> /\ UNCHANGED <<dataVars, requestVars>>
    BY <1>9 DEF MapPart, OpenMap, CloseMap, ToggleRouteLayerVisibility
  <2>2. \E on : RefreshLayer(on)
    <3>1. CASE OpenMap
      BY <3>1 DEF OpenMap
    <3>2. CASE ToggleRouteLayerVisibility
      BY <3>2 DEF ToggleRouteLayerVisibility
    <3>3. CASE CloseMap
      <4>1. RefreshLayer(FALSE)
        BY <3>3 DEF CloseMap, RefreshLayer
      <4>2. QED
        BY <4>1
    <3>4. QED
      BY <1>9, <3>1, <3>2, <3>3 DEF MapPart
  <2>3. QED
    BY <2>1, <2>2, WidgetsOK
<1>10. QED
  <2>1. CASE SegmentsNext
    BY <1>3, <1>4, <2>1 DEF SegmentsNext, Seen
  <2>2. CASE WorldsNext
    <3>1. CASE LeaveWorld /\ Seen(ForgetActors, WorldDies)
      BY <1>6, <3>1 DEF Seen
    <3>2. CASE \E built \in LoadedNetworks, fleet \in LoadedFleets :
                  /\ EnterWorld(built, fleet)
                  /\ \E announced \in {{}, built} :
                        Seen(RequestLoadedSegments(announced), UNCHANGED overlayVars)
      BY <1>7, <3>2 DEF Seen
    <3>3. QED
      BY <2>2, <3>1, <3>2 DEF WorldsNext
  <2>3. CASE Players
    <3>1. MapPart(OpenMap \/ CloseMap \/ ToggleRouteLayerVisibility)
      BY <2>3 DEF Players, OverlayPart
    <3>2. QED
      BY <1>9, <3>1
  <2>4. ~TickOverlay
    BY DEF TickOverlay, OverlayPart
  <2>5. QED
    BY <1>2, <1>5, <1>8, <2>1, <2>2, <2>3, <2>4 DEF Next

-----------------------------------------------------------------------------
(* The overlay                                                              *)

\* A strip of a living actor is on a segment with its nodes; a strip that is
\* drawn is of a counted segment and shows the segment's window.
OnSegment(strips, k) ==
    /\ strips[k].owner \in Built
    /\ \/ Start[strips[k].owner] = k[1] /\ End[strips[k].owner] = k[2]
       \/ Start[strips[k].owner] = k[2] /\ End[strips[k].owner] = k[1]
ShowsLoad(strip, window) ==
    strip.colour = TrafficBucket(window) /\ strip.label = LoadText(window)
StripOK(strips, k) ==
    /\ strips[k] = [owner |-> strips[k].owner, drawn |-> strips[k].drawn,
                    colour |-> strips[k].colour, label |-> strips[k].label]
    /\ OnSegment(strips, k) /\ strips[k].drawn \in BOOLEAN
    /\ strips[k].drawn => shape[strips[k].owner] > 0
    /\ ~strips[k].drawn => strips[k].label = None
StripsOK(strips) == \A k \in DOMAIN strips : Live(strips, k) => StripOK(strips, k)
StripsShow(strips) ==
    \A k \in DOMAIN strips : IsDrawn(strips, k) =>
        /\ k \in DOMAIN windows /\ k \in Counted(tracerCache)
        /\ ShowsLoad(strips[k], windows[k])

Modes == {"off", "traffic", "network"}
OverlayOK ==
    /\ watched = "map" => tracing = "off"
    /\ tracing \in Modes /\ tool \in Modes \cup {"none"}
    /\ tracing = "off" => overlay = << >>
    /\ tracing = "traffic" => StripsOK(overlay) /\ StripsShow(overlay)

Inv == MapInv /\ OverlayOK /\ watched \in {"map", "overlay"}


LEMMA ResolveIs ==
    ASSUME PathsOK, NEW k, NEW s, s = ResolveVehiclePathSegmentActor(k)
    PROVE  /\ s # None => /\ s \in Built
                          /\ \/ Start[s] = k[1] /\ End[s] = k[2]
                             \/ Start[s] = k[2] /\ End[s] = k[1]
           /\ \A t \in Built : (Start[t] = k[1] /\ End[t] = k[2]) \/ (Start[t] = k[2] /\ End[t] = k[1])
                               => s # None
<1> DEFINE Between(a, b) == {t \in Built : Start[t] = a /\ End[t] = b}
<1>1. s = CASE Between(k[1], k[2]) # {} -> CHOOSE t \in Between(k[1], k[2]) : TRUE
            [] Between(k[1], k[2]) = {} /\ Between(k[2], k[1]) # {} ->
                  CHOOSE t \in Between(k[2], k[1]) : TRUE
            [] OTHER -> None
  BY DEF ResolveVehiclePathSegmentActor
<1>2. Built \subseteq Segments /\ None \notin Segments
  BY RouteOverlayAssumption DEF PathsOK, RouteOverlayAssumption
<1>3. CASE Between(k[1], k[2]) # {}
  <2>1. s = CHOOSE t \in Between(k[1], k[2]) : TRUE
    BY <1>1, <1>3
  <2>2. s \in Between(k[1], k[2])
    BY <1>3, <2>1
  <2>3. QED
    BY <1>2, <2>2
<1>4. CASE Between(k[1], k[2]) = {} /\ Between(k[2], k[1]) # {}
  <2>1. s = CHOOSE t \in Between(k[2], k[1]) : TRUE
    BY <1>1, <1>4
  <2>2. s \in Between(k[2], k[1])
    BY <1>4, <2>1
  <2>3. QED
    BY <1>2, <2>2
<1>5. CASE Between(k[1], k[2]) = {} /\ Between(k[2], k[1]) = {}
  <2>1. s = None
    BY <1>1, <1>5
  <2>2. QED
    BY <1>5, <2>1
<1>6. QED
  BY <1>3, <1>4, <1>5

\* What a draw leaves of the strip of its key.
Redrawn(strips, s, k, colour, text, r) ==
    /\ DOMAIN r = DOMAIN strips \cup {k}
    /\ \A j \in DOMAIN strips \ {k} : r[j] = strips[j]
    /\ r[k].owner = s /\ r[k].drawn \in BOOLEAN
    /\ r[k] = [owner |-> s, drawn |-> r[k].drawn, colour |-> r[k].colour, label |-> r[k].label]
    /\ shape[s] = 0 => \/ Live(strips, k) /\ strips[k].owner = s /\ r[k] = strips[k]
                       \/ ~r[k].drawn /\ r[k].label = None
    /\ shape[s] # 0 => /\ r[k].drawn /\ r[k].colour = colour
                       /\ \/ r[k].label = text
                          \/ /\ Live(strips, k) /\ strips[k].label # None
                             /\ r[k].label = strips[k].label

LEMMA DrawIs ==
    ASSUME NEW strips, NEW s, s # None, NEW k, NEW colour, NEW text,
           Live(strips, k) => StripOK(strips, k)
    PROVE  Redrawn(strips, s, k, colour, text, DrawPathSegment(strips, s, k, colour, text))
<1>0. PICK r : r = DrawPathSegment(strips, s, k, colour, text)
  OBVIOUS
<1>1. PICK same \in BOOLEAN : same = (Live(strips, k) /\ strips[k].owner = s)
  OBVIOUS
<1>2. PICK strip : strip = IF same THEN strips[k] ELSE NewStrip(s)
  OBVIOUS
<1>3. PICK l : l = IF strip.label = None THEN text ELSE strip.label
  OBVIOUS
<1>4. PICK drawn : drawn = IF shape[s] = 0 THEN strip
                           ELSE [strip EXCEPT !.drawn = TRUE, !.colour = colour, !.label = l]
  OBVIOUS
<1>5. r = With(strips, k, drawn)
  <2>1. CASE shape[s] = 0
    <3>1. drawn = strip
      BY <1>4, <2>1
    <3>2. QED
      BY <1>0, <1>1, <1>2, <2>1, <3>1 DEF DrawPathSegment
  <2>2. CASE shape[s] # 0
    <3>1. drawn = [strip EXCEPT !.drawn = TRUE, !.colour = colour,
                                !.label = IF strip.label = None THEN text ELSE strip.label]
      BY <1>3, <1>4, <2>2
    <3>2. QED
      BY <1>0, <1>1, <1>2, <2>2, <3>1 DEF DrawPathSegment
  <2>3. QED
    BY <2>1, <2>2
<1>6. /\ DOMAIN r = DOMAIN strips \cup {k} /\ r[k] = drawn
      /\ \A j \in DOMAIN strips \ {k} : r[j] = strips[j]
  BY <1>5 DEF With
<1>7. PICK d \in BOOLEAN :
          \E c, t : strip = [owner |-> s, drawn |-> d, colour |-> c, label |-> t]
  <2>1. CASE same
    BY <1>1, <1>2, <2>1 DEF StripOK
  <2>2. CASE ~same
    BY <1>2, <2>2 DEF NewStrip
  <2>3. QED
    BY <2>1, <2>2
<1>8. PICK c, t : strip = [owner |-> s, drawn |-> d, colour |-> c, label |-> t]
  BY <1>7
<1>9. strip.drawn = d /\ strip.label = t /\ strip.owner = s /\ strip.colour = c
  BY <1>8
<1>10. ~same => ~d /\ t = None
  BY <1>2, <1>9 DEF NewStrip
<1>11. ASSUME shape[s] = 0 PROVE Redrawn(strips, s, k, colour, text, r)
  <2>1. r[k] = strip
    BY <1>4, <1>6, <1>11
  <2>2. r[k].owner = s /\ r[k].drawn = d /\ r[k].colour = c /\ r[k].label = t
    BY <1>9, <2>1
  <2>3. r[k] = [owner |-> s, drawn |-> r[k].drawn, colour |-> r[k].colour, label |-> r[k].label]
    BY <1>8, <2>1, <2>2
  <2>4. \/ Live(strips, k) /\ strips[k].owner = s /\ r[k] = strips[k]
        \/ ~r[k].drawn /\ r[k].label = None
    BY <1>1, <1>2, <1>10, <2>1, <2>2
  <2>5. QED
    BY <1>6, <1>11, <2>2, <2>3, <2>4 DEF Redrawn
<1>12. ASSUME shape[s] # 0 PROVE Redrawn(strips, s, k, colour, text, r)
  <2>1. r[k] = [strip EXCEPT !.drawn = TRUE, !.colour = colour, !.label = l]
    BY <1>4, <1>6, <1>12
  <2>2. r[k] = [owner |-> s, drawn |-> TRUE, colour |-> colour, label |-> l]
    BY <1>8, <2>1
  <2>3. r[k].owner = s /\ r[k].drawn = TRUE /\ r[k].colour = colour /\ r[k].label = l
    BY <2>2
  <2>4. l = text \/ (Live(strips, k) /\ strips[k].label # None /\ l = strips[k].label)
    BY <1>1, <1>2, <1>3, <1>9, <1>10
  <2>5. r[k] = [owner |-> s, drawn |-> r[k].drawn, colour |-> r[k].colour, label |-> r[k].label]
    BY <2>2, <2>3
  <2>6. QED
    BY <1>6, <1>12, <2>3, <2>4, <2>5 DEF Redrawn
<1>13. QED
  BY <1>0, <1>11, <1>12


\* The colours and the draws of a tick, one segment after the other.
Bucket(p, k) == TrafficBucket(p.sampled[k])
Text(p, k) == LoadText(p.sampled[k])
RecolourStep(p, k, r) == UpdateSegmentColor(r, k, Bucket(p, k))
PaintStep(p, k, r) ==
    DrawPathSegment(r, ResolveVehiclePathSegmentActor(k), k, Bucket(p, k), Text(p, k))

RecolouredSoFar(p, done, r) ==
    /\ DOMAIN r = DOMAIN p.strips
    /\ \A k \in DOMAIN r :
          r[k] = IF k \in done /\ IsDrawn(p.strips, k)
                 THEN [p.strips[k] EXCEPT !.colour = Bucket(p, k)] ELSE p.strips[k]
PaintedSoFar(p, done, r) ==
    /\ StripsOK(r)
    /\ DOMAIN p.strips \subseteq DOMAIN r /\ DOMAIN r \subseteq DOMAIN p.strips \cup done
    /\ \A k \in DOMAIN r \ done : r[k] = p.strips[k]
    /\ \A k \in DOMAIN r : k \in done /\ IsDrawn(r, k) =>
          /\ r[k].colour = Bucket(p, k)
          /\ \/ r[k].label = Text(p, k)
             \/ IsDrawn(p.strips, k) /\ r[k].label = p.strips[k].label
Recolouring == INSTANCE FiniteFolds WITH Op <- RecolourStep, Holds <- RecolouredSoFar
Painting == INSTANCE FiniteFolds WITH Op <- PaintStep, Holds <- PaintedSoFar

LEMMA RecolourStepOK ==
    ASSUME NEW p, StripsOK(p.strips), NEW T, NEW k \in T, NEW y, RecolouredSoFar(p, T \ {k}, y)
    PROVE  RecolouredSoFar(p, T, RecolourStep(p, k, y))
<1>1. PICK z : z = RecolourStep(p, k, y)
  OBVIOUS
<1>2. z = IF IsDrawn(y, k) THEN [y EXCEPT ![k].colour = Bucket(p, k)] ELSE y
  BY <1>1 DEF RecolourStep, UpdateSegmentColor
<1>3. /\ DOMAIN y = DOMAIN p.strips
      /\ \A j \in DOMAIN y : j # k =>
            y[j] = IF j \in T /\ IsDrawn(p.strips, j)
                   THEN [p.strips[j] EXCEPT !.colour = Bucket(p, j)] ELSE p.strips[j]
      /\ k \in DOMAIN y => y[k] = p.strips[k]
  BY DEF RecolouredSoFar
<1>4. IsDrawn(y, k) <=> IsDrawn(p.strips, k)
  BY <1>3 DEF IsDrawn, Live
<1>5. CASE IsDrawn(y, k)
  <2>1. z = [y EXCEPT ![k].colour = Bucket(p, k)]
    BY <1>2, <1>5
  <2>2. k \in DOMAIN y
    BY <1>5 DEF IsDrawn, Live
  <2>3. /\ DOMAIN z = DOMAIN y /\ z[k] = [y[k] EXCEPT !.colour = Bucket(p, k)]
        /\ \A j \in DOMAIN y : j # k => z[j] = y[j]
    BY <2>1, <2>2
  <2>4. QED
    BY <1>1, <1>3, <1>4, <1>5, <2>2, <2>3 DEF RecolouredSoFar
<1>6. CASE ~IsDrawn(y, k)
  <2>1. z = y
    BY <1>2, <1>6
  <2>2. QED
    BY <1>1, <1>3, <1>4, <1>6, <2>1 DEF RecolouredSoFar
<1>7. QED
  BY <1>5, <1>6

LEMMA PaintStepOK ==
    ASSUME PathsOK, NEW p, NEW T, NEW k \in T, NEW y, PaintedSoFar(p, T \ {k}, y)
    PROVE  PaintedSoFar(p, T, PaintStep(p, k, y))
<1>1. PICK z : z = PaintStep(p, k, y)
  OBVIOUS
<1>2. PICK s : s = ResolveVehiclePathSegmentActor(k)
  OBVIOUS
<1>3. PICK b : b = Bucket(p, k)
  OBVIOUS
<1>4. PICK t : t = Text(p, k)
  OBVIOUS
<1>5. z = DrawPathSegment(y, s, k, b, t)
  BY <1>1, <1>2, <1>3, <1>4 DEF PaintStep
<1>6. /\ StripsOK(y)
      /\ DOMAIN p.strips \subseteq DOMAIN y /\ DOMAIN y \subseteq DOMAIN p.strips \cup (T \ {k})
      /\ \A j \in DOMAIN y \ (T \ {k}) : y[j] = p.strips[j]
      /\ \A j \in DOMAIN y : j \in T \ {k} /\ IsDrawn(y, j) =>
            /\ y[j].colour = Bucket(p, j)
            /\ \/ y[j].label = Text(p, j)
               \/ IsDrawn(p.strips, j) /\ y[j].label = p.strips[j].label
  BY DEF PaintedSoFar
<1>7. Live(y, k) => k \in DOMAIN p.strips /\ y[k] = p.strips[k] /\ Live(p.strips, k)
  BY <1>6 DEF Live
<1>8. Live(y, k) => StripOK(y, k) /\ s # None
  <2>1. ASSUME Live(y, k) PROVE StripOK(y, k)
    BY <1>6, <2>1 DEF StripsOK, Live
  <2>2. ASSUME Live(y, k) PROVE s # None
    <3>1. OnSegment(y, k)
      BY <2>1, <2>2 DEF StripOK
    <3>2. QED
      BY <1>2, <3>1, ResolveIs DEF OnSegment
  <2>3. QED
    BY <2>1, <2>2
<1>9. CASE s = None
  <2>1. z = y
    BY <1>5, <1>9 DEF DrawPathSegment
  <2>2. ~IsDrawn(y, k)
    BY <1>8, <1>9 DEF IsDrawn
  <2>3. /\ StripsOK(z) /\ DOMAIN p.strips \subseteq DOMAIN z /\ DOMAIN z \subseteq DOMAIN p.strips \cup T
        /\ \A j \in DOMAIN z \ T : z[j] = p.strips[j]
    BY <1>6, <2>1
  <2>4. \A j \in DOMAIN z : j \in T /\ IsDrawn(z, j) =>
            /\ z[j].colour = Bucket(p, j)
            /\ \/ z[j].label = Text(p, j)
               \/ IsDrawn(p.strips, j) /\ z[j].label = p.strips[j].label
    BY <1>6, <2>1, <2>2
  <2>5. QED
    BY <1>1, <2>3, <2>4 DEF PaintedSoFar
<1>10. CASE s # None
  <2>1. /\ DOMAIN z = DOMAIN y \cup {k}
        /\ \A j \in DOMAIN y \ {k} : z[j] = y[j]
        /\ z[k].owner = s /\ z[k].drawn \in BOOLEAN
        /\ z[k] = [owner |-> s, drawn |-> z[k].drawn, colour |-> z[k].colour, label |-> z[k].label]
        /\ shape[s] = 0 => \/ Live(y, k) /\ y[k].owner = s /\ z[k] = y[k]
                           \/ ~z[k].drawn /\ z[k].label = None
        /\ shape[s] # 0 => /\ z[k].drawn /\ z[k].colour = b
                           /\ \/ z[k].label = t
                              \/ /\ Live(y, k) /\ y[k].label # None
                                 /\ z[k].label = y[k].label
    <3>1. Live(y, k) => StripOK(y, k)
      BY <1>8
    <3>2. Redrawn(y, s, k, b, t, DrawPathSegment(y, s, k, b, t))
      BY <1>10, <3>1, DrawIs
    <3>3. Redrawn(y, s, k, b, t, z)
      BY <1>5, <3>2
    <3>4. QED
      BY <3>3 DEF Redrawn
  <2>2. /\ s \in Built /\ shape[s] \in Nat
        /\ \/ Start[s] = k[1] /\ End[s] = k[2]
           \/ Start[s] = k[2] /\ End[s] = k[1]
    BY <1>2, <1>10, ResolveIs DEF PathsOK
  <2>3. StripOK(z, k)
    <3>1. OnSegment(z, k)
      BY <2>1, <2>2 DEF OnSegment
    <3>2. z[k].drawn => shape[z[k].owner] > 0
      <4>1. CASE shape[s] = 0
        BY <1>8, <2>1, <4>1 DEF StripOK
      <4>2. CASE shape[s] # 0
        BY <2>1, <2>2, <4>2
      <4>3. QED
        BY <4>1, <4>2
    <3>3. ~z[k].drawn => z[k].label = None
      <4>1. CASE shape[s] = 0
        BY <1>8, <2>1, <4>1 DEF StripOK
      <4>2. CASE shape[s] # 0
        BY <2>1, <4>2
      <4>3. QED
        BY <4>1, <4>2
    <3>4. QED
      BY <2>1, <3>1, <3>2, <3>3 DEF StripOK
  <2>4. StripsOK(z)
    <3>1. ASSUME NEW j \in DOMAIN z, Live(z, j), j # k PROVE StripOK(z, j)
      <4>1. j \in DOMAIN y /\ z[j] = y[j]
        BY <2>1, <3>1
      <4>2. StripOK(y, j)
        BY <1>6, <3>1, <4>1 DEF StripsOK, Live
      <4>3. QED
        BY <4>1, <4>2 DEF StripOK, OnSegment
    <3>2. QED
      BY <2>3, <3>1 DEF StripsOK
  <2>5. IsDrawn(z, k) =>
            /\ z[k].colour = Bucket(p, k)
            /\ \/ z[k].label = Text(p, k)
               \/ IsDrawn(p.strips, k) /\ z[k].label = p.strips[k].label
    <3>1. ASSUME IsDrawn(z, k) PROVE shape[s] # 0
      BY <2>1, <2>3, <3>1 DEF IsDrawn, StripOK
    <3>2. ASSUME Live(y, k), y[k].label # None PROVE IsDrawn(p.strips, k)
      BY <1>7, <1>8, <3>2 DEF StripOK, IsDrawn
    <3>3. QED
      BY <1>3, <1>4, <1>7, <2>1, <3>1, <3>2
  <2>6. \A j \in DOMAIN z : j \in T /\ IsDrawn(z, j) =>
            /\ z[j].colour = Bucket(p, j)
            /\ \/ z[j].label = Text(p, j)
               \/ IsDrawn(p.strips, j) /\ z[j].label = p.strips[j].label
    <3>1. ASSUME NEW j \in DOMAIN z, j \in T, IsDrawn(z, j), j # k
          PROVE  /\ z[j].colour = Bucket(p, j)
                 /\ \/ z[j].label = Text(p, j)
                    \/ IsDrawn(p.strips, j) /\ z[j].label = p.strips[j].label
      <4>1. j \in DOMAIN y /\ z[j] = y[j] /\ j \in T \ {k}
        BY <2>1, <3>1
      <4>2. IsDrawn(y, j)
        BY <3>1, <4>1 DEF IsDrawn, Live
      <4>3. QED
        BY <1>6, <4>1, <4>2
    <3>2. QED
      BY <2>5, <3>1
  <2>7. /\ DOMAIN p.strips \subseteq DOMAIN z /\ DOMAIN z \subseteq DOMAIN p.strips \cup T
        /\ \A j \in DOMAIN z \ T : z[j] = p.strips[j]
    BY <1>6, <2>1
  <2>8. QED
    BY <1>1, <2>4, <2>6, <2>7 DEF PaintedSoFar
<1>11. QED
  BY <1>9, <1>10


\* What recolouring and painting make of the overlay.
ColourChanged(sampled, needing) ==
    {k \in DOMAIN sampled \ needing : TrafficBucket(sampled[k]) # BucketBefore(k)}

LEMMA RecolouredIs ==
    ASSUME StripsOK(overlay), NEW sampled, IsFiniteSet(DOMAIN sampled), NEW needing, NEW p,
           p.strips = overlay, p.sampled = sampled
    PROVE  RecolouredSoFar(p, ColourChanged(sampled, needing), Recoloured(sampled, needing))
<1> DEFINE S == ColourChanged(sampled, needing)
<1>1. IsFiniteSet(S)
  <2>1. S \subseteq DOMAIN sampled
    BY DEF ColourChanged
  <2>2. QED
    BY <2>1, FS_Subset
<1>2. RecolouredSoFar(p, {}, overlay)
  BY DEF RecolouredSoFar
<1> HIDE DEF S
<1>3. \A T \in SUBSET S : \A k \in T : \A y :
          RecolouredSoFar(p, T \ {k}, y) => RecolouredSoFar(p, T, RecolourStep(p, k, y))
  BY RecolourStepOK
<1>4. RecolouredSoFar(p, S, Recolouring!Fold(p, overlay, S))
  BY <1>1, <1>2, <1>3, Recolouring!FoldHolds DEF IsFiniteSet, Recolouring!IsFiniteSet
<1>5. Recoloured(sampled, needing) = Recolouring!Fold(p, overlay, S)
  BY DEF Recoloured, FoldSet, MapThenFoldSet, Recolouring!Fold, Recolouring!Pick, RecolourStep,
     Bucket, S, ColourChanged
<1>6. QED
  BY <1>4, <1>5 DEF S

LEMMA PaintedIs ==
    ASSUME PathsOK, NEW strips, StripsOK(strips), NEW sampled, NEW needing, IsFiniteSet(needing),
           NEW p, p.strips = strips, p.sampled = sampled
    PROVE  PaintedSoFar(p, needing, Painted(strips, sampled, needing))
<1>1. PaintedSoFar(p, {}, strips)
  BY DEF PaintedSoFar
<1>2. \A T \in SUBSET needing : \A k \in T : \A y :
          PaintedSoFar(p, T \ {k}, y) => PaintedSoFar(p, T, PaintStep(p, k, y))
  BY PaintStepOK
<1>3. PaintedSoFar(p, needing, Painting!Fold(p, strips, needing))
  BY <1>1, <1>2, Painting!FoldHolds DEF IsFiniteSet, Painting!IsFiniteSet
<1>4. Painted(strips, sampled, needing) = Painting!Fold(p, strips, needing)
  BY DEF Painted, FoldSet, MapThenFoldSet, Painting!Fold, Painting!Pick, PaintStep, Bucket, Text
<1>5. QED
  BY <1>3, <1>4

\* After the draws: a strip that was not to be drawn is as before, but for the
\* colour of a class that changed; one that was has the new colour, and the
\* new label or its old one.
Repainted(strips, sampled, needing) ==
    /\ StripsOK(strips)
    /\ DOMAIN overlay \subseteq DOMAIN strips /\ DOMAIN strips \subseteq DOMAIN overlay \cup needing
    /\ \A k \in DOMAIN strips : k \notin needing =>
          /\ IsDrawn(strips, k) <=> IsDrawn(overlay, k)
          /\ IsDrawn(strips, k) =>
                /\ strips[k].label = overlay[k].label
                /\ strips[k].colour = IF k \in DOMAIN sampled /\ TrafficBucket(sampled[k]) # BucketBefore(k)
                                      THEN TrafficBucket(sampled[k]) ELSE overlay[k].colour
    /\ \A k \in DOMAIN strips : k \in needing /\ IsDrawn(strips, k) =>
          /\ strips[k].colour = TrafficBucket(sampled[k])
          /\ \/ strips[k].label = LoadText(sampled[k])
             \/ IsDrawn(overlay, k) /\ strips[k].label = overlay[k].label

LEMMA RepaintedIs ==
    ASSUME PathsOK, StripsOK(overlay), NEW sampled, IsFiniteSet(DOMAIN sampled),
           NEW needing, needing \subseteq DOMAIN sampled
    PROVE  Repainted(Painted(Recoloured(sampled, needing), sampled, needing), sampled, needing)
<1>1. PICK r : r = Recoloured(sampled, needing)
  OBVIOUS
<1>2. PICK z : z = Painted(r, sampled, needing)
  OBVIOUS
<1>3. PICK p : p = [strips |-> overlay, sampled |-> sampled]
  OBVIOUS
<1>4. PICK q : q = [strips |-> r, sampled |-> sampled]
  OBVIOUS
<1>5. p.strips = overlay /\ p.sampled = sampled /\ q.strips = r /\ q.sampled = sampled
  BY <1>3, <1>4
<1> DEFINE changed == ColourChanged(sampled, needing)
           bucket(k) == TrafficBucket(sampled[k])
<1>6. RecolouredSoFar(p, changed, r)
  BY <1>1, <1>5, RecolouredIs
<1>7. /\ DOMAIN r = DOMAIN overlay
      /\ \A k \in DOMAIN r : r[k] = IF k \in changed /\ IsDrawn(overlay, k)
                                    THEN [overlay[k] EXCEPT !.colour = bucket(k)] ELSE overlay[k]
  BY <1>5, <1>6 DEF RecolouredSoFar, Bucket
<1> HIDE DEF changed, bucket
<1>8. ASSUME NEW k \in DOMAIN r
      PROVE  /\ Live(r, k) <=> Live(overlay, k)
             /\ Live(r, k) => /\ StripOK(r, k)
                              /\ r[k].drawn = overlay[k].drawn /\ r[k].label = overlay[k].label
                              /\ r[k].colour = IF k \in changed /\ IsDrawn(overlay, k)
                                               THEN bucket(k) ELSE overlay[k].colour
  <2>1. CASE k \in changed /\ IsDrawn(overlay, k)
    <3>1. r[k] = [overlay[k] EXCEPT !.colour = bucket(k)] /\ k \in DOMAIN overlay
      BY <1>7, <1>8, <2>1
    <3>2. Live(overlay, k) /\ StripOK(overlay, k)
      BY <2>1, <3>1 DEF IsDrawn, StripsOK
    <3>3. PICK a1, a2, a3, a4 : overlay[k] = [owner |-> a1, drawn |-> a2, colour |-> a3, label |-> a4]
      BY <3>2 DEF StripOK
    <3>4. /\ overlay[k].owner = a1 /\ overlay[k].drawn = a2 /\ overlay[k].colour = a3
          /\ overlay[k].label = a4
      BY <3>3
    <3>5. PICK n : n = bucket(k)
      OBVIOUS
    <3>6. r[k] = [owner |-> a1, drawn |-> a2, colour |-> n, label |-> a4]
      BY <3>1, <3>3, <3>5
    <3>7. r[k].owner = a1 /\ r[k].drawn = a2 /\ r[k].colour = n /\ r[k].label = a4
      BY <3>6
    <3>8. Live(r, k)
      BY <1>8, <3>2, <3>4, <3>7 DEF Live
    <3>9. StripOK(r, k)
      BY <3>2, <3>4, <3>6, <3>7 DEF StripOK, OnSegment
    <3>10. QED
      BY <2>1, <3>2, <3>4, <3>5, <3>7, <3>8, <3>9
  <2>2. CASE ~(k \in changed /\ IsDrawn(overlay, k))
    <3>1. r[k] = overlay[k] /\ k \in DOMAIN overlay
      BY <1>7, <1>8, <2>2
    <3>2. Live(r, k) <=> Live(overlay, k)
      BY <1>8, <3>1 DEF Live
    <3>3. ASSUME Live(r, k) PROVE StripOK(r, k)
      <4>1. StripOK(overlay, k)
        BY <3>1, <3>2, <3>3 DEF StripsOK
      <4>2. QED
        BY <3>1, <4>1 DEF StripOK, OnSegment
    <3>4. QED
      BY <2>2, <3>1, <3>2, <3>3
  <2>3. QED
    BY <2>1, <2>2
<1>9. StripsOK(r)
  BY <1>8 DEF StripsOK
<1>10. IsFiniteSet(needing)
  BY FS_Subset
<1>11. PaintedSoFar(q, needing, z)
  BY <1>2, <1>5, <1>9, <1>10, PaintedIs
<1>12. /\ StripsOK(z) /\ DOMAIN r \subseteq DOMAIN z /\ DOMAIN z \subseteq DOMAIN r \cup needing
       /\ \A k \in DOMAIN z \ needing : z[k] = r[k]
       /\ \A k \in DOMAIN z : k \in needing /\ IsDrawn(z, k) =>
             /\ z[k].colour = bucket(k)
             /\ z[k].label = LoadText(sampled[k]) \/ (IsDrawn(r, k) /\ z[k].label = r[k].label)
  BY <1>5, <1>11 DEF PaintedSoFar, Bucket, Text, bucket
<1>13. \A k \in DOMAIN r :
          /\ IsDrawn(r, k) <=> IsDrawn(overlay, k)
          /\ IsDrawn(r, k) => /\ r[k].label = overlay[k].label
                              /\ r[k].colour = IF k \in changed THEN bucket(k) ELSE overlay[k].colour
  BY <1>8 DEF IsDrawn
<1>14. ASSUME NEW k \in DOMAIN z, k \notin needing
       PROVE  /\ IsDrawn(z, k) <=> IsDrawn(overlay, k)
              /\ IsDrawn(z, k) =>
                    /\ z[k].label = overlay[k].label
                    /\ z[k].colour = IF k \in DOMAIN sampled /\ bucket(k) # BucketBefore(k)
                                     THEN bucket(k) ELSE overlay[k].colour
  <2>1. k \in DOMAIN r /\ z[k] = r[k]
    BY <1>12, <1>14
  <2>2. IsDrawn(z, k) <=> IsDrawn(r, k)
    BY <1>14, <2>1 DEF IsDrawn, Live
  <2>3. k \in changed <=> (k \in DOMAIN sampled /\ bucket(k) # BucketBefore(k))
    BY <1>14 DEF changed, ColourChanged, bucket
  <2>4. QED
    BY <1>13, <2>1, <2>2, <2>3
<1>15. ASSUME NEW k \in DOMAIN z, k \in needing, IsDrawn(z, k)
       PROVE  /\ z[k].colour = bucket(k)
              /\ z[k].label = LoadText(sampled[k]) \/ (IsDrawn(overlay, k) /\ z[k].label = overlay[k].label)
  <2>1. IsDrawn(r, k) => k \in DOMAIN r
    BY DEF IsDrawn, Live
  <2>2. QED
    BY <1>12, <1>13, <1>15, <2>1
<1>16. DOMAIN overlay \subseteq DOMAIN z /\ DOMAIN z \subseteq DOMAIN overlay \cup needing
  BY <1>7, <1>12
<1>17. Repainted(z, sampled, needing)
  BY <1>12, <1>14, <1>15, <1>16 DEF Repainted, bucket
<1>18. QED
  BY <1>1, <1>2, <1>17


\* A tick that draws: what is drawn afterwards shows its window, and what is
\* not drawn is dirty or was forgotten before.
LEMMA TrafficOK ==
    ASSUME PathsOK, CacheOK(tracerCache), StripsOK(overlay), StripsShow(overlay),
           NEW cache, cache = Update(tracerCache), NEW sampled, DOMAIN sampled = Counted(cache),
           DrawTraffic(cache, sampled), UNCHANGED pathVars
    PROVE  /\ CacheOK(tracerCache') /\ StripsOK(overlay)' /\ StripsShow(overlay)'
           /\ \A k \in Counted(tracerCache)' : Forgotten(k)' => Forgotten(k)
<1> DEFINE bucket(k) == TrafficBucket(sampled[k])
           text(k) == LoadText(sampled[k])
<1>1. CacheOK(cache) /\ Since(cache, tracerCache) /\ IsFiniteSet(DOMAIN sampled)
  BY UpdateOK, CountedFinite
<1>2. PICK needing : needing = NeedingDraw(cache, sampled)
  OBVIOUS
<1>3. cache.dirty \subseteq needing /\ needing \subseteq DOMAIN sampled
  BY <1>1, <1>2 DEF NeedingDraw, CacheOK, CountsMatchEntries
<1>4. PICK z : z = Painted(Recoloured(sampled, needing), sampled, needing)
  OBVIOUS
<1>5. Repainted(z, sampled, needing)
  BY <1>1, <1>3, <1>4, RepaintedIs
<1>6. PICK l : l = Labelled(z, sampled)
  OBVIOUS
<1>7. PICK undrawn : undrawn = Undrawn(z, needing)
  OBVIOUS
<1>8. /\ tracerCache' = MarkSegmentsDirty([Kept(cache) EXCEPT !.dirty = {}], undrawn)
      /\ windows' = sampled
      /\ overlay' = IF cache.membershipChanged THEN RemoveStaleSegments(l, Counted(cache)) ELSE l
  BY <1>2, <1>4, <1>6, <1>7 DEF DrawTraffic, DrawNeeding, DrawSegments
<1>9. /\ CacheOK(tracerCache') /\ Counted(tracerCache') = Counted(cache)
      /\ tracerCache'.dirty = undrawn \cap Counted(cache)
  BY <1>1, <1>8, DirtyIs
<1>10. shape' = shape /\ Built' = Built
  BY DEF pathVars, Built
<1>11. ~cache.membershipChanged => Counted(cache) = Counted(tracerCache)
  <2>1. DOMAIN cache.samples = Counted(cache) /\ DOMAIN tracerCache.samples = Counted(tracerCache)
    BY <1>1 DEF CacheOK, CountsMatchEntries
  <2>2. QED
    BY <1>1, <2>1 DEF Since
<1>12. \A k \in DOMAIN overlay : IsDrawn(overlay, k) =>
          /\ k \in DOMAIN windows /\ k \in Counted(tracerCache)
          /\ overlay[k].colour = BucketBefore(k) /\ overlay[k].label = LoadText(windows[k])
  BY DEF StripsShow, ShowsLoad, BucketBefore
<1>13. /\ StripsOK(z)
       /\ DOMAIN overlay \subseteq DOMAIN z /\ DOMAIN z \subseteq DOMAIN overlay \cup needing
       /\ \A k \in DOMAIN z : k \notin needing =>
             /\ IsDrawn(z, k) <=> IsDrawn(overlay, k)
             /\ IsDrawn(z, k) =>
                   /\ z[k].label = overlay[k].label
                   /\ z[k].colour = IF k \in DOMAIN sampled /\ bucket(k) # BucketBefore(k)
                                    THEN bucket(k) ELSE overlay[k].colour
       /\ \A k \in DOMAIN z : k \in needing /\ IsDrawn(z, k) =>
             /\ z[k].colour = bucket(k)
             /\ z[k].label = text(k) \/ (IsDrawn(overlay, k) /\ z[k].label = overlay[k].label)
  BY <1>5 DEF Repainted
<1> HIDE DEF bucket, text
\* Before the labels.
<1>14. ASSUME NEW k \in DOMAIN z, IsDrawn(z, k)
       PROVE  /\ k \in DOMAIN sampled => z[k].colour = bucket(k)
              /\ z[k].label = text(k) \/ (k \in DOMAIN windows /\ z[k].label = LoadText(windows[k]))
              /\ ~cache.membershipChanged => k \in DOMAIN sampled
  <2>1. CASE k \in needing
    <3>1. /\ z[k].colour = bucket(k)
          /\ z[k].label = text(k) \/ (IsDrawn(overlay, k) /\ z[k].label = overlay[k].label)
      BY <1>13, <1>14, <2>1
    <3>2. IsDrawn(overlay, k) => k \in DOMAIN overlay
      BY DEF IsDrawn, Live
    <3>3. QED
      BY <1>3, <1>12, <2>1, <3>1, <3>2
  <2>2. CASE k \notin needing
    <3>1. /\ IsDrawn(overlay, k) /\ z[k].label = overlay[k].label
          /\ z[k].colour = IF k \in DOMAIN sampled /\ bucket(k) # BucketBefore(k)
                           THEN bucket(k) ELSE overlay[k].colour
      BY <1>13, <1>14, <2>2
    <3>2. k \in DOMAIN overlay
      BY <1>13, <1>14, <2>2
    <3>3. QED
      BY <1>11, <1>12, <3>1, <3>2
  <2>3. QED
    BY <2>1, <2>2
<1> DEFINE relabel(k) == /\ k \in DOMAIN sampled /\ IsDrawn(z, k)
                         /\ text(k) # (IF k \in DOMAIN windows THEN LoadText(windows[k]) ELSE 0)
<1>15. /\ DOMAIN l = DOMAIN z
       /\ \A k \in DOMAIN z : l[k] = IF relabel(k) THEN [z[k] EXCEPT !.label = text(k)] ELSE z[k]
  BY <1>6 DEF Labelled, text
<1> HIDE DEF relabel
\* With the labels.
<1>16. ASSUME NEW k \in DOMAIN z
       PROVE  /\ Live(l, k) <=> Live(z, k)
              /\ Live(l, k) => StripOK(l, k) /\ (IsDrawn(l, k) <=> IsDrawn(z, k))
              /\ IsDrawn(l, k) /\ k \in DOMAIN sampled => l[k].colour = bucket(k) /\ l[k].label = text(k)
  <2>1. CASE relabel(k)
    <3>1. l[k] = [z[k] EXCEPT !.label = text(k)] /\ IsDrawn(z, k)
      BY <1>15, <2>1 DEF relabel
    <3>2. Live(z, k) /\ StripOK(z, k)
      BY <1>13, <3>1 DEF IsDrawn, StripsOK
    <3>3. PICK a1, a2, a3, a4 : z[k] = [owner |-> a1, drawn |-> a2, colour |-> a3, label |-> a4]
      BY <3>2 DEF StripOK
    <3>4. z[k].owner = a1 /\ z[k].drawn = a2 /\ z[k].colour = a3 /\ z[k].label = a4
      BY <3>3
    <3>5. PICK n : n = text(k)
      OBVIOUS
    <3>6. l[k] = [owner |-> a1, drawn |-> a2, colour |-> a3, label |-> n]
      BY <3>1, <3>3, <3>5
    <3>7. l[k].owner = a1 /\ l[k].drawn = a2 /\ l[k].colour = a3 /\ l[k].label = n
      BY <3>6
    <3>8. Live(l, k) /\ IsDrawn(l, k)
      BY <1>15, <1>16, <3>1, <3>2, <3>4, <3>7 DEF IsDrawn, Live
    <3>9. a2
      BY <3>1, <3>4 DEF IsDrawn
    <3>10. StripOK(l, k)
      BY <3>2, <3>4, <3>6, <3>7, <3>9 DEF StripOK, OnSegment
    <3>11. k \in DOMAIN sampled => l[k].colour = bucket(k) /\ l[k].label = text(k)
      BY <1>14, <3>1, <3>4, <3>5, <3>7
    <3>12. QED
      BY <3>1, <3>2, <3>8, <3>10, <3>11
  <2>2. CASE ~relabel(k)
    <3>1. l[k] = z[k]
      BY <1>15, <2>2
    <3>2. (Live(l, k) <=> Live(z, k)) /\ (IsDrawn(l, k) <=> IsDrawn(z, k))
      BY <1>15, <1>16, <3>1 DEF IsDrawn, Live
    <3>3. ASSUME Live(l, k) PROVE StripOK(l, k)
      <4>1. StripOK(z, k)
        BY <1>13, <3>2, <3>3 DEF StripsOK
      <4>2. QED
        BY <3>1, <4>1 DEF StripOK, OnSegment
    <3>4. ASSUME IsDrawn(l, k), k \in DOMAIN sampled
          PROVE  l[k].colour = bucket(k) /\ l[k].label = text(k)
      <4>1. IsDrawn(z, k)
        BY <3>2, <3>4
      <4>2. text(k) = IF k \in DOMAIN windows THEN LoadText(windows[k]) ELSE 0
        BY <2>2, <3>4, <4>1 DEF relabel
      <4>3. QED
        BY <1>14, <3>1, <3>4, <4>1, <4>2
    <3>5. QED
      BY <3>2, <3>3, <3>4
  <2>3. QED
    BY <2>1, <2>2
<1>17. \A k \in DOMAIN z : IsDrawn(l, k) <=> IsDrawn(z, k)
  BY <1>16 DEF IsDrawn
<1>18. PICK o : o = overlay'
  OBVIOUS
<1>19. /\ DOMAIN o \subseteq DOMAIN l /\ \A k \in DOMAIN o : o[k] = l[k]
       /\ cache.membershipChanged => DOMAIN o \subseteq Counted(cache)
       /\ DOMAIN l \cap Counted(cache) \subseteq DOMAIN o
  <2>1. CASE cache.membershipChanged
    BY <1>8, <1>18, <2>1 DEF RemoveStaleSegments, Restrict
  <2>2. CASE ~cache.membershipChanged
    BY <1>8, <1>18, <2>2
  <2>3. QED
    BY <2>1, <2>2
<1>20. \A k \in DOMAIN o : (Live(o, k) <=> Live(l, k)) /\ (IsDrawn(o, k) <=> IsDrawn(l, k))
  BY <1>19 DEF IsDrawn, Live
<1>21. ASSUME NEW k \in DOMAIN o, Live(o, k) PROVE StripOK(o, k)
  <2>1. StripOK(l, k) /\ o[k] = l[k]
    BY <1>15, <1>16, <1>19, <1>20, <1>21
  <2>2. QED
    BY <2>1 DEF StripOK, OnSegment
<1>22. ASSUME NEW k \in DOMAIN o, IsDrawn(o, k)
       PROVE  /\ k \in DOMAIN sampled /\ k \in Counted(tracerCache')
              /\ o[k].colour = bucket(k) /\ o[k].label = text(k)
  <2>1. k \in DOMAIN z /\ IsDrawn(z, k) /\ IsDrawn(l, k) /\ o[k] = l[k]
    BY <1>15, <1>17, <1>19, <1>20, <1>22
  <2>2. k \in DOMAIN sampled
    BY <1>14, <1>19, <2>1
  <2>3. QED
    BY <1>9, <1>16, <2>1, <2>2
<1>23. StripsOK(overlay)'
  <2>1. StripsOK(o)
    BY <1>21 DEF StripsOK
  <2>2. QED
    BY <1>10, <1>18, <2>1 DEF StripsOK, StripOK, OnSegment, Live
<1>24. StripsShow(overlay)'
  BY <1>8, <1>18, <1>22 DEF StripsShow, ShowsLoad, IsDrawn, Live, bucket, text, Counted
<1>25. ASSUME NEW k \in Counted(tracerCache'), k \notin tracerCache'.dirty, ~IsDrawn(o, k)
       PROVE  Forgotten(k)
  <2>1. k \in Counted(cache) /\ k \notin undrawn
    BY <1>9, <1>25
  <2>2. k \in DOMAIN z => ~IsDrawn(z, k)
    <3>1. ASSUME k \in DOMAIN z PROVE k \in DOMAIN o
      BY <1>15, <1>19, <2>1, <3>1
    <3>2. QED
      BY <1>17, <1>20, <1>25, <3>1
  <2>3. ~IsDrawn(z, k)
    BY <2>2 DEF IsDrawn, Live
  <2>4. k \notin needing
    BY <1>7, <2>1, <2>3 DEF Undrawn
  <2>5. k \in Counted(tracerCache) /\ k \notin tracerCache.dirty
    BY <1>1, <1>3, <2>1, <2>4 DEF Since
  <2>6. ~IsDrawn(overlay, k)
    <3>1. IsDrawn(overlay, k) => k \in DOMAIN overlay
      BY DEF IsDrawn, Live
    <3>2. QED
      BY <1>13, <2>3, <2>4, <3>1
  <2>7. QED
    BY <2>5, <2>6 DEF Forgotten
<1>26. \A k \in Counted(tracerCache)' : Forgotten(k)' => Forgotten(k)
  BY <1>18, <1>25 DEF Forgotten, IsDrawn, Live, Counted
<1>27. QED
  BY <1>9, <1>23, <1>24, <1>26


\* A change of the game: what is still alive is as it was, on a segment that
\* is still there and has still a spline.
LEMMA StripsKept ==
    ASSUME StripsOK(overlay), StripsShow(overlay), UNCHANGED <<windows, tracerCache>>,
           DOMAIN overlay' = DOMAIN overlay,
           \A k \in DOMAIN overlay' : Live(overlay', k) =>
               /\ overlay'[k] = overlay[k] /\ overlay[k].owner \in Built'
               /\ shape[overlay[k].owner] > 0 => shape'[overlay[k].owner] > 0
    PROVE  StripsOK(overlay)' /\ StripsShow(overlay)'
<1>1. ASSUME NEW k \in DOMAIN overlay', Live(overlay', k)
      PROVE  /\ Live(overlay, k) /\ k \in DOMAIN overlay /\ overlay'[k] = overlay[k]
             /\ StripOK(overlay, k)
  BY <1>1 DEF Live, StripsOK
<1>2. ASSUME NEW k \in DOMAIN overlay', Live(overlay', k) PROVE StripOK(overlay, k)'
  BY <1>1, <1>2 DEF StripOK, OnSegment
<1>3. StripsOK(overlay)'
  BY <1>2 DEF StripsOK, Live
<1>4. ASSUME NEW k \in DOMAIN overlay', IsDrawn(overlay', k)
      PROVE  IsDrawn(overlay, k) /\ k \in DOMAIN overlay /\ overlay'[k] = overlay[k]
  BY <1>1, <1>4 DEF IsDrawn
<1>5. StripsShow(overlay)'
  BY <1>4 DEF StripsShow, ShowsLoad, IsDrawn, Live, Counted
<1>6. QED
  BY <1>3, <1>5

LEMMA StripsDied ==
    ASSUME StripsOK(overlay), StripsShow(overlay), UNCHANGED <<windows, tracerCache>>,
           NEW actors, StripsDie(actors), Built \ actors \subseteq Built',
           \A s \in Built \ actors : shape'[s] = shape[s]
    PROVE  StripsOK(overlay)' /\ StripsShow(overlay)'
<1>1. /\ DOMAIN overlay' = DOMAIN overlay
      /\ \A k \in DOMAIN overlay :
            overlay'[k] = IF Live(overlay, k) /\ overlay[k].owner \in actors
                          THEN NewStrip(Dead) ELSE overlay[k]
  BY DEF StripsDie
<1>2. NewStrip(Dead).owner = Dead
  BY DEF NewStrip
<1>3. ASSUME NEW k \in DOMAIN overlay', Live(overlay', k)
      PROVE  /\ overlay'[k] = overlay[k] /\ overlay[k].owner \in Built'
             /\ shape[overlay[k].owner] > 0 => shape'[overlay[k].owner] > 0
  <2>1. ~(Live(overlay, k) /\ overlay[k].owner \in actors)
    BY <1>1, <1>2, <1>3 DEF Live
  <2>2. overlay'[k] = overlay[k] /\ Live(overlay, k)
    BY <1>1, <1>3, <2>1 DEF Live
  <2>3. overlay[k].owner \in Built \ actors
    BY <1>1, <2>1, <2>2 DEF StripsOK, StripOK, OnSegment
  <2>4. QED
    BY <2>2, <2>3
<1>4. QED
  BY <1>1, <1>3, StripsKept

LEMMA NothingDrawn ==
    ASSUME overlay' = << >> PROVE StripsOK(overlay)' /\ StripsShow(overlay)'
<1>1. DOMAIN overlay' = {}
  OBVIOUS
<1>2. QED
  BY <1>1 DEF StripsOK, StripsShow

\* Every way to switch the overlay.
LEMMA SwitchOK ==
    ASSUME OverlayOK, NEW mode \in Modes, SetVehicleTracing(mode), watched = "overlay",
           watched' = watched, UNCHANGED pathVars
    PROVE  /\ tracing' \in Modes /\ (tracing' = "off" => overlay' = << >>)
           /\ tracing' = "traffic" => StripsOK(overlay)' /\ StripsShow(overlay)'
           /\ tracerCache' \in {tracerCache, EmptyCache}
           /\ tracing = "traffic" /\ tracing' = "traffic" => UNCHANGED <<tracerCache, overlay>>
<1>1. CASE mode = "off"
  BY <1>1 DEF SetVehicleTracing, StopVehicleTracing, ClearOverlay, Modes
<1>2. CASE mode # "off" /\ tracing \notin {"off", mode}
  <2>1. tracing' = mode /\ tracerCache' = EmptyCache /\ overlay' = << >>
    BY <1>2 DEF SetVehicleTracing, ClearOverlay
  <2>2. QED
    BY <1>2, <2>1, NothingDrawn
<1>3. CASE mode # "off" /\ tracing \in {"off", mode}
  <2>1. tracing' = mode /\ UNCHANGED <<tracerCache, windows, overlay>>
    BY <1>3 DEF SetVehicleTracing
  <2>2. CASE tracing = "off"
    <3>1. overlay' = << >>
      BY <2>1, <2>2 DEF OverlayOK
    <3>2. QED
      BY <1>3, <2>1, <2>2, <3>1, NothingDrawn
  <2>3. CASE tracing = mode
    <3>1. ASSUME mode = "traffic" PROVE StripsOK(overlay)' /\ StripsShow(overlay)'
      <4>1. StripsOK(overlay) /\ StripsShow(overlay)
        BY <2>3, <3>1 DEF OverlayOK
      <4>2. shape' = shape /\ Built' = Built
        BY DEF pathVars, Built
      <4>3. \A k \in DOMAIN overlay : Live(overlay, k) => overlay[k].owner \in Built
        BY <4>1 DEF StripsOK, StripOK, OnSegment
      <4>4. QED
        BY <2>1, <4>1, <4>2, <4>3, StripsKept
    <3>2. QED
      BY <1>3, <2>1, <2>3, <3>1
  <2>4. QED
    BY <1>3, <2>2, <2>3
<1>4. QED
  BY <1>1, <1>2, <1>3


\* A step of the overlay's: the third conjunct is NothingForgotten.
Forgets == \A k \in Counted(tracerCache)' : Forgotten(k)' => Forgotten(k)
StaysTraffic == tracing = "traffic" /\ tracing' = "traffic" /\ UNCHANGED pathVars
OverlayKept == OverlayOK' /\ CacheOK(tracerCache') /\ (StaysTraffic => Forgets)

LEMMA SameCache ==
    ASSUME UNCHANGED <<tracerCache, overlay>> PROVE Forgets
BY DEF Forgets, Forgotten, IsDrawn, Live, Counted

LEMMA EmptyForgets ==
    ASSUME Counted(tracerCache') = {} PROVE Forgets
BY DEF Forgets, Counted

LEMMA CommandKept ==
    ASSUME Inv, watched = "overlay", watched' = watched, UNCHANGED pathVars,
           NEW mode \in Modes, SetVehicleTracing(mode), tool' \in Modes \cup {"none"}
    PROVE  OverlayKept
<1>1. OverlayOK /\ CacheOK(tracerCache)
  BY DEF Inv, MapInv, CachesOK
<1>2. /\ tracing' \in Modes /\ (tracing' = "off" => overlay' = << >>)
      /\ tracing' = "traffic" => StripsOK(overlay)' /\ StripsShow(overlay)'
      /\ tracerCache' \in {tracerCache, EmptyCache}
      /\ tracing = "traffic" /\ tracing' = "traffic" => UNCHANGED <<tracerCache, overlay>>
  BY <1>1, SwitchOK
<1>3. OverlayOK'
  BY <1>2 DEF OverlayOK
<1>4. CacheOK(tracerCache')
  BY <1>1, <1>2, EmptyCacheOK
<1>5. StaysTraffic => Forgets
  BY <1>2, SameCache DEF StaysTraffic
<1>6. QED
  BY <1>3, <1>4, <1>5 DEF OverlayKept

LEMMA GameKept ==
    ASSUME Inv, watched = "overlay", watched' = watched, UNCHANGED <<tracing, tracerCache>>,
           tool' \in Modes \cup {"none"}, tracing = "off" => overlay' = << >>,
           tracing = "traffic" => StripsOK(overlay)' /\ StripsShow(overlay)',
           UNCHANGED pathVars => UNCHANGED overlay
    PROVE  OverlayKept
<1>1. OverlayOK'
  BY DEF Inv, OverlayOK
<1>2. CacheOK(tracerCache')
  BY DEF Inv, MapInv, CachesOK
<1>3. StaysTraffic => Forgets
  BY SameCache DEF StaysTraffic
<1>4. QED
  BY <1>1, <1>2, <1>3 DEF OverlayKept

LEMMA TickKept ==
    ASSUME Inv, watched = "overlay", watched' = watched, UNCHANGED pathVars, TickVehicleTracing
    PROVE  OverlayKept
<1>1. /\ PathsOK /\ CacheOK(tracerCache) /\ OverlayOK /\ tracing # "off"
      /\ tracing' = tracing /\ tool' = tool
  BY DEF Inv, MapInv, CachesOK, TickVehicleTracing
<1>2. CASE TickWithoutSubsystem
  <2>1. tracerCache' = EmptyCache /\ overlay' = << >>
    BY <1>2 DEF TickWithoutSubsystem, ClearOverlay
  <2>2. QED
    BY <1>1, <2>1, NothingDrawn, EmptyCacheOK, EmptyForgets DEF OverlayKept, OverlayOK
<1>3. PICK cache : cache = Update(tracerCache)
  OBVIOUS
<1>4. CacheOK(cache) /\ CacheOK(Kept(cache)) /\ Counted(Kept(cache)) = Counted(cache)
  <2>1. CacheOK(cache)
    BY <1>1, <1>3, UpdateOK
  <2>2. QED
    BY <2>1, KeptIs
<1>5. CASE TickNetwork
  <2>1. tracing = "network" /\ tracerCache' = Kept(cache)
    BY <1>3, <1>5, Zenon DEF TickNetwork, DrawNetwork
  <2>2. QED
    BY <1>1, <1>4, <2>1 DEF OverlayKept, OverlayOK, StaysTraffic
<1>6. CASE TickTraffic
  <2>1. tracing = "traffic" /\ SampleTraffic(cache)
    BY <1>3, <1>6 DEF TickTraffic
  <2>2. CASE Counted(cache) = {}
    <3>1. tracerCache' = Kept(cache) /\ overlay' = << >>
      BY <2>1, <2>2 DEF SampleTraffic, ClearOverlay
    <3>2. QED
      BY <1>1, <1>4, <2>2, <3>1, NothingDrawn, EmptyForgets DEF OverlayKept, OverlayOK
  <2>3. CASE Counted(cache) # {}
    <3>1. PICK at : DrawTraffic(cache, Sampled(Counted(cache), at))
      BY <2>1, <2>3 DEF SampleTraffic
    <3>2. PICK sampled : sampled = Sampled(Counted(cache), at)
      OBVIOUS
    <3>3. DOMAIN sampled = Counted(cache)
      BY <3>2 DEF Sampled
    <3>4. StripsOK(overlay) /\ StripsShow(overlay)
      BY <1>1, <2>1 DEF OverlayOK
    <3>5. DrawTraffic(cache, sampled)
      BY <3>1, <3>2
    <3>6. /\ CacheOK(tracerCache') /\ StripsOK(overlay)' /\ StripsShow(overlay)'
          /\ \A k \in Counted(tracerCache)' : Forgotten(k)' => Forgotten(k)
      BY <1>1, <1>3, <3>3, <3>4, <3>5, TrafficOK
    <3>7. QED
      BY <1>1, <2>1, <3>6 DEF OverlayKept, OverlayOK, Forgets
  <2>4. QED
    BY <2>2, <2>3
<1>7. QED
  BY <1>2, <1>5, <1>6 DEF TickVehicleTracing

LEMMA OverlayStep ==
    ASSUME Inv, watched = "overlay", [Next]_vars
    PROVE  OverlayKept /\ UNCHANGED mapVars /\ watched' = watched
<1>1. /\ PathsOK /\ OverlayOK /\ world \in Nat /\ Built \subseteq Segments
      /\ (~subsystem => Built = {}) /\ tool \in Modes \cup {"none"}
  BY DEF Inv, MapInv, PathsOK, OverlayOK
<1>2. tracing = "traffic" =>
          /\ StripsOK(overlay) /\ StripsShow(overlay)
          /\ \A k \in DOMAIN overlay : Live(overlay, k) => overlay[k].owner \in Built
  BY <1>1 DEF OverlayOK, StripsOK, StripOK, OnSegment
<1>3. tracing = "off" => overlay = << >> /\ DOMAIN overlay = {}
  BY <1>1 DEF OverlayOK
<1>4. ASSUME UNCHANGED overlayVars, watched' = watched,
             \A s \in Built : s \in Built' /\ (shape[s] > 0 => shape'[s] > 0)
      PROVE  OverlayKept
  <2>1. UNCHANGED <<tracing, tracerCache, windows, overlay, tool>>
    BY <1>4 DEF overlayVars
  <2>2. tracing = "traffic" => StripsOK(overlay)' /\ StripsShow(overlay)'
    BY <1>2, <1>4, <2>1, StripsKept
  <2>3. QED
    BY <1>1, <1>3, <1>4, <2>1, <2>2, GameKept
<1>5. CASE UNCHANGED vars
  <2>1. UNCHANGED <<pathVars, mapVars, overlayVars, watched>>
    BY <1>5 DEF vars
  <2>2. shape' = shape /\ Built' = Built
    BY <2>1 DEF pathVars, Built
  <2>3. QED
    BY <1>4, <2>1, <2>2
<1>6. ASSUME NEW s \in Segments, AddPathSegment(s) \/ SetSplinePointsAndValidatePath(s),
             UNCHANGED overlayVars, watched' = watched
      PROVE  OverlayKept
  <2>1. CASE AddPathSegment(s)
    <3>1. \A t \in Built : t \in Built' /\ shape'[t] = shape[t]
      BY <2>1 DEF AddPathSegment, Built
    <3>2. QED
      BY <1>4, <1>6, <3>1
  <2>2. CASE SetSplinePointsAndValidatePath(s)
    <3>1. \A t \in Built : t \in Built' /\ shape'[t] = IF t = s THEN shape[s] + 1 ELSE shape[t]
      BY <2>2 DEF SetSplinePointsAndValidatePath, Built
    <3>2. \A t \in Built : shape[t] \in Nat
      BY <1>1 DEF PathsOK
    <3>3. \A t \in Built : shape[t] > 0 => shape'[t] > 0
      BY <3>1, <3>2
    <3>4. QED
      BY <1>4, <1>6, <3>1, <3>3
  <2>3. QED
    BY <1>6, <2>1, <2>2
<1>7. ASSUME NEW s \in Segments, RemovePathSegment(s), SegmentDies(s), watched' = watched
      PROVE  OverlayKept
  <2>1. /\ StripsDie({s}) /\ UNCHANGED <<tracing, tracerCache, windows, tool>>
        /\ s \in Built /\ shape' = Restrict(shape, Built \ {s})
    BY <1>7 DEF SegmentDies, RemovePathSegment
  <2>2. Built' = Built \ {s} /\ \A t \in Built \ {s} : shape'[t] = shape[t]
    BY <2>1 DEF Built, Restrict
  <2>3. tracing = "traffic" => StripsOK(overlay)' /\ StripsShow(overlay)'
    BY <1>2, <2>1, <2>2, StripsDied
  <2>4. tracing = "off" => overlay' = << >>
    BY <1>3, <2>1 DEF StripsDie
  <2>5. ~UNCHANGED pathVars
    BY <2>1, <2>2 DEF pathVars, Built
  <2>6. QED
    BY <1>1, <1>7, <2>1, <2>3, <2>4, <2>5, GameKept
<1>8. ASSUME shape' = shape, UNCHANGED overlayVars, watched' = watched PROVE OverlayKept
  <2>1. Built' = Built
    BY <1>8 DEF Built
  <2>2. QED
    BY <1>4, <1>8, <2>1
<1>9. ASSUME LeaveWorld, WorldDies, watched' = watched PROVE OverlayKept
  <2>1. /\ StripsDie(Segments) /\ UNCHANGED <<tracing, tracerCache, windows>> /\ tool' = "none"
        /\ world' = world + 1
    BY <1>9 DEF WorldDies, LeaveWorld
  <2>2. tracing = "traffic" => StripsOK(overlay)' /\ StripsShow(overlay)'
    BY <1>1, <1>2, <2>1, StripsDied
  <2>3. tracing = "off" => overlay' = << >>
    BY <1>3, <2>1 DEF StripsDie
  <2>4. ~UNCHANGED pathVars
    BY <1>1, <2>1 DEF pathVars
  <2>5. QED
    BY <1>9, <2>1, <2>2, <2>3, <2>4, GameKept
<1>10. ASSUME NEW built, NEW fleet, EnterWorld(built, fleet), UNCHANGED overlayVars, watched' = watched
       PROVE  OverlayKept
  <2>1. Built = {}
    BY <1>1, <1>10 DEF EnterWorld
  <2>2. QED
    BY <1>4, <1>10, <2>1
<1>11. ASSUME UNCHANGED pathVars, watched' = watched, NEW mode \in Modes, TracingCommand(mode)
       PROVE  OverlayKept
  BY <1>1, <1>11, CommandKept DEF TracingCommand
<1>12. ASSUME UNCHANGED pathVars, watched' = watched, Equip \/ UnEquip
       PROVE  OverlayKept
  <2>1. tool' \in Modes \cup {"none"} /\ StopVehicleTracing
    BY <1>12 DEF Equip, UnEquip, Modes
  <2>2. SetVehicleTracing("off") /\ "off" \in Modes
    BY <2>1 DEF SetVehicleTracing, Modes
  <2>3. QED
    BY <1>12, <2>1, <2>2, CommandKept
<1>13. ASSUME UNCHANGED pathVars, watched' = watched, CycleControlMode PROVE OverlayKept
  <2>1. tool \in Modes /\ tool' = NextMode[tool] /\ SetVehicleTracing(tool')
    BY <1>1, <1>13 DEF CycleControlMode
  <2>2. tool' \in Modes
    BY <2>1 DEF NextMode, Modes
  <2>3. PICK mode \in Modes : mode = tool'
    BY <2>2
  <2>4. SetVehicleTracing(mode)
    BY <2>1, <2>3 DEF SetVehicleTracing
  <2>5. QED
    BY <1>13, <2>2, <2>4, CommandKept
<1>14. ASSUME UNCHANGED pathVars, watched' = watched, ApplyControlMode PROVE OverlayKept
  <2>1. tool \in Modes /\ tool' = tool /\ SetVehicleTracing(tool)
    BY <1>1, <1>14 DEF ApplyControlMode
  <2>2. QED
    BY <1>14, <2>1, CommandKept
<1>15. CASE SegmentsNext
  BY <1>6, <1>7, <1>15 DEF SegmentsNext, Seen
<1>16. CASE VehiclesNext
  <2>1. shape' = shape
    BY <1>16 DEF VehiclesNext, AddVehicle, SetVehicleRoute, RemoveVehicle
  <2>2. UNCHANGED overlayVars /\ UNCHANGED mapVars /\ UNCHANGED watched
    BY <1>16 DEF VehiclesNext, Seen
  <2>3. QED
    BY <1>8, <2>1, <2>2
<1>17. CASE WorldsNext
  <2>1. CASE LeaveWorld /\ Seen(ForgetActors, WorldDies)
    BY <1>9, <2>1 DEF Seen
  <2>2. CASE \E built \in LoadedNetworks, fleet \in LoadedFleets :
                /\ EnterWorld(built, fleet)
                /\ \E announced \in {{}, built} :
                      Seen(RequestLoadedSegments(announced), UNCHANGED overlayVars)
    BY <1>10, <2>2 DEF Seen
  <2>3. QED
    BY <1>17, <2>1, <2>2 DEF WorldsNext
<1>18. CASE Players
  <2>1. \/ \E mode \in {"off", "traffic", "network"} : OverlayPart(TracingCommand(mode))
        \/ OverlayPart(Equip \/ UnEquip \/ CycleControlMode \/ ApplyControlMode)
    BY <1>18 DEF Players, MapPart
  <2>2. QED
    BY <1>11, <1>12, <1>13, <1>14, <2>1 DEF OverlayPart, Modes
<1>19. CASE TickOverlay
  <2>1. TickVehicleTracing /\ UNCHANGED pathVars /\ UNCHANGED mapVars /\ watched' = watched
    BY <1>19 DEF TickOverlay, OverlayPart
  <2>2. QED
    BY <2>1, TickKept
<1>20. ~TickMap
  BY DEF TickMap, MapPart
<1>21. QED
  <2>1. CASE UNCHANGED vars
    <3>1. UNCHANGED <<pathVars, mapVars, overlayVars, watched>>
      BY <2>1 DEF vars
    <3>2. QED
      BY <1>5, <2>1, <3>1
  <2>2. QED
    BY <1>15, <1>16, <1>17, <1>18, <1>19, <1>20, <2>1 DEF Next, SegmentsNext, VehiclesNext,
       WorldsNext, Players, TickOverlay, Seen, MapPart, OverlayPart

-----------------------------------------------------------------------------
(* The theorems                                                             *)

LEMMA InitInv == ASSUME Init PROVE Inv
<1>1. PathsOK
  BY PathsInit
<1>2. CachesOK
  BY EmptyCacheOK DEF Init, MapInit, OverlayInit, CachesOK
<1>3. /\ cachedWorld = NoWorld /\ world = 0 /\ pendingRefreshes = {} /\ target = FALSE
      /\ snapshot = [initialized |-> FALSE, lines |-> << >>]
      /\ tracing = "off" /\ overlay = << >> /\ tool = "none" /\ watched \in {"map", "overlay"}
  BY DEF Init, MapInit, OverlayInit
<1>4. SnapshotShape(snapshot)
  <2>1. PICK e : e = [initialized |-> FALSE, lines |-> << >>]
    OBVIOUS
  <2>2. e.initialized = FALSE /\ e.lines = << >>
    BY <2>1
  <2>3. << >> = [k \in DOMAIN << >> |-> << >>[k]]
    OBVIOUS
  <2>4. SnapshotShape(e)
    BY <2>1, <2>2, <2>3 DEF SnapshotShape
  <2>5. QED
    BY <1>3, <2>1, <2>4
<1>5. MapOK
  BY <1>3, <1>4, NoWorldAssumption DEF MapOK, NoWorldAssumption
<1>6. LayerIsCurrent
  BY <1>3 DEF LayerIsCurrent
<1>7. OverlayOK
  BY <1>3 DEF OverlayOK, Modes
<1>8. QED
  BY <1>1, <1>2, <1>3, <1>5, <1>6, <1>7 DEF Inv, MapInv

LEMMA InvStep == ASSUME Inv, [Next]_vars PROVE Inv' /\ (StaysTraffic => Forgets)
<1>1. CASE watched = "map"
  <2>1. MapInv'
    BY <1>1, MapStep DEF Inv
  <2>2. UNCHANGED overlayVars /\ watched' = watched
    BY <1>1 DEF Next, SegmentsNext, VehiclesNext, WorldsNext, Players, TickMap, TickOverlay,
       Seen, MapPart, OverlayPart, vars
  <2>3. tracing = "off" /\ UNCHANGED <<tracing, overlay, tool>>
    BY <1>1, <2>2 DEF overlayVars, Inv, OverlayOK
  <2>4. OverlayOK'
    BY <2>2, <2>3 DEF Inv, OverlayOK
  <2>5. QED
    BY <1>1, <2>1, <2>2, <2>3, <2>4 DEF Inv, StaysTraffic
<1>2. CASE watched = "overlay"
  <2>1. OverlayKept /\ UNCHANGED mapVars /\ watched' = watched
    BY <1>2, OverlayStep
  <2>2. PathsOK' /\ world' \in Nat
    BY NextPaths, PathsStep DEF Inv, MapInv, PathsOK
  <2>3. UNCHANGED <<cachedWorld, snapshot, mapCache, pendingRefreshes, needsRedraw, layer, target>>
    BY <2>1 DEF mapVars, dataVars, requestVars, drawVars
  <2>4. cachedWorld = NoWorld
    BY <1>2 DEF Inv, MapInv, MapOK
  <2>5. MapOK'
    BY <1>2, <2>1, <2>2, <2>3, <2>4, NoWorldAssumption DEF Inv, MapInv, MapOK, NoWorldAssumption
  <2>6. LayerIsCurrent'
    BY <2>3 DEF Inv, MapInv, LayerIsCurrent
  <2>7. CachesOK'
    BY <2>1, <2>3 DEF Inv, MapInv, CachesOK, OverlayKept
  <2>8. QED
    BY <1>2, <2>1, <2>2, <2>5, <2>6, <2>7 DEF Inv, MapInv, OverlayKept
<1>3. QED
  BY <1>1, <1>2 DEF Inv

\* The inductive invariant: the world is as the game keeps it, both caches
\* count what their entries use, the requests that wait make up for all that
\* the snapshot lacks, and the strips show the windows they were drawn from.
THEOREM Invariance == Spec => []Inv
<1>1. Init => Inv
  BY InitInv
<1>2. Inv /\ [Next]_vars => Inv'
  BY InvStep
<1>3. QED
  BY <1>1, <1>2, PTL DEF Spec

\* FPathFinderTraceService's search is exact on whatever network is built: it
\* finds a path if and only if there is one, and then a shortest one, else the
\* node closest to the target of those that can be reached; and a leg that
\* fails paints a way to each node that can be reached and to no other.
THEOREM SearchTheorem == Spec => []SearchesAreExact
<1>1. ASSUME NEW built \in SUBSET Segments PROVE built \in ExactNetworks
  <2>1. Network(NetworkOf(built))
    BY BuiltNetwork
  <2>2. SearchIsExact(NetworkOf(built))
    BY <2>1, NetworkExact
  <2>3. PaintsReachable(NetworkOf(built))
    BY <2>1, NetworkPainted
  <2>4. QED
    BY <2>2, <2>3 DEF ExactNetworks
<1>2. Inv => SearchesAreExact
  BY <1>1 DEF Inv, MapInv, PathsOK, SearchesAreExact
<1>3. QED
  BY <1>2, Invariance, PTL

\* FPathFinderVehicleRouteCache's reference counts are those of the routes,
\* and it has a sample, and dirty marks, only of segments in use: in the map's
\* cache and in the tracer's, for any network and any history of routes.
THEOREM UsageTheorem == Spec => []UsageMatchesRoutes
<1>1. Inv => UsageMatchesRoutes
  BY DEF Inv, MapInv, CachesOK, CacheOK, UsageMatchesRoutes
<1>2. QED
  BY <1>1, Invariance, PTL

\* Once UPathFinderRouteMapSubsystem's tick has applied all requests, its
\* snapshot has the lines of the present world's segments and no others.
THEOREM SnapshotTheorem == Spec => []SnapshotIsCurrent
<1>1. ASSUME Inv, Settled PROVE SnapshotIsCurrent
  <2>1. cachedWorld = world /\ RequestsSuffice
    BY <1>1 DEF Settled, Inv, MapInv, MapOK
  <2>2. ~initialPopulationRequested /\ pendingRefreshes = {} /\ pendingRemovals = {}
    <3>1. PICK s : s = ResetForWorld
      OBVIOUS
    <3>2. /\ s.populate = initialPopulationRequested /\ s.refreshes = pendingRefreshes
          /\ s.removals = pendingRemovals
      BY <2>1, <3>1 DEF ResetForWorld, AsBefore
    <3>3. ~Requested(s)
      BY <1>1, <3>1 DEF Settled
    <3>4. QED
      BY <3>2, <3>3 DEF Requested
  <2>3. LinesMatchBut(snapshot.lines, {}, {}) /\ LinesCover(snapshot.lines, {})
    BY <2>1, <2>2 DEF RequestsSuffice
  <2>4. QED
    BY <2>3 DEF SnapshotIsCurrent, LinesMatchBut, LinesCover, Drawable
<1>2. Inv => SnapshotIsCurrent
  BY <1>1 DEF SnapshotIsCurrent
<1>3. QED
  BY <1>2, Invariance, PTL

\* The render target shows the snapshot and the routes, or is marked for
\* drawing (bNeedsRedraw), whenever the layer was hidden or the world changed.
THEOREM LayerTheorem == Spec => []LayerIsCurrent
<1>1. Inv => LayerIsCurrent
  BY DEF Inv, MapInv
<1>2. QED
  BY <1>1, Invariance, PTL

\* In traffic mode every strip that is drawn has the colour and the label of
\* its load window, for windows of any length and any traffic.
THEOREM OverlayTheorem == Spec => []OverlayMatchesTraffic
<1>1. Inv => OverlayMatchesTraffic
  BY DEF Inv, OverlayOK, StripsShow, ShowsLoad, OverlayMatchesTraffic
<1>2. QED
  BY <1>1, Invariance, PTL

\* No tick of the tracer loses a segment that is in use: one that was not
\* drawn is dirty again for the next tick.
THEOREM ForgottenTheorem == Spec => NothingForgotten
<1>1. ASSUME Inv, [Next]_vars
      PROVE  [tracing = "traffic" /\ tracing' = "traffic" /\ UNCHANGED pathVars =>
                 \A k \in Counted(tracerCache)' : Forgotten(k)' => Forgotten(k)]_vars
  BY <1>1, InvStep DEF StaysTraffic, Forgets
<1>2. QED
  BY <1>1, Invariance, PTL DEF Spec, NothingForgotten

=============================================================================
