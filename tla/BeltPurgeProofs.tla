--------------------------- MODULE BeltPurgeProofs ---------------------------
(* Proofs about BeltPurge for any factory, any operations and any limits.    *)
EXTENDS BeltPurge, FiniteSetTheorems, TLAPS

-----------------------------------------------------------------------------
(* The invariants                                                           *)

Results == {"complete", "world became invalid", "initial item budget exhausted",
            "inventory mutation failed", "conveyor mutation failed"}
Positions == Nat \ {0}
SetsOfChains == SUBSET Chains
Operations ==
    [phase: {"none", "gathering", "running", "over"}, start: Places \cup {None},
     pending: Seq(Places), chains: Seq(Chains), machines: Seq(Machines),
     attachments: Seq(Attachments), stopped: SetsOfChains,
     inventory: Positions, chain: Positions, work: Nat, removedThisPass: Nat,
     initial: Nat, removed: Nat, whole: BOOLEAN, result: Results \cup {None}]
FactoryOK ==
    /\ wire \in Wirings
    /\ belt \in [Chains -> Seq(Kinds)]
    /\ buffer \in [Inventories -> [Kinds -> Nat]]
    /\ alive \in SUBSET Places
TypesOK == FactoryOK /\ op \in [Purges -> Operations] /\ active \in Purges \cup {None}

\* A request gathers before anything else happens, and has removed nothing;
\* mine: the operation is on the game thread.
OperationOK(p, mine) ==
    /\ p.phase = "gathering" => mine
    /\ mine => p.phase \in {"gathering", "running"}
    /\ p.phase \in {"none", "gathering"} =>
          p.removed = 0 /\ p.inventory = 1 /\ p.chain = 1 /\ p.removedThisPass = 0
    /\ p.phase = "none" => p.chains = <<>> /\ p.machines = <<>> /\ p.attachments = <<>>
    /\ p.removed <= p.initial
    /\ IsInjective(p.chains) /\ IsInjective(p.machines) /\ IsInjective(p.attachments)
    /\ p.work <= MaximumItemsPerTick
BudgetInv == TypesOK /\ \A o \in Purges : OperationOK(op[o], active = o)

\* What has been gathered is within reach, and what is next to it is gathered
\* or pending.
Found(o) == Gathered(o) \cup ToSet(op[o].pending)
Gathering(o) ==
    op[o].phase = "gathering" =>
        /\ op[o].start \in Found(o) \cap alive
        /\ Found(o) \subseteq Reachable(op[o].start)
        /\ \A n \in Gathered(o), b \in alive : Connected(n, b) => b \in Found(o)
GatherInv == BudgetInv /\ \A o \in Purges : Gathering(o)

\* A pass that lies in one callback has left nothing behind.
Drained(i) == i \in alive => buffer[i]["sinkable"] = 0
Cleared(c) == c \in alive => Eligible(belt[c]) = 0
Passed(o) ==
    op[o].phase = "running" /\ op[o].whole =>
        /\ active # o => op[o].inventory = 1 /\ op[o].chain = 1
        /\ \A j \in DOMAIN InventoriesOf(o) :
              j < op[o].inventory => Drained(InventoriesOf(o)[j])
        /\ \A j \in DOMAIN op[o].chains :
              j < op[o].chain => op[o].chains[j] \in op[o].stopped \/ Cleared(op[o].chains[j])
PassInv == BudgetInv /\ \A o \in Purges : Passed(o)
-----------------------------------------------------------------------------
(* Sums over finite sets                                                    *)

\* Adding is the fold that MapThenSumSet is.
Added(g, x, sum) == g[x] + sum
IsNumber(g, done, sum) == sum \in Int
Adding == INSTANCE FiniteFolds WITH Op <- Added, Holds <- IsNumber

\* What holds of a set whenever it holds of the set without any one of its
\* elements holds of every finite set.
LEMMA Induction ==
    ASSUME NEW S, IsFiniteSet(S), NEW G \in SUBSET SUBSET S,
           \A T \in SUBSET S : (\A x \in T : T \ {x} \in G) => T \in G
    PROVE  G = SUBSET S
BY Adding!Induction DEF IsFiniteSet, Adding!IsFiniteSet

Pick(s) == CHOOSE x \in s : TRUE

LEMMA PickIn == ASSUME NEW s, s # {} PROVE Pick(s) \in s
BY DEF Pick

\* What MapThenSumSet builds, as a function of the subsets of S.
Sums(S, g, t) ==
    t = [s \in SUBSET S |-> IF s = {} THEN 0 ELSE g[Pick(s)] + t[s \ {Pick(s)}]]

\* Induction along the elements that Pick chooses.
LEMMA PickInduction ==
    ASSUME NEW S, IsFiniteSet(S), NEW G \in SUBSET SUBSET S, {} \in G,
           \A s \in SUBSET S : s # {} /\ s \ {Pick(s)} \in G => s \in G
    PROVE  G = SUBSET S
<1>1. ASSUME NEW T \in SUBSET S, \A x \in T : T \ {x} \in G PROVE T \in G
  BY <1>1, PickIn
<1>2. QED
  BY <1>1, Induction

LEMMA SumInt ==
    ASSUME NEW S, IsFiniteSet(S), NEW g \in [S -> Int], NEW t, Sums(S, g, t), NEW T \in SUBSET S
    PROVE  t[T] \in Int
<1> DEFINE G == {s \in SUBSET S : t[s] \in Int}
<1>1. {} \in G
  BY DEF Sums
<1>2. ASSUME NEW s \in SUBSET S, s # {}, s \ {Pick(s)} \in G PROVE s \in G
  <2>1. g[Pick(s)] \in Int /\ t[s \ {Pick(s)}] \in Int
    BY <1>2, PickIn
  <2>2. t[s] = g[Pick(s)] + t[s \ {Pick(s)}]
    BY <1>2, <2>1 DEF Sums
  <2>3. QED
    BY <2>1, <2>2
<1>3. G = SUBSET S
  <2>1. G \in SUBSET SUBSET S
    OBVIOUS
  <2> HIDE DEF G
  <2>2. QED
    BY <1>1, <1>2, <2>1, PickInduction
<1>4. QED
  BY <1>3

LEMMA SumNat ==
    ASSUME NEW S, IsFiniteSet(S), NEW g \in [S -> Nat], NEW t, Sums(S, g, t), NEW T \in SUBSET S
    PROVE  t[T] \in Nat
<1> DEFINE G == {s \in SUBSET S : t[s] \in Nat}
<1>1. {} \in G
  BY DEF Sums
<1>2. ASSUME NEW s \in SUBSET S, s # {}, s \ {Pick(s)} \in G PROVE s \in G
  <2>1. g[Pick(s)] \in Nat /\ t[s \ {Pick(s)}] \in Nat
    BY <1>2, PickIn
  <2>2. t[s] = g[Pick(s)] + t[s \ {Pick(s)}]
    BY <1>2, <2>1 DEF Sums
  <2>3. QED
    BY <2>1, <2>2
<1>3. G = SUBSET S
  <2>1. G \in SUBSET SUBSET S
    OBVIOUS
  <2> HIDE DEF G
  <2>2. QED
    BY <1>1, <1>2, <2>1, PickInduction
<1>4. QED
  BY <1>3

\* A sum follows the one value that changes.
SameBut(S, p, g, h) == \A x \in S \ {p} : h[x] = g[x]

LEMMA SumChange ==
    ASSUME NEW S, IsFiniteSet(S), NEW g \in [S -> Int], NEW p \in S, NEW h \in [S -> Int],
           SameBut(S, p, g, h),
           NEW t, NEW u, Sums(S, g, t), Sums(S, h, u)
    PROVE  u[S] = t[S] - g[p] + h[p]
<1> DEFINE G == {s \in SUBSET S : u[s] = t[s] + (IF p \in s THEN h[p] - g[p] ELSE 0)}
<1>1. {} \in G
  BY DEF Sums
<1>2. ASSUME NEW s \in SUBSET S, s # {}, s \ {Pick(s)} \in G PROVE s \in G
  <2> DEFINE r == s \ {Pick(s)}
  <2>1. Pick(s) \in s /\ r \in SUBSET S
    BY <1>2, PickIn
  <2>3. t[r] \in Int /\ u[r] \in Int
    BY <2>1, SumInt
  <2>2. t[s] = g[Pick(s)] + t[r] /\ u[s] = h[Pick(s)] + u[r]
    BY <1>2, <2>1, <2>3 DEF Sums
  <2>4. u[r] = t[r] + (IF p \in r THEN h[p] - g[p] ELSE 0)
    BY <1>2
  <2>5. g[p] \in Int /\ h[p] \in Int /\ g[Pick(s)] \in Int /\ h[Pick(s)] \in Int
    BY <2>1
  <2>6. CASE Pick(s) = p
    BY <2>1, <2>2, <2>3, <2>4, <2>5, <2>6
  <2>7. CASE Pick(s) # p
    <3>1. h[Pick(s)] = g[Pick(s)] /\ (p \in s <=> p \in r)
      BY <2>1, <2>7 DEF SameBut
    <3>2. QED
      BY <2>2, <2>3, <2>4, <2>5, <3>1
  <2>8. QED
    BY <2>6, <2>7
<1>3. G = SUBSET S
  <2>1. G \in SUBSET SUBSET S
    OBVIOUS
  <2> HIDE DEF G
  <2>2. QED
    BY <1>1, <1>2, <2>1, PickInduction
<1>4. t[S] \in Int /\ g[p] \in Int /\ h[p] \in Int
  BY SumInt
<1>5. QED
  BY <1>3, <1>4

LEMMA SumExists ==
    ASSUME NEW S, IsFiniteSet(S), NEW g
    PROVE  \E t : Sums(S, g, t)
<1>1. \E t : Adding!Folded(g, 0, S, t)
  BY Adding!FoldExists DEF IsFiniteSet, Adding!IsFiniteSet
<1>2. QED
  BY <1>1 DEF Sums, Pick, Adding!Folded, Adding!Pick, Added

-----------------------------------------------------------------------------
(* Sequences and counts                                                     *)

LEMMA Limits ==
    /\ MaximumItemsPerTick \in Nat \ {0} /\ ChainCapacity \in Nat \ {0} /\ BufferCapacity \in Nat \ {0}
    /\ IsFiniteSet(Places) /\ IsFiniteSet(Chains) /\ IsFiniteSet(Inventories)
    /\ Chains \cap Inventories = {} /\ Machines \cap Attachments = {}
    /\ Places = Chains \cup Inventories /\ Inventories = Machines \cup Attachments
    /\ None \notin Places /\ None \notin Purges /\ None # "complete"
<1>1. Chains \in SUBSET Places /\ Inventories \in SUBSET Places
  BY DEF Places
<1>2. IsFiniteSet(Chains) /\ IsFiniteSet(Inventories)
  BY <1>1, PurgeAssumption, FS_Subset DEF PurgeAssumption
<1>3. QED
  BY <1>2, PurgeAssumption, NoneAssumption DEF PurgeAssumption, NoneAssumption, Places, Inventories

LEMMA ToSetTail ==
    ASSUME NEW S, NEW q \in Seq(S), q # <<>>
    PROVE  /\ Head(q) \in S /\ Tail(q) \in Seq(S)
           /\ ToSet(q) = {Head(q)} \cup ToSet(Tail(q))
<1>1. /\ Head(q) \in S /\ Tail(q) \in Seq(S) /\ Len(q) \in Nat /\ Len(q) > 0
      /\ Len(Tail(q)) = Len(q) - 1 /\ Head(q) = q[1]
      /\ \A i \in 1 .. Len(q) - 1 : Tail(q)[i] = q[i + 1]
  OBVIOUS
<1>2. ASSUME NEW i \in 1 .. Len(q), i # 1 PROVE i - 1 \in 1 .. Len(q) - 1 /\ Tail(q)[i - 1] = q[i]
  BY <1>1, <1>2
<1>3. QED
  BY <1>1, <1>2 DEF ToSet

LEMMA ToSetAppend ==
    ASSUME NEW S, NEW q \in Seq(S), NEW e \in S
    PROVE  /\ Append(q, e) \in Seq(S) /\ ToSet(Append(q, e)) = ToSet(q) \cup {e}
           /\ IsInjective(q) /\ e \notin ToSet(q) => IsInjective(Append(q, e))
<1>1. /\ Append(q, e) \in Seq(S) /\ Len(Append(q, e)) = Len(q) + 1 /\ Len(q) \in Nat
      /\ Append(q, e)[Len(q) + 1] = e /\ \A i \in 1 .. Len(q) : Append(q, e)[i] = q[i]
      /\ DOMAIN q = 1 .. Len(q) /\ DOMAIN Append(q, e) = 1 .. Len(q) + 1
  OBVIOUS
<1>2. \A i \in 1 .. Len(q) + 1 : i \in 1 .. Len(q) \/ i = Len(q) + 1
  BY <1>1
<1>3. QED
  BY <1>1, <1>2 DEF ToSet, IsInjective

LEMMA ToSetConcat ==
    ASSUME NEW S, NEW q \in Seq(S), NEW r \in Seq(S)
    PROVE  /\ q \o r \in Seq(S) /\ ToSet(q \o r) = ToSet(q) \cup ToSet(r)
           /\ IsInjective(q) /\ IsInjective(r) /\ ToSet(q) \cap ToSet(r) = {} => IsInjective(q \o r)
<1>1. /\ q \o r \in Seq(S) /\ Len(q) \in Nat /\ Len(r) \in Nat /\ Len(q \o r) = Len(q) + Len(r)
      /\ \A i \in 1 .. Len(q) : (q \o r)[i] = q[i]
      /\ \A i \in 1 .. Len(r) : (q \o r)[Len(q) + i] = r[i]
      /\ DOMAIN q = 1 .. Len(q) /\ DOMAIN r = 1 .. Len(r) /\ DOMAIN (q \o r) = 1 .. Len(q) + Len(r)
  OBVIOUS
<1>2. \A i \in 1 .. Len(q) + Len(r) :
         i \in 1 .. Len(q) \/ (i - Len(q) \in 1 .. Len(r) /\ i = Len(q) + (i - Len(q)))
  BY <1>1
<1>3. \A i \in 1 .. Len(r) : Len(q) + i \in 1 .. Len(q) + Len(r)
  BY <1>1
<1>4. ToSet(q \o r) = ToSet(q) \cup ToSet(r)
  <2>1. ASSUME NEW i \in 1 .. Len(q) + Len(r) PROVE (q \o r)[i] \in ToSet(q) \cup ToSet(r)
    <3>1. CASE i \in 1 .. Len(q)
      BY <1>1, <3>1 DEF ToSet
    <3>2. CASE i - Len(q) \in 1 .. Len(r) /\ i = Len(q) + (i - Len(q))
      <4>1. (q \o r)[i] = r[i - Len(q)]
        BY <1>1, <3>2
      <4>2. QED
        BY <1>1, <3>2, <4>1 DEF ToSet
    <3>3. QED
      BY <1>2, <3>1, <3>2
  <2>2. ASSUME NEW i \in 1 .. Len(q) PROVE q[i] \in ToSet(q \o r)
    <3>1. i \in 1 .. Len(q) + Len(r) /\ q[i] = (q \o r)[i]
      BY <1>1
    <3>2. QED
      BY <1>1, <3>1 DEF ToSet
  <2>3. ASSUME NEW i \in 1 .. Len(r) PROVE r[i] \in ToSet(q \o r)
    <3>1. Len(q) + i \in 1 .. Len(q) + Len(r) /\ r[i] = (q \o r)[Len(q) + i]
      BY <1>1, <1>3
    <3>2. QED
      BY <1>1, <3>1 DEF ToSet
  <2>4. QED
    BY <1>1, <2>1, <2>2, <2>3 DEF ToSet
<1>5. ASSUME IsInjective(q), IsInjective(r), ToSet(q) \cap ToSet(r) = {},
             NEW i \in 1 .. Len(q) + Len(r), NEW j \in 1 .. Len(q) + Len(r), (q \o r)[i] = (q \o r)[j]
      PROVE  i = j
  <2>1. CASE i \in 1 .. Len(q) /\ j \in 1 .. Len(q)
    BY <1>1, <1>5, <2>1 DEF IsInjective
  <2>2. CASE i \in 1 .. Len(q) /\ j \notin 1 .. Len(q)
    <3>1. j - Len(q) \in 1 .. Len(r) /\ (q \o r)[j] = r[j - Len(q)]
      BY <1>1, <1>2, <2>2
    <3>2. (q \o r)[i] \in ToSet(q) /\ (q \o r)[j] \in ToSet(r)
      BY <1>1, <2>2, <3>1 DEF ToSet
    <3>3. QED
      BY <1>5, <3>2
  <2>3. CASE i \notin 1 .. Len(q) /\ j \in 1 .. Len(q)
    <3>1. i - Len(q) \in 1 .. Len(r) /\ (q \o r)[i] = r[i - Len(q)]
      BY <1>1, <1>2, <2>3
    <3>2. (q \o r)[j] \in ToSet(q) /\ (q \o r)[i] \in ToSet(r)
      BY <1>1, <2>3, <3>1 DEF ToSet
    <3>3. QED
      BY <1>5, <3>2
  <2>4. CASE i \notin 1 .. Len(q) /\ j \notin 1 .. Len(q)
    <3>1. /\ i - Len(q) \in 1 .. Len(r) /\ (q \o r)[i] = r[i - Len(q)]
          /\ j - Len(q) \in 1 .. Len(r) /\ (q \o r)[j] = r[j - Len(q)]
      BY <1>1, <1>2, <2>4
    <3>2. i - Len(q) = j - Len(q)
      BY <1>1, <1>5, <3>1 DEF IsInjective
    <3>3. QED
      BY <1>1, <3>2
  <2>5. QED
    BY <2>1, <2>2, <2>3, <2>4
<1>6. QED
  BY <1>1, <1>4, <1>5 DEF IsInjective

LEMMA SetToSeqFacts ==
    ASSUME NEW S, IsFiniteSet(S)
    PROVE  SetToSeq(S) \in Seq(S) /\ ToSet(SetToSeq(S)) = S
<1> DEFINE n == Cardinality(S)
<1>1. n \in Nat /\ ExistsBijection(1 .. n, S)
  BY FS_CardinalityType
<1>2. PICK f \in [1 .. n -> S] : IsInjective(f)
  BY <1>1 DEF ExistsBijection, Bijection, Injection
<1>3. SetToSeq(S) \in [1 .. n -> S] /\ IsInjective(SetToSeq(S))
  BY <1>2 DEF SetToSeq
<1>4. SetToSeq(S) \in Injection(1 .. n, S)
  BY <1>3 DEF Injection
<1>5. IsFiniteSet(1 .. n) /\ Cardinality(1 .. n) = n
  BY <1>1, FS_Interval
<1>6. SetToSeq(S) \in Surjection(1 .. n, S)
  BY <1>4, <1>5, FS_Injection
<1>7. \A e \in S : \E i \in 1 .. n : SetToSeq(S)[i] = e
  BY <1>6 DEF Surjection
<1>8. SetToSeq(S) \in Seq(S) /\ DOMAIN SetToSeq(S) = 1 .. n
  BY <1>1, <1>3
<1>9. ToSet(SetToSeq(S)) = S
  <2>1. \A i \in 1 .. n : SetToSeq(S)[i] \in S
    BY <1>3
  <2>2. QED
    BY <1>7, <1>8, <2>1 DEF ToSet
<1>10. QED
  BY <1>8, <1>9

LEMMA MinOf ==
    ASSUME NEW a \in Int, NEW b \in Int
    PROVE  Min({a, b}) = IF a <= b THEN a ELSE b
<1>1. \E x \in {a, b} : \A y \in {a, b} : x <= y
  OBVIOUS
<1>2. Min({a, b}) \in {a, b} /\ \A y \in {a, b} : Min({a, b}) <= y
  BY <1>1 DEF Min
<1>3. QED
  BY <1>2

LEMMA MaxOf ==
    ASSUME NEW n \in Nat
    PROVE  Max({1, n}) = IF n = 0 THEN 1 ELSE n
<1>1. \E x \in {1, n} : \A y \in {1, n} : x >= y
  OBVIOUS
<1>2. Max({1, n}) \in {1, n} /\ \A y \in {1, n} : Max({1, n}) >= y
  BY <1>1 DEF Max
<1>3. QED
  BY <1>2

LEMMA MaxExists ==
    ASSUME NEW n \in Nat, NEW S \in SUBSET (0 .. n), 0 \in S
    PROVE  Max(S) \in S /\ \A y \in S : Max(S) >= y
<1> DEFINE G == {T \in SUBSET S : T = {} \/ \E x \in T : \A y \in T : x >= y}
<1>1. IsFiniteSet(S)
  <2>1. 0 \in Int /\ n \in Int
    OBVIOUS
  <2>2. IsFiniteSet(0 .. n)
    BY <2>1, FS_Interval
  <2>3. QED
    BY <2>2, FS_Subset
<1>2. ASSUME NEW T \in SUBSET S, \A x \in T : T \ {x} \in G PROVE T \in G
  <2>1. ASSUME NEW z \in T PROVE \E x \in T : \A y \in T : x >= y
    <3>1. CASE T \ {z} = {}
      BY <3>1
    <3>2. CASE T \ {z} # {}
      <4>1. PICK x \in T \ {z} : \A y \in T \ {z} : x >= y
        BY <1>2, <2>1, <3>2
      <4>2. x \in Int /\ z \in Int /\ T \subseteq Int
        OBVIOUS
      <4>3. CASE x >= z
        BY <4>1, <4>2, <4>3
      <4>4. CASE ~(x >= z)
        BY <4>1, <4>2, <4>4
      <4>5. QED
        BY <4>3, <4>4
    <3>3. QED
      BY <3>1, <3>2
  <2>2. QED
    BY <2>1
<1>3. G = SUBSET S
  <2>1. G \in SUBSET SUBSET S
    OBVIOUS
  <2> HIDE DEF G
  <2>2. QED
    BY <1>1, <1>2, <2>1, Induction
<1>4. \E x \in S : \A y \in S : x >= y
  BY <1>3
<1>5. QED
  BY <1>4 DEF Max

-----------------------------------------------------------------------------
(* The items of a place                                                     *)

LEMMA EligibleOf ==
    ASSUME NEW q \in Seq(Kinds)
    PROVE  /\ Eligible(q) \in 0 .. Len(q)
           /\ \A k \in 1 .. Eligible(q) : q[k] = "sinkable"
<1> DEFINE S == {n \in 0 .. Len(q) : \A k \in 1 .. n : q[k] = "sinkable"}
<1>1. Len(q) \in Nat
  OBVIOUS
<1>2. S \in SUBSET (0 .. Len(q)) /\ 0 \in S
  BY <1>1
<1>3. Max(S) \in S
  <2> HIDE DEF S
  <2>1. QED
    BY <1>1, <1>2, MaxExists
<1>4. QED
  BY <1>3 DEF Eligible

LEMMA EligibleOfNone == Eligible(<<>>) = 0
<1>1. <<>> \in Seq(Kinds) /\ Len(<<>>) = 0
  OBVIOUS
<1>2. Eligible(<<>>) \in 0 .. Len(<<>>)
  BY <1>1, EligibleOf
<1>3. QED
  BY <1>1, <1>2

LEMMA CountNat ==
    ASSUME NEW q \in Seq(Kinds), NEW kind \in Kinds
    PROVE  /\ Count(q, kind) \in Nat
           /\ IsFiniteSet({k \in DOMAIN q : q[k] = kind})
<1>1. Len(q) \in Nat /\ DOMAIN q = 1 .. Len(q)
  OBVIOUS
<1>2. IsFiniteSet(DOMAIN q)
  <2>1. 1 \in Int /\ Len(q) \in Int
    BY <1>1
  <2>2. QED
    BY <1>1, <2>1, FS_Interval
<1>3. {k \in DOMAIN q : q[k] = kind} \in SUBSET DOMAIN q
  OBVIOUS
<1>4. IsFiniteSet({k \in DOMAIN q : q[k] = kind})
  BY <1>2, <1>3, FS_Subset
<1>5. QED
  BY <1>4, FS_CardinalityType DEF Count

\* Removing the first items of a chain, all of them sinkable.
LEMMA CountDropped ==
    ASSUME NEW q \in Seq(Kinds), NEW n \in 0 .. Len(q), \A k \in 1 .. n : q[k] = "sinkable"
    PROVE  LET r == SubSeq(q, n + 1, Len(q)) IN
           /\ r \in Seq(Kinds)
           /\ n = Len(q) => r = <<>>
           /\ Count(r, "sinkable") = Count(q, "sinkable") - n
           /\ Count(r, "protected") = Count(q, "protected")
<1> DEFINE r == SubSeq(q, n + 1, Len(q))
           At(s, kind) == {k \in DOMAIN s : s[k] = kind}
<1>1. /\ r \in Seq(Kinds) /\ Len(q) \in Nat /\ n \in Nat /\ Len(r) = Len(q) - n
      /\ \A i \in 1 .. Len(q) - n : r[i] = q[n + i]
      /\ DOMAIN q = 1 .. Len(q) /\ DOMAIN r = 1 .. Len(q) - n
  OBVIOUS
<1>2. "sinkable" \in Kinds /\ "protected" \in Kinds
  BY DEF Kinds
<1> HIDE DEF r
<1>3. ASSUME NEW kind \in Kinds
      PROVE  Cardinality(At(r, kind)) = Cardinality(At(q, kind)) - Cardinality(At(q, kind) \cap (1 .. n))
  <2> DEFINE Q == At(q, kind)
             R == At(r, kind)
             f == [i \in R |-> n + i]
  <2>1. IsFiniteSet(Q) /\ IsFiniteSet(R)
    BY <1>1, CountNat
  <2>2. f \in [R -> Q \ (1 .. n)]
    BY <1>1
  <2>3. IsInjective(f)
    <3>1. \A i, j \in R : n + i = n + j => i = j
      BY <1>1
    <3>2. QED
      BY <3>1 DEF IsInjective
  <2>4. ASSUME NEW k \in Q \ (1 .. n) PROVE \E i \in R : f[i] = k
    <3>1. k - n \in 1 .. Len(q) - n /\ n + (k - n) = k
      BY <1>1
    <3>2. k - n \in R
      BY <1>1, <3>1
    <3>3. QED
      BY <3>1, <3>2
  <2>5. f \in Bijection(R, Q \ (1 .. n))
    <3> HIDE DEF f, Q, R
    <3>1. QED
      BY <2>2, <2>3, <2>4 DEF Bijection, Injection, Surjection
  <2>6. Cardinality(Q \ (1 .. n)) = Cardinality(R)
    <3> HIDE DEF f, Q, R
    <3>1. ExistsBijection(R, Q \ (1 .. n))
      BY <2>5 DEF ExistsBijection
    <3>2. QED
      BY <2>1, <3>1, FS_Bijection
  <2>7. Cardinality(Q \ (1 .. n)) = Cardinality(Q) - Cardinality(Q \cap (1 .. n))
    <3> HIDE DEF f, Q, R
    <3>1. QED
      BY <2>1, FS_Difference
  <2>8. QED
    BY <2>6, <2>7
<1>4. At(q, "sinkable") \cap (1 .. n) = 1 .. n /\ At(q, "protected") \cap (1 .. n) = {}
  BY <1>1
<1>5. Cardinality(1 .. n) = n /\ Cardinality({}) = 0
  <2>1. 1 \in Int /\ n \in Int
    BY <1>1
  <2>2. Cardinality(1 .. n) = IF 1 > n THEN 0 ELSE n - 1 + 1
    BY <2>1, FS_Interval
  <2>3. QED
    BY <1>1, <2>2, FS_EmptySet
<1>6. Cardinality(At(q, "sinkable")) \in Nat /\ Cardinality(At(q, "protected")) \in Nat
  BY <1>2, CountNat DEF Count
<1>7. /\ Cardinality(At(r, "sinkable")) = Cardinality(At(q, "sinkable")) - n
      /\ Cardinality(At(r, "protected")) = Cardinality(At(q, "protected"))
  <2>1. Cardinality(At(r, "sinkable")) = Cardinality(At(q, "sinkable")) - Cardinality(1 .. n)
    BY <1>2, <1>3, <1>4
  <2>2. Cardinality(At(r, "protected")) = Cardinality(At(q, "protected")) - Cardinality({})
    BY <1>2, <1>3, <1>4
  <2> HIDE DEF At
  <2>3. QED
    BY <1>1, <1>5, <1>6, <2>1, <2>2
<1>8. n = Len(q) => r = <<>>
  BY <1>1
<1>9. QED
  BY <1>1, <1>7, <1>8 DEF Count, r

LEMMA WiringOK ==
    ASSUME FactoryOK
    PROVE  /\ wire.In \in [Chains -> Places \cup {None}] /\ wire.Out \in [Chains -> Places \cup {None}]
           /\ \A c, d \in Chains : wire.Out[c] = d <=> wire.In[d] = c
BY PurgeAssumption DEF PurgeAssumption, FactoryOK, Wired

LEMMA ItemsInOK ==
    ASSUME FactoryOK, NEW p \in Places PROVE ItemsIn(p) \in Nat
<1>1. CASE p \in Chains
  BY <1>1 DEF FactoryOK, ItemsIn
<1>2. CASE p \notin Chains
  <2>1. buffer[p] \in [Kinds -> Nat]
    BY <1>2 DEF FactoryOK, Places
  <2>2. "sinkable" \in Kinds /\ "protected" \in Kinds
    BY DEF Kinds
  <2>3. buffer[p]["sinkable"] \in Nat /\ buffer[p]["protected"] \in Nat
    BY <2>1, <2>2
  <2>4. QED
    BY <1>2, <2>3 DEF ItemsIn, Size
<1>3. QED
  BY <1>1, <1>2

LEMMA InitialNat ==
    ASSUME FactoryOK, NEW S \in SUBSET Places
    PROVE  MapThenSumSet(ItemsIn, S) \in Nat
<1> DEFINE g == [p \in S |-> ItemsIn(p)]
<1>1. g \in [S -> Nat] /\ g \in [S -> Int] /\ IsFiniteSet(S)
  BY ItemsInOK, Limits, FS_Subset
<1>2. \E t : Sums(S, g, t)
  <2> HIDE DEF g
  <2>1. QED
    BY <1>1, SumExists
<1>3. \A t : Sums(S, g, t) <=>
          t = [s \in SUBSET S |-> IF s = {} THEN 0 ELSE ItemsIn(Pick(s)) + t[s \ {Pick(s)}]]
  <2>1. \A s \in SUBSET S : s # {} => g[Pick(s)] = ItemsIn(Pick(s))
    BY PickIn
  <2> HIDE DEF g
  <2>2. QED
    BY <2>1 DEF Sums
<1>4. \E t : Sums(S, g, t) /\ MapThenSumSet(ItemsIn, S) = t[S]
  <2> DEFINE t == CHOOSE t : t = [s \in SUBSET S |->
                      IF s = {} THEN 0 ELSE ItemsIn(Pick(s)) + t[s \ {Pick(s)}]]
  <2>1. MapThenSumSet(ItemsIn, S) = t[S]
    BY DEF MapThenSumSet, MapThenFoldSet, Pick
  <2>2. t = [s \in SUBSET S |-> IF s = {} THEN 0 ELSE ItemsIn(Pick(s)) + t[s \ {Pick(s)}]]
    <3> HIDE DEF g
    <3>1. QED
      BY <1>2, <1>3
  <2> HIDE DEF t, g
  <2>3. Sums(S, g, t)
    BY <1>3, <2>2
  <2>4. QED
    BY <2>1, <2>3
<1>5. QED
  <2> HIDE DEF g
  <2>1. QED
    BY <1>1, <1>4, SumNat

-----------------------------------------------------------------------------
(* Budgets                                                                  *)

LEMMA InitBudget == ASSUME Init PROVE BudgetInv
<1>1. FactoryOK
  <2>1. belt \in [Chains -> Seq(Kinds)]
    <3>1. \A n \in 0 .. ChainCapacity : [1 .. n -> Kinds] \subseteq Seq(Kinds)
      BY Limits
    <3>2. QED
      BY <3>1 DEF Init
  <2>2. buffer \in [Inventories -> [Kinds -> Nat]]
    BY Limits DEF Init
  <2>3. QED
    BY <2>1, <2>2 DEF Init, FactoryOK
<1>2. \A o \in Purges : op[o] \in Operations /\ OperationOK(op[o], FALSE)
  <2>1. <<>> \in Seq(Places) /\ <<>> \in Seq(Chains) /\ <<>> \in Seq(Machines) /\ <<>> \in Seq(Attachments)
        /\ IsInjective(<<>>)
    BY DEF IsInjective
  <2>2. QED
    BY <2>1, Limits DEF Init, Operations, OperationOK, Positions, SetsOfChains
<1>3. op \in [Purges -> Operations] /\ active = None
  BY <1>2 DEF Init
<1>4. QED
  BY <1>1, <1>2, <1>3, Limits DEF BudgetInv, TypesOK

LEMMA OneOperation ==
    ASSUME BudgetInv, NEW o \in Purges, NEW q \in Operations, op' = [op EXCEPT ![o] = q],
           FactoryOK', active \in {o, None}, active' \in {o, None}, OperationOK(q, active' = o)
    PROVE  BudgetInv'
<1>1. op' \in [Purges -> Operations] /\ op'[o] = q /\ \A p \in Purges \ {o} : op'[p] = op[p]
  BY DEF BudgetInv, TypesOK
<1>2. ASSUME NEW p \in Purges \ {o} PROVE OperationOK(op'[p], active' = p)
  <2>1. active # p /\ active' # p
    BY Limits
  <2>2. OperationOK(op[p], FALSE)
    BY <2>1 DEF BudgetInv
  <2>3. QED
    BY <1>1, <2>1, <2>2
<1>3. \A p \in Purges : OperationOK(op'[p], active' = p)
  BY <1>1, <1>2
<1>4. QED
  BY <1>1, <1>3 DEF BudgetInv, TypesOK

LEMMA FactoryOnly ==
    ASSUME BudgetInv, UNCHANGED <<op, active>>, FactoryOK' PROVE BudgetInv'
BY DEF BudgetInv, TypesOK

LEMMA FactoryKept ==
    ASSUME BudgetInv, UNCHANGED <<wire, factoryVars>> PROVE FactoryOK'
BY DEF BudgetInv, TypesOK, FactoryOK, factoryVars

LEMMA RequestPurgeBudget ==
    ASSUME BudgetInv, NEW o \in Purges, RequestPurge(o) PROVE BudgetInv'
<1>1. PICK t \in (Chains \cup Attachments) \cap alive :
         op' = [op EXCEPT ![o].phase = "gathering", ![o].start = t, ![o].pending = <<t>>]
  BY DEF RequestPurge
<1> DEFINE q == [op[o] EXCEPT !.phase = "gathering", !.start = t, !.pending = <<t>>]
<1>2. op[o] \in Operations /\ OperationOK(op[o], FALSE) /\ op[o].phase = "none"
  BY Limits DEF RequestPurge, BudgetInv, TypesOK
<1>3. t \in Places /\ <<t>> \in Seq(Places)
  BY Limits
<1>4. q \in Operations
  BY <1>2, <1>3 DEF Operations
<1>5. OperationOK(q, TRUE)
  BY <1>2 DEF OperationOK, Operations
<1>6. op' = [op EXCEPT ![o] = q]
  BY <1>1 DEF BudgetInv, TypesOK, Operations
<1>7. active = None /\ active' = o /\ FactoryOK'
  BY FactoryKept DEF RequestPurge
<1> HIDE DEF q
<1>8. OperationOK(q, active' = o)
  BY <1>5, <1>7
<1>9. QED
  BY <1>4, <1>6, <1>7, <1>8, OneOperation

LEMMA NeighboursOK ==
    ASSUME FactoryOK, NEW n \in Chains \cup Attachments
    PROVE  /\ Neighbours(n) \in Seq(Places)
           /\ ToSet(Neighbours(n)) \subseteq alive
           /\ \A b \in alive : b \in ToSet(Neighbours(n)) <=> Connected(n, b)
<1>1. CASE n \in Chains
  <2> DEFINE A == ({wire.In[n]} \cap alive) \ Machines
             B == {wire.Out[n]} \cap alive
  <2>1. IsFiniteSet(A) /\ IsFiniteSet(B) /\ A \subseteq Places /\ B \subseteq Places
    <3>1. alive \subseteq Places
      BY DEF FactoryOK
    <3>2. A \in SUBSET Places /\ B \in SUBSET Places
      BY <3>1
    <3>3. QED
      BY <3>2, Limits, FS_Subset
  <2>2. /\ SetToSeq(A) \in Seq(A) /\ ToSet(SetToSeq(A)) = A
        /\ SetToSeq(B) \in Seq(B) /\ ToSet(SetToSeq(B)) = B
    <3> HIDE DEF A, B
    <3>1. QED
      BY <2>1, SetToSeqFacts
  <2>3. SetToSeq(A) \in Seq(Places) /\ SetToSeq(B) \in Seq(Places)
    <3> HIDE DEF A, B
    <3>1. QED
      BY <2>1, <2>2
  <2>4. Neighbours(n) = SetToSeq(A) \o SetToSeq(B)
    BY <1>1 DEF Neighbours
  <2>5. Neighbours(n) \in Seq(Places) /\ ToSet(Neighbours(n)) = A \cup B
    <3> HIDE DEF A, B
    <3>1. QED
      BY <2>2, <2>3, <2>4, ToSetConcat
  <2>6. ASSUME NEW b \in alive PROVE b \in A \cup B <=> Connected(n, b)
    <3>1. n \notin Machines
      BY <1>1, Limits
    <3>2. b \in Chains => b \notin Machines
      BY Limits
    <3>3. b \in Chains => (wire.Out[b] = n <=> wire.In[n] = b) /\ (wire.In[b] = n <=> wire.Out[n] = b)
      BY <1>1, WiringOK
    <3>4. QED
      BY <1>1, <3>1, <3>2, <3>3 DEF Connected
  <2>7. QED
    BY <2>5, <2>6
<1>2. CASE n \in Attachments
  <2> DEFINE A == {c \in Chains \cap alive : wire.In[c] = n \/ wire.Out[c] = n}
  <2>1. n \notin Chains /\ n \notin Machines
    BY <1>2, Limits
  <2>2. IsFiniteSet(A)
    <3>1. A \in SUBSET Chains
      OBVIOUS
    <3>2. QED
      BY <3>1, Limits, FS_Subset
  <2>3. SetToSeq(A) \in Seq(A) /\ ToSet(SetToSeq(A)) = A
    <3> HIDE DEF A
    <3>1. QED
      BY <2>2, SetToSeqFacts
  <2>4. A \subseteq Places
    BY Limits
  <2>5. SetToSeq(A) \in Seq(Places)
    <3> HIDE DEF A
    <3>1. QED
      BY <2>3, <2>4
  <2>6. Neighbours(n) = SetToSeq(A)
    BY <2>1 DEF Neighbours
  <2>7. \A b \in alive : b \in A <=> Connected(n, b)
    BY <2>1 DEF Connected
  <2>8. QED
    BY <2>3, <2>5, <2>6, <2>7
<1>3. QED
  BY <1>1, <1>2


LEMMA GatherBudget ==
    ASSUME BudgetInv, NEW o \in Purges, Gather(o) PROVE BudgetInv'
<1> DEFINE p == op[o]
           n == Head(p.pending)
           rest == Tail(p.pending)
<1>1. p \in Operations /\ OperationOK(p, TRUE) /\ FactoryOK /\ p.phase = "gathering" /\ p.pending # <<>>
  BY DEF Gather, BudgetInv, TypesOK
<1>2. /\ p.pending \in Seq(Places) /\ p.chains \in Seq(Chains)
      /\ p.machines \in Seq(Machines) /\ p.attachments \in Seq(Attachments)
  BY <1>1 DEF Operations
<1>3. n \in Places /\ rest \in Seq(Places)
  BY <1>1, <1>2, ToSetTail
<1>4. UNCHANGED <<wire, factoryVars>> /\ active = o /\ active' = o
  BY DEF Gather
<1>5. FactoryOK'
  BY <1>4, FactoryKept
<1>6. ASSUME NEW q \in Operations, op' = [op EXCEPT ![o] = q], OperationOK(q, TRUE) PROVE BudgetInv'
  <2>1. OperationOK(q, active' = o)
    BY <1>4, <1>6
  <2>2. QED
    BY <1>4, <1>5, <1>6, <2>1, OneOperation
<1>7. CASE n \in Gathered(o)
  <2> DEFINE q == [p EXCEPT !.pending = rest]
  <2>1. op' = [op EXCEPT ![o] = q]
    BY <1>1, <1>7 DEF Gather, BudgetInv, TypesOK
  <2>2. q \in Operations /\ OperationOK(q, TRUE)
    <3> HIDE DEF rest
    <3>1. QED
      BY <1>1, <1>3 DEF Operations, OperationOK
  <2>3. QED
    <3> HIDE DEF q
    <3>1. QED
      BY <1>6, <2>1, <2>2
<1>8. CASE n \in Chains \ Gathered(o)
  <2> DEFINE q == [p EXCEPT !.pending = Neighbours(n) \o rest, !.chains = Append(@, n)]
  <2>1. op' = [op EXCEPT ![o] = q]
    BY <1>1, <1>8, Limits DEF Gather, BudgetInv, TypesOK
  <2>2. Neighbours(n) \o rest \in Seq(Places)
    BY <1>1, <1>3, <1>8, NeighboursOK
  <2>3. Append(p.chains, n) \in Seq(Chains) /\ IsInjective(Append(p.chains, n))
    <3>1. n \notin ToSet(p.chains)
      BY <1>8 DEF Gathered
    <3>2. QED
      BY <1>1, <1>2, <1>8, <3>1, ToSetAppend DEF OperationOK
  <2>4. q \in Operations /\ OperationOK(q, TRUE)
    <3> HIDE DEF rest, n
    <3>1. QED
      BY <1>1, <2>2, <2>3 DEF Operations, OperationOK
  <2>5. QED
    <3> HIDE DEF q
    <3>1. QED
      BY <1>6, <2>1, <2>4
<1>9. CASE n \in Attachments \ Gathered(o)
  <2> DEFINE q == [p EXCEPT !.pending = Neighbours(n) \o rest, !.attachments = Append(@, n)]
  <2>1. n \notin Chains
    BY <1>9, Limits
  <2>2. op' = [op EXCEPT ![o] = q]
    BY <1>1, <1>9, <2>1, Limits DEF Gather, BudgetInv, TypesOK
  <2>3. Neighbours(n) \o rest \in Seq(Places)
    BY <1>1, <1>3, <1>9, NeighboursOK
  <2>4. Append(p.attachments, n) \in Seq(Attachments) /\ IsInjective(Append(p.attachments, n))
    <3>1. n \notin ToSet(p.attachments)
      BY <1>9 DEF Gathered
    <3>2. QED
      BY <1>1, <1>2, <1>9, <3>1, ToSetAppend DEF OperationOK
  <2>5. q \in Operations /\ OperationOK(q, TRUE)
    <3> HIDE DEF rest, n
    <3>1. QED
      BY <1>1, <2>3, <2>4 DEF Operations, OperationOK
  <2>6. QED
    <3> HIDE DEF q
    <3>1. QED
      BY <1>6, <2>2, <2>5
<1>10. CASE n \notin Gathered(o) /\ n \notin Chains /\ n \notin Attachments
  <2> DEFINE q == [p EXCEPT !.pending = rest, !.machines = Append(@, n)]
  <2>1. n \in Machines
    BY <1>3, <1>10, Limits
  <2>2. op' = [op EXCEPT ![o] = q]
    BY <1>1, <1>10, Limits DEF Gather, BudgetInv, TypesOK
  <2>3. Append(p.machines, n) \in Seq(Machines) /\ IsInjective(Append(p.machines, n))
    <3>1. n \notin ToSet(p.machines)
      BY <1>10 DEF Gathered
    <3>2. QED
      BY <1>1, <1>2, <2>1, <3>1, ToSetAppend DEF OperationOK
  <2>4. q \in Operations /\ OperationOK(q, TRUE)
    <3> HIDE DEF rest, n
    <3>1. QED
      BY <1>1, <1>3, <2>3 DEF Operations, OperationOK, rest
  <2>5. QED
    <3> HIDE DEF q
    <3>1. QED
      BY <1>6, <2>2, <2>4
<1>11. QED
  BY <1>7, <1>8, <1>9, <1>10

\* What is gathered is a set of places.
LEMMA GatheredOK ==
    ASSUME BudgetInv, NEW o \in Purges
    PROVE  /\ Gathered(o) \in SUBSET Places
           /\ ToSet(op[o].chains) \subseteq Chains
           /\ ToSet(op[o].machines) \subseteq Machines
           /\ ToSet(op[o].attachments) \subseteq Attachments
           /\ InventoriesOf(o) \in Seq(Inventories)
           /\ ToSet(InventoriesOf(o)) = ToSet(op[o].machines) \cup ToSet(op[o].attachments)
<1>1. /\ op[o].chains \in Seq(Chains) /\ op[o].machines \in Seq(Machines)
      /\ op[o].attachments \in Seq(Attachments)
  BY DEF BudgetInv, TypesOK, Operations
<1>2. /\ ToSet(op[o].chains) \subseteq Chains /\ ToSet(op[o].machines) \subseteq Machines
      /\ ToSet(op[o].attachments) \subseteq Attachments
  BY <1>1 DEF ToSet
<1>3. Gathered(o) \in SUBSET Places
  BY <1>2, Limits DEF Gathered
<1>4. op[o].machines \in Seq(Inventories) /\ op[o].attachments \in Seq(Inventories)
  BY <1>1, Limits
<1>5. QED
  BY <1>2, <1>3, <1>4, ToSetConcat DEF InventoriesOf

LEMMA StartTickerBudget ==
    ASSUME BudgetInv, NEW o \in Purges, StartTicker(o) PROVE BudgetInv'
<1> DEFINE s == MapThenSumSet(ItemsIn, Gathered(o))
           q == [op[o] EXCEPT !.phase = "running", !.initial = s]
<1>1. op[o] \in Operations /\ OperationOK(op[o], TRUE) /\ op[o].phase = "gathering"
  BY DEF StartTicker, BudgetInv, TypesOK
<1>2. s \in Nat
  BY GatheredOK, InitialNat DEF BudgetInv, TypesOK
<1>3. op' = [op EXCEPT ![o] = q]
  BY DEF StartTicker, BudgetInv, TypesOK, Operations
<1> HIDE DEF s
<1>4. q \in Operations /\ OperationOK(q, FALSE)
  <2>1. q \in Operations
    BY <1>1, <1>2 DEF Operations
  <2>2. OperationOK(q, FALSE)
    BY <1>1, <1>2 DEF Operations, OperationOK
  <2>3. QED
    BY <2>1, <2>2
<1>5. active = o /\ active' = None /\ FactoryOK'
  BY FactoryKept DEF StartTicker
<1> HIDE DEF q
<1>6. OperationOK(q, active' = o)
  BY <1>4, <1>5, Limits
<1>7. QED
  BY <1>3, <1>4, <1>5, <1>6, OneOperation

\* An operation that ends, or that goes on.
LEMMA EndsBudget ==
    ASSUME BudgetInv, NEW o \in Purges, op[o].phase = "running", FactoryOK',
           active \in {o, None}, active' = None,
           NEW q \in Operations, OperationOK(q, TRUE), NEW result \in Results,
           op' = [op EXCEPT ![o] = Over(q, result)]
    PROVE  BudgetInv'
<1>1. Over(q, result) \in Operations /\ OperationOK(Over(q, result), FALSE)
  BY DEF Over, Operations, OperationOK
<1>2. OperationOK(Over(q, result), active' = o)
  BY <1>1, Limits
<1>3. QED
  BY <1>1, <1>2, OneOperation

LEMMA GoesOnBudget ==
    ASSUME BudgetInv, NEW o \in Purges, FactoryOK', active \in {o, None}, active' = o,
           NEW q \in Operations, OperationOK(q, TRUE), op' = [op EXCEPT ![o] = q]
    PROVE  BudgetInv'
<1>1. OperationOK(q, active' = o)
  OBVIOUS
<1>2. QED
  BY <1>1, OneOperation

LEMMA RunningOK ==
    ASSUME BudgetInv, NEW o \in Purges, op[o].phase = "running"
    PROVE  op[o] \in Operations /\ OperationOK(op[o], TRUE) /\ OperationOK(op[o], FALSE)
BY DEF BudgetInv, TypesOK, OperationOK

LEMMA BeginTickBudget ==
    ASSUME BudgetInv, NEW o \in Purges, BeginTick(o) PROVE BudgetInv'
<1>1. op[o] \in Operations /\ OperationOK(op[o], TRUE) /\ op[o].phase = "running"
  BY RunningOK DEF BeginTick
<1>2. active = None /\ FactoryOK'
  BY FactoryKept DEF BeginTick
<1>3. CASE world
  <2> DEFINE q == [op[o] EXCEPT !.work = 0]
  <2>1. q \in Operations /\ OperationOK(q, TRUE)
    <3>1. q \in Operations
      BY <1>1, Limits DEF Operations
    <3>2. OperationOK(q, TRUE)
      BY <1>1, Limits DEF Operations, OperationOK
    <3>3. QED
      BY <3>1, <3>2
  <2>2. op' = [op EXCEPT ![o] = q] /\ active' = o
    BY <1>3 DEF BeginTick, BudgetInv, TypesOK
  <2> HIDE DEF q
  <2>3. QED
    BY <1>2, <2>1, <2>2, GoesOnBudget
<1>4. CASE ~world
  <2>1. op' = [op EXCEPT ![o] = Over(op[o], "world became invalid")] /\ active' = None
    BY <1>4 DEF BeginTick, Finish
  <2>2. "world became invalid" \in Results
    BY DEF Results
  <2>3. QED
    BY <1>1, <1>2, <2>1, <2>2, EndsBudget
<1>5. QED
  BY <1>3, <1>4

LEMMA EndTickBudget ==
    ASSUME BudgetInv, NEW o \in Purges, EndTick(o) PROVE BudgetInv'
<1>1. op[o] \in Operations /\ OperationOK(op[o], FALSE) /\ op[o].phase = "running"
  BY RunningOK DEF EndTick
<1> DEFINE b == op[o].whole /\ op[o].inventory = 1 /\ op[o].chain = 1 /\ op[o].removedThisPass = 0
           q == [op[o] EXCEPT !.whole = b]
<1>2. op' = [op EXCEPT ![o] = q]
  BY DEF EndTick, BudgetInv, TypesOK
<1>3. b \in BOOLEAN
  BY <1>1 DEF Operations
<1> HIDE DEF b
<1>4. q \in Operations /\ OperationOK(q, FALSE)
  <2>1. q \in Operations
    BY <1>1, <1>3 DEF Operations
  <2>2. OperationOK(q, FALSE)
    BY <1>1, <1>3 DEF Operations, OperationOK
  <2>3. QED
    BY <2>1, <2>2
<1>5. active = o /\ active' = None /\ FactoryOK'
  BY FactoryKept DEF EndTick
<1> HIDE DEF q
<1>6. OperationOK(q, active' = o)
  BY <1>4, <1>5, Limits
<1>7. QED
  BY <1>2, <1>4, <1>5, <1>6, OneOperation

LEMMA EndsOnItsOwnBudget ==
    ASSUME BudgetInv, NEW o \in Purges, BudgetExhausted(o) \/ Complete(o) PROVE BudgetInv'
<1>1. op[o] \in Operations /\ OperationOK(op[o], TRUE) /\ op[o].phase = "running"
  BY RunningOK DEF BudgetExhausted, Complete, PassDone, Looping
<1>2. active = o /\ FactoryOK'
  BY FactoryKept DEF BudgetExhausted, Complete, PassDone, Looping
<1>3. \E result \in Results : op' = [op EXCEPT ![o] = Over(op[o], result)] /\ active' = None
  BY DEF BudgetExhausted, Complete, Finish, Results
<1>4. QED
  BY <1>1, <1>2, <1>3, EndsBudget

LEMMA SkipChainBudget ==
    ASSUME BudgetInv, NEW o \in Purges, SkipChain(o) PROVE BudgetInv'
<1> DEFINE c == Chain(o)
           q == [op[o] EXCEPT !.stopped = @ \cup {c}, !.chain = @ + 1, !.work = @ + 1]
<1>1. op[o] \in Operations /\ OperationOK(op[o], TRUE) /\ op[o].phase = "running"
  BY RunningOK DEF SkipChain, Looping
<1>2. active = o /\ active' = o /\ FactoryOK' /\ op[o].work < MaximumItemsPerTick
  BY FactoryKept DEF SkipChain, Looping
<1>3. op' = [op EXCEPT ![o] = q]
  BY DEF SkipChain, BudgetInv, TypesOK
<1>4. c \in Chains
  <2>1. op[o].chains \in Seq(Chains) /\ op[o].chain \in 1 .. Len(op[o].chains)
    BY <1>1 DEF SkipChain, InChains, Operations, Positions
  <2>2. QED
    BY <2>1 DEF Chain
<1> HIDE DEF c
<1>5. q \in Operations /\ OperationOK(q, TRUE)
  <2>1. q \in Operations
    <3> DEFINE t == [op[o] EXCEPT !.stopped = op[o].stopped \cup {c}]
               r == [t EXCEPT !.chain = op[o].chain + 1]
    <3>a. op[o].stopped \cup {c} \in SetsOfChains /\ op[o].chain + 1 \in Positions
      <4>1. op[o].stopped \in SetsOfChains /\ op[o].chain \in Positions
        BY <1>1 DEF Operations
      <4>2. QED
        BY <1>4, <4>1 DEF SetsOfChains, Positions
    <3>b. t \in Operations
      BY <1>1, <3>a DEF Operations
    <3>1. r \in Operations
      <4> HIDE DEF t
      <4>1. QED
        BY <3>a, <3>b DEF Operations
    <3>2. q = [r EXCEPT !.work = op[o].work + 1] /\ op[o].work + 1 \in Nat
      BY <1>1, <1>2, Limits DEF Operations
    <3> HIDE DEF r, q
    <3>3. QED
      BY <3>1, <3>2 DEF Operations
  <2>2. OperationOK(q, TRUE)
    BY <1>1, <1>2, <1>4, Limits DEF Operations, OperationOK
  <2>3. QED
    BY <2>1, <2>2
<1> HIDE DEF q
<1>6. QED
  BY <1>2, <1>3, <1>5, GoesOnBudget

LEMMA NextPassBudget ==
    ASSUME BudgetInv, NEW o \in Purges, NextPass(o) PROVE BudgetInv'
<1> DEFINE q == FromTheStart(op[o])
<1>1. op[o] \in Operations /\ OperationOK(op[o], TRUE) /\ op[o].phase = "running"
  BY RunningOK DEF NextPass, PassDone, Looping
<1>2. active = o /\ active' = o /\ FactoryOK' /\ op' = [op EXCEPT ![o] = q]
  BY FactoryKept DEF NextPass, PassDone, Looping
<1>3. q \in Operations /\ OperationOK(q, TRUE)
  <2>1. q \in Operations
    <3> DEFINE r == [op[o] EXCEPT !.removedThisPass = 0]
               s == [r EXCEPT !.inventory = 1]
               t == [s EXCEPT !.chain = 1]
    <3>1. r \in Operations
      BY <1>1 DEF Operations
    <3>a. 1 \in Positions
      BY DEF Positions
    <3>2. s \in Operations
      <4> HIDE DEF r
      <4>1. QED
        BY <3>1, <3>a DEF Operations
    <3>3. t \in Operations
      <4> HIDE DEF s
      <4>1. QED
        BY <3>2, <3>a DEF Operations
    <3>4. q = [t EXCEPT !.whole = TRUE]
      BY <1>1 DEF Operations, FromTheStart
    <3> HIDE DEF t, q
    <3>5. QED
      BY <3>3, <3>4 DEF Operations
  <2>2. OperationOK(q, TRUE)
    BY <1>1 DEF FromTheStart, Operations, OperationOK
  <2>3. QED
    BY <2>1, <2>2
<1> HIDE DEF q
<1>4. QED
  BY <1>2, <1>3, GoesOnBudget

\* What a batch may remove, and what the operation makes of it.
LEMMA BatchLimitOK ==
    ASSUME BudgetInv, NEW o \in Purges, Looping(o), Budget(o) > 0
    PROVE  /\ BatchLimit(o) \in Nat \ {0}
           /\ BatchLimit(o) <= MaximumItemsPerTick - op[o].work
           /\ BatchLimit(o) <= op[o].initial - op[o].removed
<1>1. op[o].work \in Nat /\ op[o].initial \in Nat /\ op[o].removed \in Nat /\ op[o].work < MaximumItemsPerTick
  BY DEF BudgetInv, TypesOK, Operations, Looping
<1>2. MaximumItemsPerTick - op[o].work \in Nat \ {0} /\ Budget(o) \in Nat \ {0}
  BY <1>1, Limits DEF Budget
<1>3. QED
  BY <1>2, MinOf DEF BatchLimit, Budget

LEMMA CountedOK ==
    ASSUME BudgetInv, NEW o \in Purges, Looping(o), Budget(o) > 0,
           NEW n \in Nat, n <= BatchLimit(o)
    PROVE  Counted(op[o], n) \in Operations /\ OperationOK(Counted(op[o], n), TRUE)
<1> DEFINE p == op[o]
           w == Max({1, n})
           q1 == [p EXCEPT !.removed = p.removed + n]
           q2 == [q1 EXCEPT !.removedThisPass = p.removedThisPass + n]
           q3 == [q2 EXCEPT !.work = p.work + w]
<1>1. p \in Operations /\ OperationOK(p, TRUE) /\ p.phase = "running" /\ p.work < MaximumItemsPerTick
  BY RunningOK DEF Looping
<1>2. /\ p.removed + n \in Nat /\ p.removedThisPass + n \in Nat /\ p.removed + n <= p.initial
  BY <1>1, BatchLimitOK DEF Operations
<1>3. p.work + w \in Nat /\ p.work + w <= MaximumItemsPerTick
  <2>1. w = IF n = 0 THEN 1 ELSE n
    BY MaxOf
  <2>2. p.work \in Nat /\ n <= MaximumItemsPerTick - p.work
    BY <1>1, BatchLimitOK, Limits DEF Operations
  <2> HIDE DEF w
  <2>3. QED
    BY <1>1, <2>1, <2>2, Limits
<1>4. q1 \in Operations /\ q1.removedThisPass = p.removedThisPass /\ q1.work = p.work
  BY <1>1, <1>2 DEF Operations
<1>5. q2 \in Operations /\ q2.work = p.work
  <2> HIDE DEF q1
  <2>1. QED
    BY <1>2, <1>4 DEF Operations
<1>6. q3 \in Operations
  <2> HIDE DEF q2
  <2>1. QED
    BY <1>3, <1>5 DEF Operations
<1>7. Counted(p, n) = q3
  BY <1>1 DEF Counted, Operations
<1>8. OperationOK(q3, TRUE)
  <2> HIDE DEF w
  <2>1. QED
    BY <1>1, <1>2, <1>3 DEF OperationOK, Operations
<1>9. QED
  BY <1>6, <1>7, <1>8

\* An operation that goes on to the next inventory or chain, or not.
LEMMA AdvancedOK ==
    ASSUME NEW q \in Operations, OperationOK(q, TRUE), q.phase = "running",
           NEW inventory \in Positions, NEW chain \in Positions, NEW stopped \in SetsOfChains
    PROVE  LET r == [q EXCEPT !.inventory = inventory, !.stopped = stopped, !.chain = chain]
           IN  r \in Operations /\ OperationOK(r, TRUE)
<1> DEFINE s == [q EXCEPT !.inventory = inventory]
           t == [s EXCEPT !.stopped = stopped]
           r == [t EXCEPT !.chain = chain]
<1>1. s \in Operations
  BY DEF Operations
<1>2. t \in Operations
  <2> HIDE DEF s
  <2>1. QED
    BY <1>1 DEF Operations
<1>3. r \in Operations
  <2> HIDE DEF t
  <2>1. QED
    BY <1>2 DEF Operations
<1>4. OperationOK(r, TRUE)
  BY DEF OperationOK, Operations
<1>5. QED
  BY <1>3, <1>4

\* A batch of an inventory.
LEMMA DrainInventoryStep ==
    ASSUME BudgetInv, NEW o \in Purges, DrainInventory(o)
    PROVE  LET i == Inventory(o) IN
           /\ i \in Inventories /\ op[o].inventory \in DOMAIN InventoriesOf(o)
           /\ i \in ToSet(InventoriesOf(o))
           /\ \E n \in Nat :
                 /\ n <= BatchLimit(o) /\ n <= buffer[i]["sinkable"]
                 /\ buffer' = [buffer EXCEPT ![i] = [@ EXCEPT !["sinkable"] = buffer[i]["sinkable"] - n]]
                 /\ \/ /\ op' = [op EXCEPT ![o] = Over(Counted(op[o], n), "inventory mutation failed")]
                       /\ active' = None
                    \/ /\ active' = o
                       /\ \/ /\ i \notin alive \/ buffer'[i]["sinkable"] = 0
                             /\ op' = [op EXCEPT ![o] =
                                   [Counted(op[o], n) EXCEPT !.inventory = op[o].inventory + 1]]
                          \/ /\ i \in alive /\ n > 0
                             /\ op' = [op EXCEPT ![o] = Counted(op[o], n)]
<1> DEFINE i == Inventory(o)
           expected == IF i \in alive THEN Min({buffer[i]["sinkable"], BatchLimit(o)}) ELSE 0
<1>1. /\ Looping(o) /\ Budget(o) > 0 /\ op[o] \in Operations /\ active = o
      /\ op \in [Purges -> Operations] /\ FactoryOK
  BY DEF DrainInventory, Looping, BudgetInv, TypesOK
<1>2. op[o].inventory \in 1 .. Len(InventoriesOf(o)) /\ InventoriesOf(o) \in Seq(Inventories)
  <2>1. InventoriesOf(o) \in Seq(Inventories)
    BY GatheredOK
  <2>2. op[o].inventory \in Nat \ {0} /\ op[o].inventory <= Len(InventoriesOf(o))
    BY <1>1 DEF DrainInventory, InInventories, Operations, Positions
  <2>3. QED
    BY <2>1, <2>2
<1>3. i \in Inventories /\ op[o].inventory \in DOMAIN InventoriesOf(o) /\ i \in ToSet(InventoriesOf(o))
  BY <1>2 DEF Inventory, ToSet
<1>4. BatchLimit(o) \in Nat \ {0}
  BY <1>1, BatchLimitOK
<1>5. buffer[i] \in [Kinds -> Nat] /\ buffer[i]["sinkable"] \in Nat
  <2>1. buffer[i] \in [Kinds -> Nat]
    BY <1>1, <1>3 DEF FactoryOK
  <2>2. QED
    BY <2>1 DEF Kinds
<1>6. /\ expected \in Nat /\ expected <= BatchLimit(o) /\ expected <= buffer[i]["sinkable"]
      /\ i \in alive /\ expected < buffer[i]["sinkable"] => expected = BatchLimit(o)
  BY <1>4, <1>5, MinOf
<1>7. PICK n \in 0 .. expected :
         /\ buffer' = [buffer EXCEPT ![i]["sinkable"] = @ - n]
         /\ IF n < expected
            THEN /\ op' = [op EXCEPT ![o] = Over(Counted(op[o], n), "inventory mutation failed")]
                 /\ active' = None
            ELSE /\ op' = [op EXCEPT ![o] =
                      [Counted(op[o], n) EXCEPT
                         !.inventory = IF i \notin alive \/ buffer'[i]["sinkable"] = 0
                                       THEN op[o].inventory + 1 ELSE op[o].inventory]]
                 /\ UNCHANGED active
  BY DEF DrainInventory
<1>8. n \in Nat /\ n <= BatchLimit(o) /\ n <= buffer[i]["sinkable"]
  BY <1>4, <1>5, <1>6
<1>9. buffer' = [buffer EXCEPT ![i] = [@ EXCEPT !["sinkable"] = buffer[i]["sinkable"] - n]]
  BY <1>7
<1>10. buffer'[i]["sinkable"] = buffer[i]["sinkable"] - n
  <2>1. buffer \in [Inventories -> [Kinds -> Nat]] /\ "sinkable" \in Kinds
    BY <1>1 DEF FactoryOK, Kinds
  <2>2. QED
    BY <1>3, <1>9, <2>1
<1>11. CASE n < expected
  <2>1. op' = [op EXCEPT ![o] = Over(Counted(op[o], n), "inventory mutation failed")] /\ active' = None
    BY <1>1, <1>7, <1>11
  <2> HIDE DEF i, expected
  <2>2. QED
    BY <1>3, <1>8, <1>9, <2>1 DEF i
<1>12. CASE n >= expected
  <2>0. ~(n < expected) /\ n = expected
    <3> HIDE DEF expected
    <3>1. QED
      BY <1>6, <1>12
  <2>1. active' = o /\ n = expected
    BY <1>1, <1>7, <2>0
  <2> DEFINE c == Counted(op[o], n)
  <2>2. c.inventory = op[o].inventory /\ c = [c EXCEPT !.inventory = op[o].inventory]
    BY <1>1 DEF Counted, Operations
  <2>3. op' = [op EXCEPT ![o] = [c EXCEPT !.inventory =
                   IF i \notin alive \/ buffer'[i]["sinkable"] = 0
                   THEN op[o].inventory + 1 ELSE op[o].inventory]]
    BY <1>7, <2>0
  <2>4. CASE i \notin alive \/ buffer'[i]["sinkable"] = 0
    <3>1. op' = [op EXCEPT ![o] = [c EXCEPT !.inventory = op[o].inventory + 1]]
      <4> HIDE DEF c, i
      <4>1. QED
        BY <2>2, <2>3, <2>4
    <3> HIDE DEF i, expected
    <3>2. QED
      BY <1>3, <1>8, <1>9, <2>1, <2>4, <3>1 DEF i
  <2>5. CASE i \in alive /\ buffer'[i]["sinkable"] # 0
    <3>1. op' = [op EXCEPT ![o] = c]
      <4>1. op' = [op EXCEPT ![o] = [c EXCEPT !.inventory = op[o].inventory]]
        <5> HIDE DEF c, i
        <5>1. QED
          BY <2>2, <2>3, <2>5
      <4> HIDE DEF c
      <4>2. QED
        BY <2>2, <4>1
    <3>2. n > 0
      <4> HIDE DEF i, expected
      <4>1. QED
        BY <1>4, <1>5, <1>6, <1>8, <1>10, <2>1, <2>5
    <3> HIDE DEF i, expected
    <3>3. QED
      BY <1>3, <1>8, <1>9, <2>1, <2>5, <3>1, <3>2 DEF i
  <2>6. QED
    BY <2>4, <2>5
<1>13. QED
  <2>1. n < expected \/ n >= expected
    BY <1>6
  <2>2. QED
    BY <1>11, <1>12, <2>1

\* A batch of a chain: it is the first items that go, all of them sinkable.
LEMMA DrainChainStep ==
    ASSUME BudgetInv, NEW o \in Purges, DrainChain(o)
    PROVE  LET c == Chain(o) IN
           /\ c \in Chains /\ c \notin op[o].stopped
           /\ op[o].chain \in DOMAIN op[o].chains /\ c \in ToSet(op[o].chains)
           /\ \E n \in Nat :
                 /\ n <= BatchLimit(o) /\ n <= Eligible(belt[c])
                 /\ belt' = [belt EXCEPT ![c] = SubSeq(belt[c], n + 1, Len(belt[c]))]
                 /\ \/ /\ op' = [op EXCEPT ![o] = Over(Counted(op[o], n), "conveyor mutation failed")]
                       /\ active' = None
                    \/ /\ active' = o
                       /\ \E stopped \in SetsOfChains, chain \in Positions :
                             /\ op' = [op EXCEPT ![o] =
                                   [Counted(op[o], n) EXCEPT !.stopped = stopped, !.chain = chain]]
                             /\ \/ stopped = op[o].stopped \cup {c} /\ chain = op[o].chain + 1
                                \/ stopped = op[o].stopped /\ chain = op[o].chain + 1 /\ n = Len(belt[c])
                                \/ stopped = op[o].stopped /\ chain = op[o].chain
<1> DEFINE c == Chain(o)
           expected == Min({Eligible(belt[c]), BatchLimit(o)})
           atProtected == expected < BatchLimit(o) /\ expected < Len(belt[c])
           empty == expected = Len(belt[c])
           stopped == IF atProtected THEN op[o].stopped \cup {c} ELSE op[o].stopped
           chain == IF atProtected \/ empty THEN op[o].chain + 1 ELSE op[o].chain
<1>1. /\ Looping(o) /\ Budget(o) > 0 /\ op[o] \in Operations /\ active = o
      /\ op \in [Purges -> Operations] /\ FactoryOK /\ c \notin op[o].stopped
  BY DEF DrainChain, Looping, BudgetInv, TypesOK
<1>2. /\ op[o].chains \in Seq(Chains) /\ op[o].chain \in Positions /\ op[o].stopped \in SetsOfChains
      /\ op[o].chain \in 1 .. Len(op[o].chains)
  <2>1. op[o].chains \in Seq(Chains) /\ op[o].chain \in Positions /\ op[o].stopped \in SetsOfChains
    BY <1>1 DEF Operations
  <2>2. op[o].chain <= Len(op[o].chains)
    BY DEF DrainChain, InChains
  <2>3. QED
    BY <2>1, <2>2 DEF Positions
<1>3. c \in Chains /\ op[o].chain \in DOMAIN op[o].chains /\ c \in ToSet(op[o].chains)
  BY <1>2 DEF Chain, ToSet
<1>4. BatchLimit(o) \in Nat \ {0}
  BY <1>1, BatchLimitOK
<1>5. belt[c] \in Seq(Kinds) /\ Eligible(belt[c]) \in 0 .. Len(belt[c]) /\ Len(belt[c]) \in Nat
  <2>1. belt[c] \in Seq(Kinds)
    BY <1>1, <1>3 DEF FactoryOK
  <2> HIDE DEF c
  <2>2. QED
    BY <2>1, EligibleOf
<1>6. expected \in Nat /\ expected <= BatchLimit(o) /\ expected <= Eligible(belt[c])
  BY <1>4, <1>5, MinOf
<1>7. PICK n \in 0 .. expected :
         /\ belt' = [belt EXCEPT ![c] = SubSeq(@, n + 1, Len(@))]
         /\ IF n < expected
            THEN /\ op' = [op EXCEPT ![o] = Over(Counted(op[o], n), "conveyor mutation failed")]
                 /\ active' = None
            ELSE /\ op' = [op EXCEPT ![o] =
                      [Counted(op[o], n) EXCEPT !.stopped = stopped, !.chain = chain]]
                 /\ UNCHANGED active
  BY DEF DrainChain
<1>8. /\ n \in Nat /\ n <= BatchLimit(o) /\ n <= Eligible(belt[c])
      /\ n < expected \/ (n = expected /\ ~(n < expected))
  <2> HIDE DEF expected, c
  <2>1. QED
    BY <1>4, <1>5, <1>6
<1>9. belt' = [belt EXCEPT ![c] = SubSeq(belt[c], n + 1, Len(belt[c]))]
  BY <1>7
<1>10. stopped \in SetsOfChains /\ chain \in Positions
  BY <1>2, <1>3 DEF SetsOfChains, Positions
<1>11. CASE n < expected
  <2>1. op' = [op EXCEPT ![o] = Over(Counted(op[o], n), "conveyor mutation failed")] /\ active' = None
    BY <1>7, <1>11
  <2> HIDE DEF c, expected
  <2>2. QED
    BY <1>1, <1>3, <1>8, <1>9, <2>1 DEF c
<1>12. CASE n = expected /\ ~(n < expected)
  <2>1. /\ active' = o
        /\ op' = [op EXCEPT ![o] = [Counted(op[o], n) EXCEPT !.stopped = stopped, !.chain = chain]]
    BY <1>1, <1>7, <1>12
  <2>2. \/ stopped = op[o].stopped \cup {c} /\ chain = op[o].chain + 1
        \/ stopped = op[o].stopped /\ chain = op[o].chain + 1 /\ n = Len(belt[c])
        \/ stopped = op[o].stopped /\ chain = op[o].chain
    <3> HIDE DEF c, expected
    <3>1. QED
      BY <1>12
  <2> HIDE DEF c, expected, stopped, chain
  <2>3. QED
    BY <1>1, <1>3, <1>8, <1>9, <1>10, <2>1, <2>2 DEF c
<1>13. QED
  BY <1>8, <1>11, <1>12

LEMMA DrainInventoryBudget ==
    ASSUME BudgetInv, NEW o \in Purges, DrainInventory(o) PROVE BudgetInv'
<1> DEFINE i == Inventory(o)
<1>1. PICK n \in Nat :
         /\ n <= BatchLimit(o) /\ n <= buffer[i]["sinkable"]
         /\ buffer' = [buffer EXCEPT ![i] = [@ EXCEPT !["sinkable"] = buffer[i]["sinkable"] - n]]
         /\ \/ /\ op' = [op EXCEPT ![o] = Over(Counted(op[o], n), "inventory mutation failed")]
               /\ active' = None
            \/ /\ active' = o
               /\ \/ /\ i \notin alive \/ buffer'[i]["sinkable"] = 0
                     /\ op' = [op EXCEPT ![o] =
                           [Counted(op[o], n) EXCEPT !.inventory = op[o].inventory + 1]]
                  \/ /\ i \in alive /\ n > 0
                     /\ op' = [op EXCEPT ![o] = Counted(op[o], n)]
  BY DrainInventoryStep
<1> DEFINE q == Counted(op[o], n)
<1>2. /\ Looping(o) /\ Budget(o) > 0 /\ active = o /\ op[o] \in Operations /\ FactoryOK
      /\ op[o].phase = "running"
  BY DEF DrainInventory, Looping, BudgetInv, TypesOK
<1>3. q \in Operations /\ OperationOK(q, TRUE)
  BY <1>1, <1>2, CountedOK
<1>4. FactoryOK'
  <2>1. i \in Inventories
    BY DrainInventoryStep
  <2>2. buffer \in [Inventories -> [Kinds -> Nat]] /\ "sinkable" \in Kinds
    BY <1>2 DEF FactoryOK, Kinds
  <2>3. buffer[i]["sinkable"] \in Nat
    BY <2>1, <2>2
  <2>4. buffer[i]["sinkable"] - n \in Nat
    <3>1. n <= buffer[i]["sinkable"]
      BY <1>1
    <3> HIDE DEF i
    <3>2. QED
      BY <2>3, <3>1
  <2>5. buffer' \in [Inventories -> [Kinds -> Nat]]
    <3> HIDE DEF i
    <3>1. QED
      BY <1>1, <2>1, <2>2, <2>4
  <2>6. UNCHANGED <<wire, belt, alive>>
    BY DEF DrainInventory
  <2>7. QED
    BY <1>2, <2>5, <2>6 DEF FactoryOK
<1>5. CASE op' = [op EXCEPT ![o] = Over(q, "inventory mutation failed")] /\ active' = None
  <2>1. "inventory mutation failed" \in Results
    BY DEF Results
  <2> HIDE DEF q
  <2>2. QED
    BY <1>2, <1>3, <1>4, <1>5, <2>1, EndsBudget
<1>6. CASE op' = [op EXCEPT ![o] = q] /\ active' = o
  <2> HIDE DEF q
  <2>1. QED
    BY <1>2, <1>3, <1>4, <1>6, GoesOnBudget
<1>7. CASE op' = [op EXCEPT ![o] = [q EXCEPT !.inventory = op[o].inventory + 1]] /\ active' = o
  <2> DEFINE r == [q EXCEPT !.inventory = op[o].inventory + 1, !.stopped = q.stopped, !.chain = q.chain]
  <2>1. op[o].inventory + 1 \in Positions
    BY <1>2 DEF Operations, Positions
  <2>2. q.stopped \in SetsOfChains /\ q.chain \in Positions /\ q.phase = "running"
    <3>1. q.phase = "running"
      BY <1>2 DEF Counted, Operations
    <3> HIDE DEF q
    <3>2. QED
      BY <1>3, <3>1 DEF Operations
  <2> HIDE DEF q
  <2>3. r \in Operations /\ OperationOK(r, TRUE)
    BY <1>3, <2>1, <2>2, AdvancedOK
  <2>4. r = [q EXCEPT !.inventory = op[o].inventory + 1]
    BY <1>3 DEF Operations
  <2> HIDE DEF r
  <2>5. QED
    BY <1>2, <1>4, <1>7, <2>3, <2>4, GoesOnBudget
<1>8. QED
  BY <1>1, <1>5, <1>6, <1>7

LEMMA DrainChainBudget ==
    ASSUME BudgetInv, NEW o \in Purges, DrainChain(o) PROVE BudgetInv'
<1> DEFINE c == Chain(o)
<1>1. PICK n \in Nat :
         /\ n <= BatchLimit(o) /\ n <= Eligible(belt[c])
         /\ belt' = [belt EXCEPT ![c] = SubSeq(belt[c], n + 1, Len(belt[c]))]
         /\ \/ /\ op' = [op EXCEPT ![o] = Over(Counted(op[o], n), "conveyor mutation failed")]
               /\ active' = None
            \/ /\ active' = o
               /\ \E stopped \in SetsOfChains, chain \in Positions :
                     /\ op' = [op EXCEPT ![o] =
                           [Counted(op[o], n) EXCEPT !.stopped = stopped, !.chain = chain]]
                     /\ \/ stopped = op[o].stopped \cup {c} /\ chain = op[o].chain + 1
                        \/ stopped = op[o].stopped /\ chain = op[o].chain + 1 /\ n = Len(belt[c])
                        \/ stopped = op[o].stopped /\ chain = op[o].chain
  BY DrainChainStep
<1> DEFINE q == Counted(op[o], n)
<1>2. /\ Looping(o) /\ Budget(o) > 0 /\ active = o /\ op[o] \in Operations /\ FactoryOK
      /\ op[o].phase = "running"
  BY DEF DrainChain, Looping, BudgetInv, TypesOK
<1>3. q \in Operations /\ OperationOK(q, TRUE)
  BY <1>1, <1>2, CountedOK
<1>4. FactoryOK'
  <2>1. c \in Chains
    BY DrainChainStep
  <2>2. belt \in [Chains -> Seq(Kinds)]
    BY <1>2 DEF FactoryOK
  <2>3. SubSeq(belt[c], n + 1, Len(belt[c])) \in Seq(Kinds)
    <3>1. belt[c] \in Seq(Kinds) /\ Eligible(belt[c]) \in 0 .. Len(belt[c])
      BY <2>1, <2>2, EligibleOf
    <3>2. belt[c] \in Seq(Kinds) /\ n \in 0 .. Len(belt[c])
      <4>1. n <= Eligible(belt[c]) /\ Len(belt[c]) \in Nat
        <5>1. n <= Eligible(belt[c])
          BY <1>1
        <5> HIDE DEF c
        <5>2. QED
          BY <3>1, <5>1
      <4> HIDE DEF c
      <4>2. QED
        BY <3>1, <4>1
    <3>3. \A q0 \in Seq(Kinds) : \A m \in 0 .. Len(q0) : SubSeq(q0, m + 1, Len(q0)) \in Seq(Kinds)
      OBVIOUS
    <3> HIDE DEF c
    <3>4. QED
      BY <3>2, <3>3
  <2>4. belt' \in [Chains -> Seq(Kinds)]
    <3> HIDE DEF c
    <3>1. QED
      BY <1>1, <2>1, <2>2, <2>3
  <2>5. UNCHANGED <<wire, buffer, alive>>
    BY DEF DrainChain
  <2>6. QED
    BY <1>2, <2>4, <2>5 DEF FactoryOK
<1>5. CASE op' = [op EXCEPT ![o] = Over(q, "conveyor mutation failed")] /\ active' = None
  <2>1. "conveyor mutation failed" \in Results
    BY DEF Results
  <2> HIDE DEF q
  <2>2. QED
    BY <1>2, <1>3, <1>4, <1>5, <2>1, EndsBudget
<1>6. ASSUME NEW stopped \in SetsOfChains, NEW chain \in Positions, active' = o,
             op' = [op EXCEPT ![o] = [q EXCEPT !.stopped = stopped, !.chain = chain]]
      PROVE  BudgetInv'
  <2> DEFINE r == [q EXCEPT !.inventory = q.inventory, !.stopped = stopped, !.chain = chain]
  <2>1. q.inventory \in Positions /\ q.phase = "running"
    <3>1. q.phase = "running"
      BY <1>2 DEF Counted, Operations
    <3> HIDE DEF q
    <3>2. QED
      BY <1>3, <3>1 DEF Operations
  <2> HIDE DEF q
  <2>2. r \in Operations /\ OperationOK(r, TRUE)
    BY <1>3, <2>1, AdvancedOK
  <2>3. r = [q EXCEPT !.stopped = stopped, !.chain = chain]
    BY <1>3 DEF Operations
  <2> HIDE DEF r
  <2>4. QED
    BY <1>2, <1>4, <1>6, <2>2, <2>3, GoesOnBudget
<1>7. QED
  BY <1>1, <1>5, <1>6

\* What the factory does to a belt and to a buffer.
LEMMA BeltKept ==
    ASSUME FactoryOK, NEW c \in Chains
    PROVE  /\ belt[c] \in Seq(Kinds)
           /\ belt[c] # <<>> => Tail(belt[c]) \in Seq(Kinds) /\ Head(belt[c]) \in Kinds
           /\ \A kind \in Kinds : Append(belt[c], kind) \in Seq(Kinds)
<1>1. belt[c] \in Seq(Kinds)
  BY DEF FactoryOK
<1>2. \A q \in Seq(Kinds) : /\ q # <<>> => Tail(q) \in Seq(Kinds) /\ Head(q) \in Kinds
                            /\ \A kind \in Kinds : Append(q, kind) \in Seq(Kinds)
  OBVIOUS
<1>3. QED
  BY <1>1, <1>2

LEMMA CarryBudget == ASSUME BudgetInv, NEW c \in Chains, Carry(c) PROVE BudgetInv'
<1> DEFINE p == wire.Out[c]
<1>1. FactoryOK /\ belt[c] # <<>> /\ p \in alive /\ UNCHANGED <<wire, alive, op, active>>
  BY DEF Carry, BudgetInv, TypesOK
<1>2. Tail(belt[c]) \in Seq(Kinds) /\ Head(belt[c]) \in Kinds
  BY <1>1, BeltKept
<1>3. CASE p \in Chains
  <2>1. belt' = [belt EXCEPT ![c] = Tail(@), ![p] = Append(@, Head(belt[c]))] /\ UNCHANGED buffer /\ p # c
    BY <1>3 DEF Carry
  <2>2. Append(belt[p], Head(belt[c])) \in Seq(Kinds)
    BY <1>1, <1>2, <1>3, BeltKept
  <2>3. belt' \in [Chains -> Seq(Kinds)]
    <3>1. belt \in [Chains -> Seq(Kinds)]
      BY <1>1 DEF FactoryOK
    <3> HIDE DEF p
    <3>2. QED
      BY <1>2, <1>3, <2>1, <2>2, <3>1
  <2>4. FactoryOK'
    BY <1>1, <2>1, <2>3 DEF FactoryOK
  <2>5. QED
    BY <1>1, <2>4, FactoryOnly
<1>4. CASE p \notin Chains
  <2>1. /\ belt' = [belt EXCEPT ![c] = Tail(@)]
        /\ buffer' = [buffer EXCEPT ![p][Head(belt[c])] = @ + 1]
    BY <1>4 DEF Carry
  <2>2. p \in Inventories
    BY <1>1, <1>4, Limits DEF FactoryOK
  <2>3. belt' \in [Chains -> Seq(Kinds)] /\ buffer' \in [Inventories -> [Kinds -> Nat]]
    <3>1. belt \in [Chains -> Seq(Kinds)] /\ buffer \in [Inventories -> [Kinds -> Nat]]
      BY <1>1 DEF FactoryOK
    <3> DEFINE k == Head(belt[c])
    <3>2. k \in Kinds /\ buffer[p] \in [Kinds -> Nat]
      BY <1>2, <2>2, <3>1
    <3> HIDE DEF p, k
    <3>3. buffer[p][k] + 1 \in Nat
      BY <3>2
    <3>4. buffer' = [buffer EXCEPT ![p] = [buffer[p] EXCEPT ![k] = buffer[p][k] + 1]]
      BY <2>1 DEF k
    <3>5. QED
      BY <1>2, <2>1, <2>2, <3>1, <3>2, <3>3, <3>4
  <2>4. FactoryOK'
    BY <1>1, <2>3 DEF FactoryOK
  <2>5. QED
    BY <1>1, <2>4, FactoryOnly
<1>5. QED
  BY <1>3, <1>4

\* One item less.
LEMMA TakenOne ==
    ASSUME FactoryOK, NEW s \in Inventories, NEW kind \in Kinds, buffer[s][kind] > 0
    PROVE  [buffer EXCEPT ![s][kind] = @ - 1] \in [Inventories -> [Kinds -> Nat]]
<1>1. buffer \in [Inventories -> [Kinds -> Nat]]
  BY DEF FactoryOK
<1>2. buffer[s] \in [Kinds -> Nat]
  BY <1>1
<1>3. buffer[s][kind] \in Nat
  BY <1>2
<1>4. buffer[s][kind] - 1 \in Nat
  BY <1>3
<1>5. [buffer EXCEPT ![s][kind] = @ - 1] = [buffer EXCEPT ![s] = [buffer[s] EXCEPT ![kind] = buffer[s][kind] - 1]]
  OBVIOUS
<1>6. [buffer[s] EXCEPT ![kind] = buffer[s][kind] - 1] \in [Kinds -> Nat]
  BY <1>2, <1>4
<1>7. QED
  BY <1>1, <1>5, <1>6

LEMMA ReleaseBudget ==
    ASSUME BudgetInv, NEW s \in Attachments, NEW c \in Chains, Release(s, c) PROVE BudgetInv'
<1>1. FactoryOK /\ UNCHANGED <<wire, alive, op, active>> /\ s \in Inventories
  BY Limits DEF Release, BudgetInv, TypesOK
<1>2. PICK kind \in Kinds :
         /\ buffer[s][kind] > 0
         /\ buffer' = [buffer EXCEPT ![s][kind] = @ - 1]
         /\ belt' = [belt EXCEPT ![c] = Append(@, kind)]
  BY DEF Release
<1>3. buffer' \in [Inventories -> [Kinds -> Nat]]
  BY <1>1, <1>2, TakenOne
<1>4. belt' \in [Chains -> Seq(Kinds)]
  BY <1>1, <1>2, BeltKept DEF FactoryOK
<1>5. FactoryOK'
  BY <1>1, <1>3, <1>4 DEF FactoryOK
<1>6. QED
  BY <1>1, <1>5, FactoryOnly

LEMMA SupplyBudget == ASSUME BudgetInv, NEW c \in Chains, Supply(c) PROVE BudgetInv'
<1>1. FactoryOK /\ UNCHANGED <<wire, buffer, alive, op, active>>
  BY DEF Supply, BudgetInv, TypesOK
<1>2. belt' \in [Chains -> Seq(Kinds)]
  BY <1>1, BeltKept DEF FactoryOK, Supply
<1>3. FactoryOK'
  BY <1>1, <1>2 DEF FactoryOK
<1>4. QED
  BY <1>1, <1>3, FactoryOnly

LEMMA ConsumeBudget == ASSUME BudgetInv, NEW m \in Machines, Consume(m) PROVE BudgetInv'
<1>1. FactoryOK /\ UNCHANGED <<wire, belt, alive, op, active>> /\ m \in Inventories
  BY Limits DEF Consume, BudgetInv, TypesOK
<1>2. buffer' \in [Inventories -> [Kinds -> Nat]]
  BY <1>1, TakenOne DEF Consume
<1>3. FactoryOK'
  BY <1>1, <1>2 DEF FactoryOK
<1>4. QED
  BY <1>1, <1>3, FactoryOnly

LEMMA LossBudget ==
    ASSUME BudgetInv, (\E p \in Places : Dismantle(p)) \/ LeaveWorld PROVE BudgetInv'
<1>1. UNCHANGED <<wire, belt, buffer, op, active>> /\ alive' \subseteq alive
  BY DEF Dismantle, LeaveWorld
<1>2. FactoryOK'
  BY <1>1 DEF BudgetInv, TypesOK, FactoryOK
<1>3. QED
  BY <1>1, <1>2, FactoryOnly

LEMMA NextBudget == ASSUME BudgetInv, [Next]_vars PROVE BudgetInv'
<1>1. CASE UNCHANGED vars
  BY <1>1 DEF vars, factoryVars, BudgetInv, TypesOK, FactoryOK
<1>2. ASSUME NEW o \in Purges,
             RequestPurge(o) \/ Gather(o) \/ StartTicker(o) \/ BeginTick(o) \/ Callback(o)
      PROVE  BudgetInv'
  BY <1>2, RequestPurgeBudget, GatherBudget, StartTickerBudget, BeginTickBudget, EndTickBudget,
     EndsOnItsOwnBudget, DrainInventoryBudget, SkipChainBudget, DrainChainBudget, NextPassBudget
     DEF Callback
<1>3. CASE Factory
  BY <1>3, CarryBudget, ReleaseBudget, SupplyBudget, ConsumeBudget, LossBudget DEF Factory
<1>4. QED
  BY <1>1, <1>2, <1>3 DEF Next

LEMMA BudgetAlways == Spec => []BudgetInv
<1>1. Init => BudgetInv
  BY InitBudget
<1>2. BudgetInv /\ [Next]_vars => BudgetInv'
  BY NextBudget
<1>3. QED
  BY <1>1, <1>2, PTL DEF Spec

\* No operation removes more than it counted at first, although items keep
\* arriving and moving on; no place is gathered twice, and no callback does
\* more than its share (Tick, GatherNetworkRecursive).
THEOREM BudgetTheorem == Spec => []BudgetKept
<1>1. BudgetInv => BudgetKept
  <2> SUFFICES ASSUME BudgetInv, NEW o \in Purges
               PROVE  /\ op[o].removed <= op[o].initial
                      /\ IsInjective(op[o].chains) /\ IsInjective(InventoriesOf(o))
                      /\ op[o].work <= MaximumItemsPerTick
    BY DEF BudgetKept
  <2>1. op[o] \in Operations /\ OperationOK(op[o], active = o)
    BY DEF BudgetInv, TypesOK
  <2>2. IsInjective(op[o].machines) /\ IsInjective(op[o].attachments)
    BY <2>1 DEF OperationOK
  <2>3. op[o].machines \in Seq(Inventories) /\ op[o].attachments \in Seq(Inventories)
    <3>1. op[o].machines \in Seq(Machines) /\ op[o].attachments \in Seq(Attachments)
      BY <2>1 DEF Operations
    <3>2. QED
      BY <3>1, Limits
  <2>4. ToSet(op[o].machines) \cap ToSet(op[o].attachments) = {}
    BY GatheredOK, Limits
  <2>5. IsInjective(InventoriesOf(o))
    BY <2>2, <2>3, <2>4, ToSetConcat DEF InventoriesOf
  <2>6. QED
    BY <2>1, <2>5 DEF OperationOK
<1>2. QED
  BY <1>1, BudgetAlways, PTL

-----------------------------------------------------------------------------
(* The network                                                              *)

LEMMA ReachableOK ==
    ASSUME NEW t
    PROVE  /\ t \in alive => t \in Reachable(t)
           /\ Reachable(t) \subseteq alive
           /\ \A n \in Reachable(t), b \in alive : Connected(n, b) => b \in Reachable(t)
BY DEF Reachable, Closed

\* The network ends at machines.
LEMMA MachinesAreEnds ==
    ASSUME NEW n \in Machines, NEW b PROVE ~Connected(n, b)
BY Limits DEF Connected

\* Nothing gathers but the operation on the game thread.
LEMMA NoGathering ==
    ASSUME BudgetInv', \A o \in Purges : op'[o].phase # "gathering" PROVE GatherInv'
BY DEF GatherInv, Gathering

LEMMA RequestPurgeGathers ==
    ASSUME BudgetInv, BudgetInv', NEW o \in Purges, RequestPurge(o) PROVE GatherInv'
<1>1. PICK t \in (Chains \cup Attachments) \cap alive :
         op' = [op EXCEPT ![o].phase = "gathering", ![o].start = t, ![o].pending = <<t>>]
  BY DEF RequestPurge
<1>2. /\ op[o] \in Operations /\ op \in [Purges -> Operations] /\ active = None /\ active' = o
      /\ op[o].chains = <<>> /\ op[o].machines = <<>> /\ op[o].attachments = <<>>
  BY DEF RequestPurge, BudgetInv, TypesOK, OperationOK
<1>3. /\ op'[o].start = t /\ op'[o].pending = <<t>>
      /\ op'[o].chains = <<>> /\ op'[o].machines = <<>> /\ op'[o].attachments = <<>>
  BY <1>1, <1>2 DEF Operations
<1>4. ToSet(<<>>) = {} /\ ToSet(<<t>>) = {t}
  BY DEF ToSet
<1>5. Gathered(o)' = {} /\ Found(o)' = {t}
  BY <1>3, <1>4 DEF Gathered, Found
<1>6. UNCHANGED <<wire, alive>>
  BY DEF RequestPurge, factoryVars
<1>7. t \in Reachable(t)'
  BY <1>6 DEF Reachable
<1>8. Gathering(o)'
  <2>1. Reachable(op[o].start)' = Reachable(t)'
    BY <1>3 DEF Reachable
  <2>2. QED
    BY <1>3, <1>5, <1>6, <1>7, <2>1 DEF Gathering
<1>9. ASSUME NEW p \in Purges \ {o} PROVE op'[p].phase # "gathering"
  <2>1. OperationOK(op'[p], active' = p) /\ active' # p
    BY <1>2 DEF BudgetInv
  <2>2. QED
    BY <2>1 DEF OperationOK
<1>10. QED
  BY <1>8, <1>9 DEF GatherInv, Gathering

LEMMA GatherGathers ==
    ASSUME GatherInv, BudgetInv', NEW o \in Purges, Gather(o) PROVE GatherInv'
<1> DEFINE p == op[o]
           n == Head(p.pending)
           rest == Tail(p.pending)
<1>1. /\ op[o] \in Operations /\ op \in [Purges -> Operations] /\ FactoryOK /\ active = o /\ active' = o
      /\ p.phase = "gathering" /\ p.pending # <<>> /\ BudgetInv
  BY DEF Gather, GatherInv, BudgetInv, TypesOK
<1>2. /\ p.start \in Found(o) \cap alive
      /\ Found(o) \subseteq Reachable(p.start)
      /\ \A m \in Gathered(o), b \in alive : Connected(m, b) => b \in Found(o)
  BY <1>1 DEF GatherInv, Gathering
<1>3. n \in Places /\ rest \in Seq(Places) /\ ToSet(p.pending) = {n} \cup ToSet(rest)
  <2>1. p.pending \in Seq(Places)
    BY <1>1 DEF Operations
  <2>2. QED
    BY <1>1, <2>1, ToSetTail
<1>4. UNCHANGED <<wire, alive>>
  BY DEF Gather, factoryVars
\* However the place is taken up, what is next to it is found.
<1>5. ASSUME NEW N \in SUBSET alive, \A b \in alive : b \in N <=> Connected(n, b),
             op'[o].start = p.start,
             Gathered(o)' = Gathered(o) \cup {n}, ToSet(op'[o].pending) = N \cup ToSet(rest)
      PROVE  Gathering(o)'
  <2>1. Found(o)' = Found(o) \cup N
    BY <1>3, <1>5 DEF Found
  <2>2. n \in Reachable(p.start)
    BY <1>2, <1>3 DEF Found
  <2>3. N \subseteq Reachable(p.start)
    BY <1>5, <2>2, ReachableOK
  <2>4. Reachable(op[o].start)' = Reachable(p.start)
    BY <1>4, <1>5 DEF Reachable, Closed, Connected
  <2>5. ASSUME NEW m \in Gathered(o) \cup {n}, NEW b \in alive, Connected(m, b) PROVE b \in Found(o) \cup N
    BY <1>2, <1>5, <2>5
  <2>6. \A m \in Gathered(o)', b \in alive' : Connected(m, b)' => b \in Found(o)'
    BY <1>4, <1>5, <2>1, <2>5 DEF Connected
  <2>7. op'[o].start \in Found(o)' \cap alive' /\ Found(o)' \subseteq Reachable(op[o].start)'
    BY <1>2, <1>4, <1>5, <2>1, <2>3, <2>4
  <2>8. QED
    BY <2>6, <2>7 DEF Gathering
<1>6. ASSUME n \in Gathered(o) PROVE Gathering(o)'
  <2>1. op' = [op EXCEPT ![o].pending = rest]
    BY <1>6 DEF Gather
  <2>2. /\ op'[o].start = p.start /\ op'[o].pending = rest /\ op'[o].chains = p.chains
        /\ op'[o].machines = p.machines /\ op'[o].attachments = p.attachments
    BY <1>1, <2>1 DEF Operations
  <2>3. Gathered(o)' = Gathered(o) /\ Found(o)' = Found(o)
    BY <1>3, <1>6, <2>2 DEF Gathered, Found
  <2>4. Reachable(op[o].start)' = Reachable(p.start)
    BY <1>4, <2>2 DEF Reachable, Closed, Connected
  <2>5. \A m \in Gathered(o)', b \in alive' : Connected(m, b)' => b \in Found(o)'
    BY <1>2, <1>4, <2>3 DEF Connected
  <2>6. op'[o].start \in Found(o)' \cap alive' /\ Found(o)' \subseteq Reachable(op[o].start)'
    BY <1>2, <1>4, <2>2, <2>3, <2>4
  <2>7. QED
    BY <2>5, <2>6 DEF Gathering
<1>7. ASSUME n \in Chains \ Gathered(o) PROVE Gathering(o)'
  <2>1. op' = [op EXCEPT ![o].pending = Neighbours(n) \o rest, ![o].chains = Append(@, n)]
    BY <1>7, Limits DEF Gather
  <2>2. /\ op'[o].start = p.start /\ op'[o].pending = Neighbours(n) \o rest
        /\ op'[o].chains = Append(p.chains, n)
        /\ op'[o].machines = p.machines /\ op'[o].attachments = p.attachments
    BY <1>1, <2>1 DEF Operations
  <2>3. Gathered(o)' = Gathered(o) \cup {n}
    <3>1. p.chains \in Seq(Chains)
      BY <1>1 DEF Operations
    <3>2. ToSet(Append(p.chains, n)) = ToSet(p.chains) \cup {n}
      BY <1>7, <3>1, ToSetAppend
    <3>3. QED
      BY <2>2, <3>2 DEF Gathered
  <2>4. ToSet(op'[o].pending) = ToSet(Neighbours(n)) \cup ToSet(rest)
    <3>1. Neighbours(n) \in Seq(Places)
      BY <1>1, <1>7, NeighboursOK
    <3> HIDE DEF n, rest
    <3>2. QED
      BY <1>3, <2>2, <3>1, ToSetConcat
  <2>5. QED
    <3>1. /\ ToSet(Neighbours(n)) \in SUBSET alive
          /\ \A b \in alive : b \in ToSet(Neighbours(n)) <=> Connected(n, b)
      BY <1>1, <1>7, NeighboursOK
    <3>2. QED
      BY <1>5, <2>2, <2>3, <2>4, <3>1
<1>8. ASSUME n \in Attachments \ Gathered(o) PROVE Gathering(o)'
  <2>1. op' = [op EXCEPT ![o].pending = Neighbours(n) \o rest, ![o].attachments = Append(@, n)]
    BY <1>8, Limits DEF Gather
  <2>2. /\ op'[o].start = p.start /\ op'[o].pending = Neighbours(n) \o rest
        /\ op'[o].attachments = Append(p.attachments, n)
        /\ op'[o].machines = p.machines /\ op'[o].chains = p.chains
    BY <1>1, <2>1 DEF Operations
  <2>3. Gathered(o)' = Gathered(o) \cup {n}
    <3>1. p.attachments \in Seq(Attachments)
      BY <1>1 DEF Operations
    <3>2. ToSet(Append(p.attachments, n)) = ToSet(p.attachments) \cup {n}
      BY <1>8, <3>1, ToSetAppend
    <3>3. QED
      BY <2>2, <3>2 DEF Gathered
  <2>4. ToSet(op'[o].pending) = ToSet(Neighbours(n)) \cup ToSet(rest)
    <3>1. Neighbours(n) \in Seq(Places)
      BY <1>1, <1>8, NeighboursOK
    <3> HIDE DEF n, rest
    <3>2. QED
      BY <1>3, <2>2, <3>1, ToSetConcat
  <2>5. QED
    <3>1. /\ ToSet(Neighbours(n)) \in SUBSET alive
          /\ \A b \in alive : b \in ToSet(Neighbours(n)) <=> Connected(n, b)
      BY <1>1, <1>8, NeighboursOK
    <3>2. QED
      BY <1>5, <2>2, <2>3, <2>4, <3>1
<1>9. ASSUME n \in Machines \ Gathered(o) PROVE Gathering(o)'
  <2>1. op' = [op EXCEPT ![o].pending = rest, ![o].machines = Append(@, n)]
    BY <1>9, Limits DEF Gather
  <2>2. /\ op'[o].start = p.start /\ op'[o].pending = rest
        /\ op'[o].machines = Append(p.machines, n)
        /\ op'[o].chains = p.chains /\ op'[o].attachments = p.attachments
    BY <1>1, <2>1 DEF Operations
  <2>3. Gathered(o)' = Gathered(o) \cup {n}
    <3>1. p.machines \in Seq(Machines)
      BY <1>1 DEF Operations
    <3>2. ToSet(Append(p.machines, n)) = ToSet(p.machines) \cup {n}
      BY <1>9, <3>1, ToSetAppend
    <3>3. QED
      BY <2>2, <3>2 DEF Gathered
  <2>4. \A b \in alive : b \in {} <=> Connected(n, b)
    BY <1>9, MachinesAreEnds
  <2>5. ToSet(op'[o].pending) = {} \cup ToSet(rest) /\ {} \in SUBSET alive
    BY <2>2
  <2>6. QED
    BY <1>5, <2>2, <2>3, <2>4, <2>5
<1>10. Gathering(o)'
  <2>1. n \in Chains \/ n \in Attachments \/ n \in Machines
    BY <1>3, Limits
  <2>2. QED
    BY <1>6, <1>7, <1>8, <1>9, <2>1
<1>11. ASSUME NEW m \in Purges \ {o} PROVE op'[m].phase # "gathering"
  <2>1. OperationOK(op'[m], active' = m) /\ active' # m
    BY <1>1 DEF BudgetInv
  <2>2. QED
    BY <2>1 DEF OperationOK
<1>12. QED
  BY <1>10, <1>11 DEF GatherInv, Gathering

\* The steps of an operation that has gathered its network.
LEMMA CallbackPhase ==
    ASSUME BudgetInv, NEW o \in Purges, Callback(o)
    PROVE  /\ active = o /\ op[o].phase = "running" /\ op'[o].phase \in {"running", "over"}
           /\ \A p \in Purges \ {o} : op'[p] = op[p]
<1>1. op \in [Purges -> Operations] /\ op[o] \in Operations
  BY DEF BudgetInv, TypesOK
<1>2. active = o /\ op[o].phase = "running"
  BY DEF Callback, EndTick, BudgetExhausted, DrainInventory, SkipChain, DrainChain,
         Complete, NextPass, PassDone, Looping
<1>3. ASSUME NEW q, q.phase \in {"running", "over"}, op' = [op EXCEPT ![o] = q]
      PROVE  op'[o].phase \in {"running", "over"} /\ \A p \in Purges \ {o} : op'[p] = op[p]
  BY <1>1, <1>3
<1>4. CASE EndTick(o)
  BY <1>1, <1>2, <1>4 DEF EndTick, Operations
<1>5. CASE BudgetExhausted(o) \/ Complete(o)
  <2>1. PICK result \in Results : op' = [op EXCEPT ![o] = Over(op[o], result)]
    BY <1>5 DEF BudgetExhausted, Complete, Finish, Results
  <2>2. Over(op[o], result).phase = "over"
    BY <1>1 DEF Over, Operations
  <2>3. QED
    BY <1>1, <1>2, <2>1, <2>2
<1>6. CASE SkipChain(o)
  BY <1>1, <1>2, <1>6 DEF SkipChain, Operations
<1>7. CASE NextPass(o)
  BY <1>1, <1>2, <1>7 DEF NextPass, FromTheStart, Operations
<1>8. ASSUME NEW n \in Nat, n <= BatchLimit(o), Looping(o), Budget(o) > 0
      PROVE  /\ Counted(op[o], n).phase = "running"
             /\ \A result : Over(Counted(op[o], n), result).phase = "over"
             /\ \A k : [Counted(op[o], n) EXCEPT !.inventory = k].phase = "running"
             /\ \A s, k : [Counted(op[o], n) EXCEPT !.stopped = s, !.chain = k].phase = "running"
  <2> DEFINE c == Counted(op[o], n)
  <2>1. c \in Operations
    BY <1>8, CountedOK
  <2>2. c.phase = "running"
    BY <1>1, <1>2 DEF Counted, Operations
  <2> HIDE DEF c
  <2>3. /\ \A result : Over(c, result).phase = "over"
        /\ \A k : [c EXCEPT !.inventory = k].phase = "running"
        /\ \A s, k : [c EXCEPT !.stopped = s, !.chain = k].phase = "running"
    BY <2>1, <2>2 DEF Over, Operations
  <2>4. QED
    BY <2>2, <2>3 DEF c
<1>9. CASE DrainInventory(o)
  <2>1. PICK n \in Nat :
           /\ n <= BatchLimit(o)
           /\ \/ op' = [op EXCEPT ![o] = Over(Counted(op[o], n), "inventory mutation failed")]
              \/ op' = [op EXCEPT ![o] = [Counted(op[o], n) EXCEPT !.inventory = op[o].inventory + 1]]
              \/ op' = [op EXCEPT ![o] = Counted(op[o], n)]
    BY <1>9, DrainInventoryStep
  <2>2. /\ Counted(op[o], n).phase = "running"
        /\ Over(Counted(op[o], n), "inventory mutation failed").phase = "over"
        /\ [Counted(op[o], n) EXCEPT !.inventory = op[o].inventory + 1].phase = "running"
    BY <1>8, <1>9, <2>1 DEF DrainInventory
  <2>3. op'[o].phase \in {"running", "over"} /\ \A p \in Purges \ {o} : op'[p] = op[p]
    <3>1. CASE op' = [op EXCEPT ![o] = Over(Counted(op[o], n), "inventory mutation failed")]
      BY <1>1, <2>2, <3>1
    <3>2. CASE op' = [op EXCEPT ![o] = [Counted(op[o], n) EXCEPT !.inventory = op[o].inventory + 1]]
      BY <1>1, <2>2, <3>2
    <3>3. CASE op' = [op EXCEPT ![o] = Counted(op[o], n)]
      BY <1>1, <2>2, <3>3
    <3>4. QED
      BY <2>1, <3>1, <3>2, <3>3
  <2>4. QED
    BY <1>2, <2>3
<1>10. CASE DrainChain(o)
  <2> DEFINE c == Chain(o)
  <2>1. PICK n \in Nat :
           /\ n <= BatchLimit(o) /\ n <= Eligible(belt[c])
           /\ belt' = [belt EXCEPT ![c] = SubSeq(belt[c], n + 1, Len(belt[c]))]
           /\ \/ /\ op' = [op EXCEPT ![o] = Over(Counted(op[o], n), "conveyor mutation failed")]
                 /\ active' = None
              \/ /\ active' = o
                 /\ \E stopped \in SetsOfChains, chain \in Positions :
                       /\ op' = [op EXCEPT ![o] =
                             [Counted(op[o], n) EXCEPT !.stopped = stopped, !.chain = chain]]
                       /\ \/ stopped = op[o].stopped \cup {c} /\ chain = op[o].chain + 1
                          \/ stopped = op[o].stopped /\ chain = op[o].chain + 1 /\ n = Len(belt[c])
                          \/ stopped = op[o].stopped /\ chain = op[o].chain
    BY <1>10, DrainChainStep
  <2>2. /\ Over(Counted(op[o], n), "conveyor mutation failed").phase = "over"
        /\ \A s, k : [Counted(op[o], n) EXCEPT !.stopped = s, !.chain = k].phase = "running"
    BY <1>8, <1>10, <2>1 DEF DrainChain
  <2>3. op'[o].phase \in {"running", "over"} /\ \A p \in Purges \ {o} : op'[p] = op[p]
    <3>1. CASE op' = [op EXCEPT ![o] = Over(Counted(op[o], n), "conveyor mutation failed")]
      BY <1>1, <2>2, <3>1
    <3>2. ASSUME NEW stopped \in SetsOfChains, NEW chain \in Positions,
                 op' = [op EXCEPT ![o] =
                       [Counted(op[o], n) EXCEPT !.stopped = stopped, !.chain = chain]]
          PROVE  op'[o].phase \in {"running", "over"} /\ \A p \in Purges \ {o} : op'[p] = op[p]
      BY <1>1, <2>2, <3>2
    <3>3. QED
      BY <2>1, <3>1, <3>2
  <2>4. QED
    BY <1>2, <2>3
<1>11. QED
  BY <1>2, <1>4, <1>5, <1>6, <1>7, <1>9, <1>10 DEF Callback

\* Who may be gathering before and after a step.
LEMMA GatheringIsActive ==
    ASSUME BudgetInv, NEW o \in Purges, op[o].phase = "gathering" PROVE active = o
BY DEF BudgetInv, OperationOK

LEMMA GatherPhase ==
    ASSUME BudgetInv, NEW o \in Purges, Gather(o)
    PROVE  active = o /\ op'[o].phase = "gathering" /\ \A p \in Purges \ {o} : op'[p] = op[p]
<1>1. op \in [Purges -> Operations] /\ op[o] \in Operations /\ active = o /\ op[o].phase = "gathering"
  BY DEF Gather, BudgetInv, TypesOK
<1>2. ASSUME NEW q, q.phase = "gathering", op' = [op EXCEPT ![o] = q]
      PROVE  op'[o].phase = "gathering" /\ \A p \in Purges \ {o} : op'[p] = op[p]
  BY <1>1, <1>2
<1>3. \A x, y : /\ [op[o] EXCEPT !.pending = x].phase = "gathering"
               /\ [op[o] EXCEPT !.pending = x, !.chains = y].phase = "gathering"
               /\ [op[o] EXCEPT !.pending = x, !.attachments = y].phase = "gathering"
               /\ [op[o] EXCEPT !.pending = x, !.machines = y].phase = "gathering"
  BY <1>1 DEF Operations
<1>4. PICK q : q.phase = "gathering" /\ op' = [op EXCEPT ![o] = q]
  <2> DEFINE n == Head(op[o].pending)
             rest == Tail(op[o].pending)
  <2>1. CASE op' = [op EXCEPT ![o].pending = rest]
    BY <1>1, <1>3, <2>1
  <2>2. CASE op' = [op EXCEPT ![o].pending = Neighbours(n) \o rest, ![o].chains = Append(@, n)]
    <3>1. op' = [op EXCEPT ![o] = [op[o] EXCEPT !.pending = Neighbours(n) \o rest,
                                                !.chains = Append(op[o].chains, n)]]
      BY <1>1, <2>2
    <3>2. QED
      BY <1>3, <3>1
  <2>3. CASE op' = [op EXCEPT ![o].pending = Neighbours(n) \o rest, ![o].attachments = Append(@, n)]
    <3>1. op' = [op EXCEPT ![o] = [op[o] EXCEPT !.pending = Neighbours(n) \o rest,
                                                !.attachments = Append(op[o].attachments, n)]]
      BY <1>1, <2>3
    <3>2. QED
      BY <1>3, <3>1
  <2>4. CASE op' = [op EXCEPT ![o].pending = rest, ![o].machines = Append(@, n)]
    <3>1. op' = [op EXCEPT ![o] = [op[o] EXCEPT !.pending = rest,
                                                !.machines = Append(op[o].machines, n)]]
      BY <1>1, <2>4
    <3>2. QED
      BY <1>3, <3>1
  <2>5. QED
    BY <2>1, <2>2, <2>3, <2>4 DEF Gather
<1>5. QED
  BY <1>1, <1>2, <1>4

LEMMA StartTickerPhase ==
    ASSUME BudgetInv, NEW o \in Purges, StartTicker(o)
    PROVE  /\ active = o /\ op'[o].phase = "running"
           /\ \A p \in Purges \ {o} : op'[p] = op[p]
BY DEF StartTicker, BudgetInv, TypesOK, Operations

LEMMA BeginTickPhase ==
    ASSUME BudgetInv, NEW o \in Purges, BeginTick(o)
    PROVE  /\ active = None /\ op'[o].phase \in {"running", "over"}
           /\ \A p \in Purges \ {o} : op'[p] = op[p]
BY DEF BeginTick, Finish, Over, BudgetInv, TypesOK, Operations

LEMMA FactorySteps == ASSUME Factory PROVE active = None /\ UNCHANGED <<op, active>>
BY DEF Factory, Carry, Release, Supply, Consume, Dismantle, LeaveWorld, Moving

LEMMA NextGathers == ASSUME GatherInv, [Next]_vars PROVE GatherInv'
<1>1. BudgetInv /\ BudgetInv'
  BY NextBudget DEF GatherInv
<1>2. CASE UNCHANGED vars
  BY <1>1, <1>2 DEF vars, factoryVars, GatherInv, Gathering, Found, Gathered, Reachable, Closed, Connected
<1>3. ASSUME NEW o \in Purges, RequestPurge(o) PROVE GatherInv'
  BY <1>1, <1>3, RequestPurgeGathers
<1>4. ASSUME NEW o \in Purges, Gather(o) PROVE GatherInv'
  BY <1>1, <1>4, GatherGathers
<1>5. ASSUME NEW o \in Purges, StartTicker(o) PROVE GatherInv'
  BY <1>1, <1>5, StartTickerPhase, GatheringIsActive, NoGathering
<1>6. ASSUME NEW o \in Purges, BeginTick(o) PROVE GatherInv'
  BY <1>1, <1>6, BeginTickPhase, GatheringIsActive, NoGathering, Limits
<1>7. ASSUME NEW o \in Purges, Callback(o) PROVE GatherInv'
  BY <1>1, <1>7, CallbackPhase, GatheringIsActive, NoGathering
<1>8. CASE Factory
  BY <1>1, <1>8, FactorySteps, GatheringIsActive, NoGathering, Limits
<1>9. QED
  BY <1>2, <1>3, <1>4, <1>5, <1>6, <1>7, <1>8 DEF Next

\* Whatever the wiring, its branches and loops, and wherever in the network
\* the target is, an operation starts with all that is within reach of its
\* target and nothing else (GatherNetworkRecursive).
THEOREM NetworkTheorem == Spec => GathersNetwork
<1> DEFINE Gathers(o) == op[o].phase = "gathering" /\ op'[o].phase = "running"
                            => Gathered(o) = Reachable(op[o].start)
<1>1. Init => GatherInv
  <2>1. ASSUME Init, NEW o \in Purges PROVE Gathering(o)
    BY <2>1 DEF Init, Gathering
  <2>2. QED
    BY <2>1, InitBudget DEF GatherInv
<1>2. GatherInv /\ [Next]_vars => GatherInv'
  BY NextGathers
<1>3. ASSUME GatherInv, [Next]_vars, NEW o \in Purges PROVE Gathers(o)
  <2> SUFFICES ASSUME op[o].phase = "gathering", op'[o].phase = "running"
               PROVE  Gathered(o) = Reachable(op[o].start)
    OBVIOUS
  <2>1. active = o /\ BudgetInv /\ o # None
    BY <1>3, GatheringIsActive, Limits DEF GatherInv
  <2>2. op[o].pending = <<>>
    <3>1. CASE UNCHANGED vars
      BY <3>1 DEF vars
    <3>2. ASSUME NEW p \in Purges, RequestPurge(p) \/ BeginTick(p) PROVE FALSE
      BY <2>1, <3>2 DEF RequestPurge, BeginTick
    <3>3. ASSUME NEW p \in Purges, Gather(p) PROVE FALSE
      <4>1. p = o /\ op \in [Purges -> Operations] /\ op[o] \in Operations
        BY <2>1, <3>3 DEF Gather, BudgetInv, TypesOK
      <4>2. op'[o].phase = op[o].phase
        BY <2>1, <3>3, <4>1, GatherPhase
      <4>3. QED
        BY <4>2
    <3>4. ASSUME NEW p \in Purges, StartTicker(p) PROVE op[o].pending = <<>>
      BY <2>1, <3>4 DEF StartTicker
    <3>5. ASSUME NEW p \in Purges, Callback(p) PROVE FALSE
      BY <2>1, <3>5, CallbackPhase
    <3>6. CASE Factory
      BY <2>1, <3>6, FactorySteps
    <3>7. QED
      BY <1>3, <3>1, <3>2, <3>3, <3>4, <3>5, <3>6 DEF Next
  <2>3. Found(o) = Gathered(o)
    BY <2>2 DEF Found, ToSet
  <2>4. /\ op[o].start \in Gathered(o) /\ Gathered(o) \subseteq Reachable(op[o].start)
        /\ Closed(Gathered(o))
    BY <1>3, <2>3 DEF GatherInv, Gathering, Closed
  <2>5. Gathered(o) \in SUBSET alive
    BY <2>4, ReachableOK
  <2>6. Reachable(op[o].start) \subseteq Gathered(o)
    BY <2>4, <2>5 DEF Reachable
  <2>7. QED
    BY <2>4, <2>6
<1>4. GatherInv /\ [Next]_vars => \A o \in Purges : Gathers(o)
  BY <1>3
<1>5. QED
  BY <1>1, <1>2, <1>4, PTL DEF Spec, GathersNetwork

-----------------------------------------------------------------------------
(* What is removed is what is counted                                       *)

\* The items of a kind in a place, and in the factory, for given belts and
\* buffers.
AmountIn(bl, bf, kind, p) == IF p \in Chains THEN Count(bl[p], kind) ELSE bf[p][kind]
Total(bl, bf, kind) ==
    (CHOOSE t : t = [s \in SUBSET Places |->
        IF s = {} THEN 0 ELSE AmountIn(bl, bf, kind, Pick(s)) + t[s \ {Pick(s)}]])[Places]

LEMMA AmountIsTotal ==
    ASSUME NEW kind
    PROVE  Amount(kind) = Total(belt, buffer, kind) /\ Amount(kind)' = Total(belt', buffer', kind)
<1>1. Amount(kind) = Total(belt, buffer, kind)
  BY DEF Amount, AmountOf, MapThenSumSet, MapThenFoldSet, Pick, Total, AmountIn
<1>2. Amount(kind)' = Total(belt', buffer', kind)
  BY DEF Amount, AmountOf, MapThenSumSet, MapThenFoldSet, Pick, Total, AmountIn
<1>3. QED
  BY <1>1, <1>2

Belts == [Chains -> Seq(Kinds)]
Buffers == [Inventories -> [Kinds -> Nat]]
AreAmounts(g, bl, bf, kind) == \A p \in Places : g[p] = AmountIn(bl, bf, kind, p)
DiffersAt(p, bl, bf, bl2, bf2, kind) ==
    \A x \in Places \ {p} : AmountIn(bl2, bf2, kind, x) = AmountIn(bl, bf, kind, x)

LEMMA AmountInNat ==
    ASSUME NEW bl \in Belts, NEW bf \in Buffers,
           NEW kind \in Kinds, NEW p \in Places
    PROVE  AmountIn(bl, bf, kind, p) \in Nat
<1>1. CASE p \in Chains
  <2>1. PICK q \in Seq(Kinds) : q = bl[p]
    BY <1>1 DEF Belts
  <2>2. QED
    BY <1>1, <2>1, CountNat DEF AmountIn
<1>2. CASE p \notin Chains
  <2>1. p \in Inventories
    BY <1>2, Limits
  <2>2. bf[p] \in [Kinds -> Nat]
    BY <2>1 DEF Buffers
  <2>3. QED
    BY <1>2, <2>2 DEF AmountIn
<1>3. QED
  BY <1>1, <1>2

LEMMA TotalIsSum ==
    ASSUME NEW bl \in Belts, NEW bf \in Buffers,
           NEW kind \in Kinds, NEW g \in [Places -> Int],
           AreAmounts(g, bl, bf, kind)
    PROVE  \E t : Sums(Places, g, t) /\ Total(bl, bf, kind) = t[Places]
<1>2. \E t : Sums(Places, g, t)
  BY Limits, SumExists
<1>3. \A t : Sums(Places, g, t) <=>
          t = [s \in SUBSET Places |->
                 IF s = {} THEN 0 ELSE AmountIn(bl, bf, kind, Pick(s)) + t[s \ {Pick(s)}]]
  <2>1. \A s \in SUBSET Places : s # {} => g[Pick(s)] = AmountIn(bl, bf, kind, Pick(s))
    BY PickIn DEF AreAmounts
  <2>2. QED
    BY <2>1 DEF Sums
<1> DEFINE t == CHOOSE t : t = [s \in SUBSET Places |->
                    IF s = {} THEN 0 ELSE AmountIn(bl, bf, kind, Pick(s)) + t[s \ {Pick(s)}]]
<1>4. Sums(Places, g, t)
  BY <1>2, <1>3
<1>5. Total(bl, bf, kind) = t[Places]
  BY DEF Total
<1> HIDE DEF t
<1>6. QED
  BY <1>4, <1>5

\* The total follows the one place that changes.
LEMMA TotalChange ==
    ASSUME NEW bl \in Belts, NEW bf \in Buffers,
           NEW bl2 \in Belts, NEW bf2 \in Buffers,
           NEW kind \in Kinds, NEW p \in Places,
           DiffersAt(p, bl, bf, bl2, bf2, kind)
    PROVE  /\ Total(bl, bf, kind) \in Int
           /\ Total(bl2, bf2, kind) =
                 Total(bl, bf, kind) - AmountIn(bl, bf, kind, p) + AmountIn(bl2, bf2, kind, p)
<1> DEFINE g == [x \in Places |-> AmountIn(bl, bf, kind, x)]
           h == [x \in Places |-> AmountIn(bl2, bf2, kind, x)]
<1>1. /\ g[p] = AmountIn(bl, bf, kind, p) /\ h[p] = AmountIn(bl2, bf2, kind, p)
      /\ AreAmounts(g, bl, bf, kind) /\ AreAmounts(h, bl2, bf2, kind) /\ SameBut(Places, p, g, h)
  BY DEF AreAmounts, SameBut, DiffersAt
<1>2. g \in [Places -> Int] /\ h \in [Places -> Int]
  <2>1. \A x \in Places : AmountIn(bl, bf, kind, x) \in Nat /\ AmountIn(bl2, bf2, kind, x) \in Nat
    BY AmountInNat
  <2>2. QED
    BY <2>1
<1> HIDE DEF g, h
<1>4. PICK t : Sums(Places, g, t) /\ Total(bl, bf, kind) = t[Places]
  BY <1>1, <1>2, TotalIsSum
<1>5. PICK u : Sums(Places, h, u) /\ Total(bl2, bf2, kind) = u[Places]
  BY <1>1, <1>2, TotalIsSum
<1>6. t[Places] \in Int
  BY <1>2, <1>4, Limits, SumInt
<1>7. u[Places] = t[Places] - g[p] + h[p]
  <2>1. IsFiniteSet(Places) /\ Sums(Places, g, t) /\ Sums(Places, h, u)
    BY <1>4, <1>5, Limits
  <2>2. QED
    BY <1>1, <1>2, <2>1, SumChange
<1>8. QED
  BY <1>1, <1>4, <1>5, <1>6, <1>7

\* What RemovesWhatItCounts says of an operation.
RemovesIts(o) ==
    /\ Amount("protected")' = Amount("protected")
    /\ Amount("sinkable")' + op'[o].removed = Amount("sinkable") + op[o].removed
    /\ \A c \in op[o].stopped : belt'[c] = belt[c]
    /\ op[o].stopped \subseteq op'[o].stopped
    /\ \A p \in Places \ Gathered(o) :
          IF p \in Chains THEN belt'[p] = belt[p] ELSE buffer'[p] = buffer[p]

LEMMA NothingRemoved ==
    ASSUME NEW o \in Purges, UNCHANGED <<belt, buffer>>, op'[o].removed = op[o].removed,
           op[o].stopped \subseteq op'[o].stopped
    PROVE  RemovesIts(o)
<1>1. Amount("protected")' = Amount("protected") /\ Amount("sinkable")' = Amount("sinkable")
  BY AmountIsTotal
<1>2. QED
  BY <1>1 DEF RemovesIts

\* The fields of an operation that has removed a batch.
LEMMA BatchFields ==
    ASSUME BudgetInv, NEW o \in Purges, Looping(o), Budget(o) > 0,
           NEW n \in Nat, n <= BatchLimit(o), NEW c, c = Counted(op[o], n)
    PROVE  /\ c.removed = op[o].removed + n /\ c.stopped = op[o].stopped
           /\ \A r : Over(c, r).removed = op[o].removed + n /\ Over(c, r).stopped = op[o].stopped
           /\ \A k : /\ [c EXCEPT !.inventory = k].removed = op[o].removed + n
                     /\ [c EXCEPT !.inventory = k].stopped = op[o].stopped
           /\ \A s, k : /\ [c EXCEPT !.stopped = s, !.chain = k].removed = op[o].removed + n
                        /\ [c EXCEPT !.stopped = s, !.chain = k].stopped = s
<1>1. c \in Operations
  BY CountedOK
<1>2. c.removed = op[o].removed + n /\ c.stopped = op[o].stopped
  BY DEF Counted, BudgetInv, TypesOK, Operations
<1>3. QED
  BY <1>1, <1>2 DEF Over, Operations

LEMMA DrainInventoryRemoves ==
    ASSUME BudgetInv, BudgetInv', NEW o \in Purges, DrainInventory(o) PROVE RemovesIts(o)
<1> DEFINE i == Inventory(o)
<1>1. PICK n \in Nat :
         /\ n <= BatchLimit(o) /\ n <= buffer[i]["sinkable"]
         /\ buffer' = [buffer EXCEPT ![i] = [@ EXCEPT !["sinkable"] = buffer[i]["sinkable"] - n]]
         /\ \/ /\ op' = [op EXCEPT ![o] = Over(Counted(op[o], n), "inventory mutation failed")]
               /\ active' = None
            \/ /\ active' = o
               /\ \/ /\ i \notin alive \/ buffer'[i]["sinkable"] = 0
                     /\ op' = [op EXCEPT ![o] =
                           [Counted(op[o], n) EXCEPT !.inventory = op[o].inventory + 1]]
                  \/ /\ i \in alive /\ n > 0
                     /\ op' = [op EXCEPT ![o] = Counted(op[o], n)]
  BY DrainInventoryStep
<1>2. /\ i \in Inventories /\ i \in Gathered(o) /\ UNCHANGED belt /\ i \in Places /\ i \notin Chains
      /\ Looping(o) /\ Budget(o) > 0
  BY DrainInventoryStep, GatheredOK, Limits DEF DrainInventory, Gathered
<1>3. /\ belt \in Belts /\ buffer \in Buffers /\ belt' \in Belts /\ buffer' \in Buffers
      /\ op \in [Purges -> Operations]
  BY DEF BudgetInv, TypesOK, FactoryOK, Belts, Buffers
<1>4. buffer[i] \in [Kinds -> Nat] /\ "sinkable" \in Kinds /\ "protected" \in Kinds
  BY <1>2, <1>3 DEF Buffers, Kinds
<1>5. op'[o].removed = op[o].removed + n /\ op'[o].stopped = op[o].stopped
  <2> DEFINE c == Counted(op[o], n)
  <2>1. /\ c.removed = op[o].removed + n /\ c.stopped = op[o].stopped
        /\ \A r : Over(c, r).removed = op[o].removed + n /\ Over(c, r).stopped = op[o].stopped
        /\ \A k : /\ [c EXCEPT !.inventory = k].removed = op[o].removed + n
                  /\ [c EXCEPT !.inventory = k].stopped = op[o].stopped
    <3>1. c = Counted(op[o], n) /\ n <= BatchLimit(o)
      BY <1>1
    <3> HIDE DEF c
    <3>2. QED
      BY <1>2, <3>1, BatchFields
  <2>2. CASE op' = [op EXCEPT ![o] = Over(c, "inventory mutation failed")]
    <3> HIDE DEF c
    <3>1. QED
      BY <1>3, <2>1, <2>2
  <2>3. CASE op' = [op EXCEPT ![o] = [c EXCEPT !.inventory = op[o].inventory + 1]]
    <3> HIDE DEF c
    <3>1. op'[o] = [c EXCEPT !.inventory = op[o].inventory + 1]
      BY <1>3, <2>3
    <3>2. QED
      BY <2>1, <3>1
  <2>4. CASE op' = [op EXCEPT ![o] = c]
    <3> HIDE DEF c
    <3>1. QED
      BY <1>3, <2>1, <2>4
  <2>5. QED
    BY <1>1, <2>2, <2>3, <2>4
<1>6. /\ buffer'[i]["sinkable"] = buffer[i]["sinkable"] - n
      /\ buffer'[i]["protected"] = buffer[i]["protected"]
      /\ \A j \in Inventories \ {i} : buffer'[j] = buffer[j]
  <2> HIDE DEF i
  <2>1. buffer' = [buffer EXCEPT ![i] = [buffer[i] EXCEPT !["sinkable"] = buffer[i]["sinkable"] - n]]
    BY <1>1
  <2>2. QED
    BY <1>2, <1>3, <1>4, <2>1 DEF Buffers
<1> HIDE DEF i
<1>7. /\ AmountIn(belt', buffer', "sinkable", i) = AmountIn(belt, buffer, "sinkable", i) - n
      /\ AmountIn(belt', buffer', "protected", i) = AmountIn(belt, buffer, "protected", i)
      /\ DiffersAt(i, belt, buffer, belt', buffer', "sinkable")
      /\ DiffersAt(i, belt, buffer, belt', buffer', "protected")
  BY <1>2, <1>6, Limits DEF AmountIn, DiffersAt
<1>8. /\ Total(belt', buffer', "sinkable") = Total(belt, buffer, "sinkable")
             - AmountIn(belt, buffer, "sinkable", i) + AmountIn(belt', buffer', "sinkable", i)
      /\ Total(belt', buffer', "protected") = Total(belt, buffer, "protected")
             - AmountIn(belt, buffer, "protected", i) + AmountIn(belt', buffer', "protected", i)
      /\ Total(belt, buffer, "sinkable") \in Int /\ Total(belt, buffer, "protected") \in Int
  BY <1>2, <1>3, <1>4, <1>7, TotalChange
<1>9. /\ AmountIn(belt, buffer, "sinkable", i) \in Nat /\ AmountIn(belt, buffer, "protected", i) \in Nat
      /\ op[o].removed \in Nat
  BY <1>2, <1>3, <1>4, AmountInNat DEF Operations
<1>10. /\ Amount("protected")' = Amount("protected")
       /\ Amount("sinkable")' + op'[o].removed = Amount("sinkable") + op[o].removed
  BY <1>5, <1>7, <1>8, <1>9, AmountIsTotal
<1>11. QED
  BY <1>2, <1>5, <1>6, <1>10, Limits DEF RemovesIts

LEMMA DrainChainRemoves ==
    ASSUME BudgetInv, BudgetInv', NEW o \in Purges, DrainChain(o) PROVE RemovesIts(o)
<1> DEFINE c == Chain(o)
<1>1. PICK n \in Nat :
         /\ n <= BatchLimit(o) /\ n <= Eligible(belt[c])
         /\ belt' = [belt EXCEPT ![c] = SubSeq(belt[c], n + 1, Len(belt[c]))]
         /\ \/ /\ op' = [op EXCEPT ![o] = Over(Counted(op[o], n), "conveyor mutation failed")]
               /\ active' = None
            \/ /\ active' = o
               /\ \E stopped \in SetsOfChains, chain \in Positions :
                     /\ op' = [op EXCEPT ![o] =
                           [Counted(op[o], n) EXCEPT !.stopped = stopped, !.chain = chain]]
                     /\ \/ stopped = op[o].stopped \cup {c} /\ chain = op[o].chain + 1
                        \/ stopped = op[o].stopped /\ chain = op[o].chain + 1 /\ n = Len(belt[c])
                        \/ stopped = op[o].stopped /\ chain = op[o].chain
  BY DrainChainStep
<1>2. /\ c \in Chains /\ c \in Gathered(o) /\ c \notin op[o].stopped /\ UNCHANGED buffer /\ c \in Places
      /\ Looping(o) /\ Budget(o) > 0
  BY DrainChainStep, Limits DEF DrainChain, Gathered
<1>3. /\ belt \in Belts /\ buffer \in Buffers /\ belt' \in Belts /\ buffer' \in Buffers
      /\ op \in [Purges -> Operations]
  BY DEF BudgetInv, TypesOK, FactoryOK, Belts, Buffers
<1>4. "sinkable" \in Kinds /\ "protected" \in Kinds
  BY DEF Kinds
<1>5. op'[o].removed = op[o].removed + n /\ op[o].stopped \subseteq op'[o].stopped
  <2> DEFINE q == Counted(op[o], n)
  <2>1. /\ \A r : Over(q, r).removed = op[o].removed + n /\ Over(q, r).stopped = op[o].stopped
        /\ \A s, k : /\ [q EXCEPT !.stopped = s, !.chain = k].removed = op[o].removed + n
                     /\ [q EXCEPT !.stopped = s, !.chain = k].stopped = s
    <3>1. q = Counted(op[o], n) /\ n <= BatchLimit(o)
      BY <1>1
    <3> HIDE DEF q
    <3>2. QED
      BY <1>2, <3>1, BatchFields
  <2>2. CASE op' = [op EXCEPT ![o] = Over(q, "conveyor mutation failed")]
    <3> HIDE DEF q
    <3>1. QED
      BY <1>3, <2>1, <2>2
  <2>3. ASSUME NEW stopped, NEW chain, op[o].stopped \subseteq stopped,
               op' = [op EXCEPT ![o] = [q EXCEPT !.stopped = stopped, !.chain = chain]]
        PROVE  op'[o].removed = op[o].removed + n /\ op[o].stopped \subseteq op'[o].stopped
    <3> HIDE DEF q
    <3>1. op'[o] = [q EXCEPT !.stopped = stopped, !.chain = chain]
      BY <1>3, <2>3
    <3>2. /\ [q EXCEPT !.stopped = stopped, !.chain = chain].removed = op[o].removed + n
          /\ [q EXCEPT !.stopped = stopped, !.chain = chain].stopped = stopped
      BY <2>1
    <3>3. QED
      BY <2>3, <3>1, <3>2
  <2>4. QED
    BY <1>1, <2>2, <2>3
<1>6. PICK q \in Seq(Kinds) : q = belt[c]
  BY <1>2, <1>3 DEF Belts
<1>7. n \in 0 .. Len(q) /\ \A k \in 1 .. n : q[k] = "sinkable"
  <2>1. Eligible(q) \in 0 .. Len(q) /\ \A k \in 1 .. Eligible(q) : q[k] = "sinkable"
    BY EligibleOf
  <2>2. n <= Eligible(q) /\ Len(q) \in Nat
    <3>1. n <= Eligible(belt[c])
      BY <1>1
    <3> HIDE DEF c
    <3>2. QED
      BY <1>6, <3>1
  <2>3. QED
    BY <2>1, <2>2
<1>8. /\ belt'[c] = SubSeq(q, n + 1, Len(q))
      /\ \A d \in Chains \ {c} : belt'[d] = belt[d]
  BY <1>1, <1>2, <1>3, <1>6 DEF Belts
<1> HIDE DEF c
<1>9. /\ Count(belt'[c], "sinkable") = Count(belt[c], "sinkable") - n
      /\ Count(belt'[c], "protected") = Count(belt[c], "protected")
  BY <1>6, <1>7, <1>8, CountDropped
<1>10. /\ AmountIn(belt', buffer', "sinkable", c) = AmountIn(belt, buffer, "sinkable", c) - n
       /\ AmountIn(belt', buffer', "protected", c) = AmountIn(belt, buffer, "protected", c)
       /\ DiffersAt(c, belt, buffer, belt', buffer', "sinkable")
       /\ DiffersAt(c, belt, buffer, belt', buffer', "protected")
  BY <1>2, <1>8, <1>9 DEF AmountIn, DiffersAt
<1>11. /\ Total(belt', buffer', "sinkable") = Total(belt, buffer, "sinkable")
              - AmountIn(belt, buffer, "sinkable", c) + AmountIn(belt', buffer', "sinkable", c)
       /\ Total(belt', buffer', "protected") = Total(belt, buffer, "protected")
              - AmountIn(belt, buffer, "protected", c) + AmountIn(belt', buffer', "protected", c)
       /\ Total(belt, buffer, "sinkable") \in Int /\ Total(belt, buffer, "protected") \in Int
  BY <1>2, <1>3, <1>4, <1>10, TotalChange
<1>12. /\ AmountIn(belt, buffer, "sinkable", c) \in Nat /\ AmountIn(belt, buffer, "protected", c) \in Nat
       /\ op[o].removed \in Nat
  BY <1>2, <1>3, <1>4, AmountInNat DEF Operations
<1>13. /\ Amount("protected")' = Amount("protected")
       /\ Amount("sinkable")' + op'[o].removed = Amount("sinkable") + op[o].removed
  BY <1>5, <1>10, <1>11, <1>12, AmountIsTotal
<1>14. op[o].stopped \subseteq Chains
  BY <1>3 DEF Operations, SetsOfChains
<1>15. QED
  BY <1>2, <1>5, <1>8, <1>13, <1>14 DEF RemovesIts

LEMMA OtherStepsRemove ==
    ASSUME BudgetInv, NEW o \in Purges,
           \/ Gather(o) \/ StartTicker(o) \/ EndTick(o) \/ BudgetExhausted(o)
           \/ SkipChain(o) \/ Complete(o) \/ NextPass(o)
    PROVE  RemovesIts(o)
<1>1. op \in [Purges -> Operations] /\ op[o] \in Operations
  BY DEF BudgetInv, TypesOK
<1>2. UNCHANGED <<belt, buffer>>
  BY DEF Gather, StartTicker, EndTick, BudgetExhausted, SkipChain, Complete, NextPass, factoryVars
<1>3. op'[o].removed = op[o].removed /\ op[o].stopped \subseteq op'[o].stopped
  <2>1. CASE Gather(o)
    <3> DEFINE n == Head(op[o].pending)
               rest == Tail(op[o].pending)
    <3>1. \/ op' = [op EXCEPT ![o].pending = rest]
          \/ op' = [op EXCEPT ![o].pending = Neighbours(n) \o rest, ![o].chains = Append(@, n)]
          \/ op' = [op EXCEPT ![o].pending = Neighbours(n) \o rest, ![o].attachments = Append(@, n)]
          \/ op' = [op EXCEPT ![o].pending = rest, ![o].machines = Append(@, n)]
      BY <2>1 DEF Gather
    <3>2. CASE op' = [op EXCEPT ![o].pending = rest]
      BY <1>1, <3>2 DEF Operations
    <3>3. CASE op' = [op EXCEPT ![o].pending = Neighbours(n) \o rest, ![o].chains = Append(@, n)]
      BY <1>1, <3>3 DEF Operations
    <3>4. CASE op' = [op EXCEPT ![o].pending = Neighbours(n) \o rest, ![o].attachments = Append(@, n)]
      BY <1>1, <3>4 DEF Operations
    <3>5. CASE op' = [op EXCEPT ![o].pending = rest, ![o].machines = Append(@, n)]
      BY <1>1, <3>5 DEF Operations
    <3>6. QED
      BY <3>1, <3>2, <3>3, <3>4, <3>5
  <2>2. CASE StartTicker(o)
    BY <1>1, <2>2 DEF StartTicker, Operations
  <2>3. CASE EndTick(o)
    BY <1>1, <2>3 DEF EndTick, Operations
  <2>4. CASE BudgetExhausted(o)
    BY <1>1, <2>4 DEF BudgetExhausted, Finish, Over, Operations
  <2>5. CASE SkipChain(o)
    BY <1>1, <2>5 DEF SkipChain, Operations
  <2>6. CASE Complete(o)
    BY <1>1, <2>6 DEF Complete, Finish, Over, Operations
  <2>7. CASE NextPass(o)
    BY <1>1, <2>7 DEF NextPass, FromTheStart, Operations
  <2>8. QED
    BY <2>1, <2>2, <2>3, <2>4, <2>5, <2>6, <2>7
<1>4. QED
  BY <1>2, <1>3, NothingRemoved

\* An operation takes out of the factory exactly the sinkable items that it
\* counts, and none out of a chain it has stopped at or a place outside of its
\* network, whatever the other operations and the factory have done between
\* its callbacks (Tick, EmptyChainBatch, RemoveEligibleInventoryItems).
THEOREM RemovalTheorem == Spec => RemovesWhatItCounts
<1>1. ASSUME BudgetInv, [Next]_vars, NEW o \in Purges, active = o PROVE RemovesIts(o)
  <2>1. BudgetInv' /\ o # None
    BY <1>1, NextBudget, Limits
  <2>2. CASE UNCHANGED vars
    <3>1. UNCHANGED <<belt, buffer>> /\ op' = op
      BY <2>2 DEF vars, factoryVars
    <3>2. QED
      BY <3>1, NothingRemoved
  <2>3. ASSUME NEW p \in Purges, RequestPurge(p) \/ BeginTick(p) PROVE FALSE
    BY <1>1, <2>1, <2>3 DEF RequestPurge, BeginTick
  <2>4. ASSUME NEW p \in Purges, Gather(p) \/ StartTicker(p) PROVE RemovesIts(o)
    <3>1. p = o
      BY <1>1, <2>4 DEF Gather, StartTicker
    <3>2. QED
      BY <1>1, <2>4, <3>1, OtherStepsRemove
  <2>5. ASSUME NEW p \in Purges, Callback(p) PROVE RemovesIts(o)
    <3>1. p = o
      BY <1>1, <2>5, CallbackPhase
    <3>2. QED
      BY <1>1, <2>1, <2>5, <3>1, OtherStepsRemove, DrainInventoryRemoves, DrainChainRemoves DEF Callback
  <2>6. CASE Factory
    BY <1>1, <2>1, <2>6, FactorySteps
  <2>7. QED
    BY <1>1, <2>2, <2>3, <2>4, <2>5, <2>6 DEF Next
<1>2. BudgetInv /\ [Next]_vars =>
         \A o \in Purges : active = o =>
            /\ Amount("protected")' = Amount("protected")
            /\ Amount("sinkable")' + op'[o].removed = Amount("sinkable") + op[o].removed
            /\ \A c \in op[o].stopped : belt'[c] = belt[c]
            /\ op[o].stopped \subseteq op'[o].stopped
            /\ \A p \in Places \ Gathered(o) :
                  IF p \in Chains THEN belt'[p] = belt[p] ELSE buffer'[p] = buffer[p]
  BY <1>1 DEF RemovesIts
<1>3. QED
  BY <1>2, BudgetAlways, PTL DEF Spec, RemovesWhatItCounts

-----------------------------------------------------------------------------
(* A pass                                                                   *)

\* A pass that has not begun.
LEMMA AtTheStart ==
    ASSUME BudgetInv', NEW o \in Purges,
           op'[o].phase = "running" /\ op'[o].whole => op'[o].inventory = 1 /\ op'[o].chain = 1
    PROVE  Passed(o)'
<1>1. op'[o].chains \in Seq(Chains) /\ op'[o].machines \in Seq(Machines) /\ op'[o].attachments \in Seq(Attachments)
  BY DEF BudgetInv, TypesOK, Operations
<1>2. op'[o].machines \in Seq(Inventories) /\ op'[o].attachments \in Seq(Inventories)
  BY <1>1, Limits
<1>3. InventoriesOf(o)' \in Seq(Inventories)
  BY <1>2 DEF InventoriesOf
<1>4. (\A j \in DOMAIN InventoriesOf(o)' : ~(j < 1)) /\ \A j \in DOMAIN op'[o].chains : ~(j < 1)
  BY <1>1, <1>3
<1>5. QED
  BY <1>4 DEF Passed

\* The operations that are not on the game thread are at the start of a pass,
\* or their pass is not whole.
LEMMA OthersPassed ==
    ASSUME PassInv, BudgetInv', NEW o \in Purges, active \in {o, None},
           \A p \in Purges \ {o} : op'[p] = op[p], Passed(o)'
    PROVE  PassInv'
<1>1. ASSUME NEW p \in Purges \ {o} PROVE Passed(p)'
  <2>1. active # p
    BY Limits
  <2>2. op'[p].phase = "running" /\ op'[p].whole => op'[p].inventory = 1 /\ op'[p].chain = 1
    BY <2>1 DEF PassInv, Passed
  <2>3. QED
    BY <2>2, AtTheStart
<1>2. QED
  BY <1>1 DEF PassInv

\* What is empty of sinkable items stays so in a callback.
DrainedThen(x) == x \in alive' => buffer'[x]["sinkable"] = 0
ClearedThen(x) == x \in alive' => Eligible(belt'[x]) = 0

LEMMA DrainInventoryPasses ==
    ASSUME PassInv, BudgetInv', NEW o \in Purges, DrainInventory(o) PROVE Passed(o)'
<1> DEFINE i == Inventory(o)
<1>1. PICK n \in Nat :
         /\ n <= BatchLimit(o) /\ n <= buffer[i]["sinkable"]
         /\ buffer' = [buffer EXCEPT ![i] = [@ EXCEPT !["sinkable"] = buffer[i]["sinkable"] - n]]
         /\ \/ /\ op' = [op EXCEPT ![o] = Over(Counted(op[o], n), "inventory mutation failed")]
               /\ active' = None
            \/ /\ active' = o
               /\ \/ /\ i \notin alive \/ buffer'[i]["sinkable"] = 0
                     /\ op' = [op EXCEPT ![o] =
                           [Counted(op[o], n) EXCEPT !.inventory = op[o].inventory + 1]]
                  \/ /\ i \in alive /\ n > 0
                     /\ op' = [op EXCEPT ![o] = Counted(op[o], n)]
  BY DrainInventoryStep DEF PassInv
<1>2. /\ i \in Inventories /\ UNCHANGED <<belt, alive, wire>> /\ Looping(o) /\ Budget(o) > 0
      /\ op[o].phase = "running" /\ active = o
      /\ BudgetInv /\ op \in [Purges -> Operations] /\ op[o] \in Operations
  BY DrainInventoryStep DEF DrainInventory, Looping, PassInv, BudgetInv, TypesOK
<1>3. buffer \in [Inventories -> [Kinds -> Nat]] /\ "sinkable" \in Kinds /\ buffer[i] \in [Kinds -> Nat]
  BY <1>2 DEF BudgetInv, TypesOK, FactoryOK, Kinds
<1>4. ASSUME NEW x \in Inventories, Drained(x) PROVE DrainedThen(x)
  <2>1. CASE x = i
    <3>1. i \in alive => n = 0
      <4>1. i \in alive => buffer[i]["sinkable"] = 0
        BY <1>4, <2>1 DEF Drained
      <4>2. n <= buffer[i]["sinkable"]
        BY <1>1
      <4> HIDE DEF i
      <4>3. QED
        BY <4>1, <4>2
    <3>2. buffer'[i]["sinkable"] = buffer[i]["sinkable"] - n
      <4> HIDE DEF i
      <4>1. QED
        BY <1>1, <1>2, <1>3
    <3>3. QED
      BY <1>2, <1>4, <2>1, <3>1, <3>2 DEF Drained, DrainedThen
  <2>2. CASE x # i
    <3>1. buffer'[x] = buffer[x]
      <4> HIDE DEF i
      <4>1. QED
        BY <1>1, <1>2, <1>3, <2>2
    <3>2. QED
      BY <1>2, <1>4, <3>1 DEF Drained, DrainedThen
  <2>3. QED
    BY <2>1, <2>2
<1> DEFINE c == Counted(op[o], n)
\* The operation after the step, unless it is over.
<1>5. ASSUME NEW k, op'[o] = [c EXCEPT !.inventory = k], op'[o].whole,
             k = op[o].inventory \/ (k = op[o].inventory + 1 /\ DrainedThen(i))
      PROVE  Passed(o)'
  <2>1. /\ op'[o].whole = op[o].whole /\ op'[o].inventory = k /\ op'[o].chain = op[o].chain
        /\ op'[o].chains = op[o].chains /\ op'[o].machines = op[o].machines
        /\ op'[o].attachments = op[o].attachments /\ op'[o].stopped = op[o].stopped
    <3>1. c \in Operations
      BY <1>1, <1>2, CountedOK
    <3>2. /\ c.whole = op[o].whole /\ c.chain = op[o].chain
          /\ c.chains = op[o].chains /\ c.machines = op[o].machines
          /\ c.attachments = op[o].attachments /\ c.stopped = op[o].stopped
      BY <1>2 DEF Counted, Operations
    <3> HIDE DEF c
    <3>3. DOMAIN c = DOMAIN op[o] /\ "inventory" \in DOMAIN op[o]
      BY <1>2, <3>1 DEF Operations
    <3>4. op'[o].inventory = k
      BY <1>5, <3>3
    <3>5. \A f : f # "inventory" /\ f \in DOMAIN c => op'[o][f] = c[f]
      BY <1>5
    <3>6. {"whole", "chain", "chains", "machines", "attachments", "stopped"} \subseteq DOMAIN c
      BY <3>1 DEF Operations
    <3>7. QED
      BY <3>2, <3>4, <3>5, <3>6
  <2>2. InventoriesOf(o)' = InventoriesOf(o)
    BY <2>1 DEF InventoriesOf
  <2>3. /\ \A j \in DOMAIN InventoriesOf(o) : j < op[o].inventory => Drained(InventoriesOf(o)[j])
        /\ \A j \in DOMAIN op[o].chains :
              j < op[o].chain => op[o].chains[j] \in op[o].stopped \/ Cleared(op[o].chains[j])
    BY <1>2, <1>5, <2>1 DEF PassInv, Passed
  <2>4. \A j \in DOMAIN op'[o].chains :
           j < op'[o].chain => op'[o].chains[j] \in op'[o].stopped \/ Cleared(op[o].chains[j])'
    BY <1>2, <2>1, <2>3 DEF Cleared
  <2>5. ASSUME NEW j \in DOMAIN InventoriesOf(o), j < k PROVE DrainedThen(InventoriesOf(o)[j])
    <3>1. PICK x \in Inventories : x = InventoriesOf(o)[j] /\ j \in Nat
      <4>1. InventoriesOf(o) \in Seq(Inventories)
        BY <1>2, GatheredOK
      <4>2. QED
        BY <4>1
    <3>2. op[o].inventory \in Nat
      BY <1>2 DEF Operations, Positions
    <3>3. CASE j < op[o].inventory
      <4>1. Drained(x)
        BY <2>3, <3>1, <3>3
      <4>2. DrainedThen(x)
        BY <1>4, <4>1
      <4>3. QED
        BY <3>1, <4>2
    <3>4. CASE ~(j < op[o].inventory)
      <4>1. j = op[o].inventory /\ DrainedThen(i)
        BY <1>5, <2>5, <3>1, <3>2, <3>4
      <4>2. QED
        BY <4>1 DEF Inventory
    <3>5. QED
      BY <3>3, <3>4
  <2>6. active' = o
    <3>1. op'[o].phase # "over"
      <4>1. c.phase = "running"
        BY <1>2 DEF Counted, Operations
      <4>2. op'[o].phase = c.phase
        BY <1>2, <1>5 DEF Counted, Operations
      <4>3. QED
        BY <4>1, <4>2
    <3>2. Over(c, "inventory mutation failed").phase = "over"
      BY <1>2 DEF Counted, Over, Operations
    <3>3. CASE active' = o
      BY <3>3
    <3>4. CASE op' = [op EXCEPT ![o] = Over(c, "inventory mutation failed")]
      <4> HIDE DEF c
      <4>1. QED
        BY <1>2, <3>1, <3>2, <3>4
    <3>5. QED
      BY <1>1, <3>3, <3>4
  <2>7. QED
    <3>1. \A j \in DOMAIN InventoriesOf(o)' : j < op'[o].inventory => Drained(InventoriesOf(o)[j])'
      BY <2>1, <2>2, <2>5 DEF Drained, DrainedThen
    <3>2. QED
      BY <2>4, <2>6, <3>1 DEF Passed
<1>6. CASE op' = [op EXCEPT ![o] = Over(c, "inventory mutation failed")]
  <2>1. Over(c, "inventory mutation failed").phase = "over"
    BY <1>2 DEF Counted, Over, Operations
  <2>2. op'[o].phase = "over"
    <3> HIDE DEF c
    <3>1. QED
      BY <1>2, <1>6, <2>1
  <2>3. QED
    BY <2>2 DEF Passed
<1>7. CASE (i \notin alive \/ buffer'[i]["sinkable"] = 0)
           /\ op' = [op EXCEPT ![o] = [c EXCEPT !.inventory = op[o].inventory + 1]]
  <2>1. op'[o] = [c EXCEPT !.inventory = op[o].inventory + 1]
    <3> HIDE DEF c
    <3>1. QED
      BY <1>2, <1>7
  <2>2. DrainedThen(i)
    BY <1>2, <1>7 DEF DrainedThen
  <2>3. CASE op'[o].whole
    BY <1>5, <2>1, <2>2, <2>3
  <2>4. CASE ~op'[o].whole
    BY <2>4 DEF Passed
  <2>5. QED
    BY <2>3, <2>4
<1>8. CASE op' = [op EXCEPT ![o] = c]
  <2>1. op'[o] = c /\ c = [c EXCEPT !.inventory = op[o].inventory]
    <3>1. op'[o] = c
      <4> HIDE DEF c
      <4>1. QED
        BY <1>2, <1>8
    <3>2. QED
      BY <1>2, <3>1 DEF Counted, Operations
  <2>2. CASE op'[o].whole
    BY <1>5, <2>1, <2>2
  <2>3. CASE ~op'[o].whole
    BY <2>3 DEF Passed
  <2>4. QED
    BY <2>2, <2>3
<1>9. QED
  BY <1>1, <1>6, <1>7, <1>8

LEMMA DrainChainPasses ==
    ASSUME PassInv, BudgetInv', NEW o \in Purges, DrainChain(o) PROVE Passed(o)'
<1> DEFINE c == Chain(o)
<1>1. PICK n \in Nat :
         /\ n <= BatchLimit(o) /\ n <= Eligible(belt[c])
         /\ belt' = [belt EXCEPT ![c] = SubSeq(belt[c], n + 1, Len(belt[c]))]
         /\ \/ /\ op' = [op EXCEPT ![o] = Over(Counted(op[o], n), "conveyor mutation failed")]
               /\ active' = None
            \/ /\ active' = o
               /\ \E stopped \in SetsOfChains, chain \in Positions :
                     /\ op' = [op EXCEPT ![o] =
                           [Counted(op[o], n) EXCEPT !.stopped = stopped, !.chain = chain]]
                     /\ \/ stopped = op[o].stopped \cup {c} /\ chain = op[o].chain + 1
                        \/ stopped = op[o].stopped /\ chain = op[o].chain + 1 /\ n = Len(belt[c])
                        \/ stopped = op[o].stopped /\ chain = op[o].chain
  BY DrainChainStep DEF PassInv
<1>2. /\ c \in Chains /\ UNCHANGED <<buffer, alive, wire>> /\ Looping(o) /\ Budget(o) > 0
      /\ op[o].phase = "running" /\ active = o /\ op[o].chain \in DOMAIN op[o].chains
      /\ BudgetInv /\ op \in [Purges -> Operations] /\ op[o] \in Operations
  BY DrainChainStep DEF DrainChain, Looping, PassInv, BudgetInv, TypesOK
<1>3. belt \in [Chains -> Seq(Kinds)] /\ op[o].chains \in Seq(Chains) /\ IsInjective(op[o].chains)
  BY <1>2 DEF BudgetInv, TypesOK, FactoryOK, Operations, OperationOK
<1>4. \A x \in Chains \ {c} : Cleared(x) => ClearedThen(x)
  <2> HIDE DEF c
  <2>1. \A x \in Chains \ {c} : belt'[x] = belt[x]
    BY <1>1, <1>2, <1>3
  <2>2. QED
    BY <1>2, <2>1 DEF Cleared, ClearedThen
<1>5. n = Len(belt[c]) => ClearedThen(c)
  <2>1. PICK q \in Seq(Kinds) : q = belt[c]
    BY <1>2, <1>3
  <2>2. n = Len(q) => SubSeq(q, n + 1, Len(q)) = <<>>
    OBVIOUS
  <2> HIDE DEF c
  <2>3. belt'[c] = SubSeq(q, n + 1, Len(q))
    BY <1>1, <1>2, <1>3, <2>1
  <2>4. QED
    BY <2>1, <2>2, <2>3, EligibleOfNone DEF ClearedThen
<1> DEFINE q == Counted(op[o], n)
<1>6. q \in Operations
  BY <1>1, <1>2, CountedOK
<1>7. /\ q.whole = op[o].whole /\ q.inventory = op[o].inventory
      /\ q.chains = op[o].chains /\ q.machines = op[o].machines
      /\ q.attachments = op[o].attachments
  BY <1>2 DEF Counted, Operations
<1>8. CASE op' = [op EXCEPT ![o] = Over(q, "conveyor mutation failed")]
  <2>1. Over(q, "conveyor mutation failed").phase = "over"
    BY <1>2 DEF Counted, Over, Operations
  <2>2. op'[o].phase = "over"
    <3> HIDE DEF q
    <3>1. QED
      BY <1>2, <1>8, <2>1
  <2>3. QED
    BY <2>2 DEF Passed
<1>9. ASSUME NEW stopped \in SetsOfChains, NEW chain \in Positions, active' = o,
             op' = [op EXCEPT ![o] = [q EXCEPT !.stopped = stopped, !.chain = chain]],
             \/ stopped = op[o].stopped \cup {c} /\ chain = op[o].chain + 1
             \/ stopped = op[o].stopped /\ chain = op[o].chain + 1 /\ n = Len(belt[c])
             \/ stopped = op[o].stopped /\ chain = op[o].chain
      PROVE  Passed(o)'
  <2> HIDE DEF q
  <2>1. op'[o] = [q EXCEPT !.stopped = stopped, !.chain = chain]
    BY <1>2, <1>9
  <2>2. op'[o].chain = chain /\ op'[o].stopped = stopped
    BY <1>6, <2>1 DEF Operations
  <2>3. \A f \in DOMAIN q \ {"chain", "stopped"} : op'[o][f] = q[f]
    BY <2>1
  <2>4. {"whole", "inventory", "chains", "machines", "attachments"} \subseteq DOMAIN q \ {"chain", "stopped"}
    BY <1>6 DEF Operations
  <2>5. /\ op'[o].whole = op[o].whole /\ op'[o].inventory = op[o].inventory
        /\ op'[o].chains = op[o].chains /\ op'[o].machines = op[o].machines
        /\ op'[o].attachments = op[o].attachments
    BY <1>7, <2>3, <2>4
  <2>6. InventoriesOf(o)' = InventoriesOf(o)
    BY <2>5 DEF InventoriesOf
  <2>7. CASE ~op[o].whole
    BY <2>5, <2>7 DEF Passed
  <2>8. CASE op[o].whole
    <3>1. /\ \A j \in DOMAIN InventoriesOf(o) : j < op[o].inventory => Drained(InventoriesOf(o)[j])
          /\ \A j \in DOMAIN op[o].chains :
                j < op[o].chain => op[o].chains[j] \in op[o].stopped \/ Cleared(op[o].chains[j])
      BY <1>2, <2>8 DEF PassInv, Passed
    <3>2. \A j \in DOMAIN InventoriesOf(o)' : j < op'[o].inventory => Drained(InventoriesOf(o)[j])'
      BY <1>2, <2>5, <2>6, <3>1 DEF Drained
    <3>3. ASSUME NEW j \in DOMAIN op[o].chains, j < chain
          PROVE  op[o].chains[j] \in stopped \/ ClearedThen(op[o].chains[j])
      <4>1. j \in Nat /\ op[o].chain \in Nat /\ op[o].chains[j] \in Chains
        BY <1>2, <1>3
      <4>2. CASE j < op[o].chain
        <5>1. op[o].chains[j] # c
          BY <1>2, <1>3, <4>1, <4>2 DEF IsInjective, Chain
        <5>2. op[o].chains[j] \in op[o].stopped \/ Cleared(op[o].chains[j])
          BY <3>1, <4>2
        <5>3. op[o].stopped \subseteq stopped
          BY <1>9
        <5>4. PICK x \in Chains \ {c} : x = op[o].chains[j]
          BY <4>1, <5>1
        <5> HIDE DEF c
        <5>5. QED
          BY <1>4, <5>2, <5>3, <5>4
      <4>3. CASE ~(j < op[o].chain)
        <5>1. j = op[o].chain /\ op[o].chains[j] = c
          BY <1>9, <3>3, <4>1, <4>3 DEF Chain
        <5>2. c \in stopped \/ n = Len(belt[c])
          <6> HIDE DEF c
          <6>1. QED
            BY <1>9, <3>3, <4>1, <4>3
        <5> HIDE DEF c
        <5>3. QED
          BY <1>5, <5>1, <5>2
      <4>4. QED
        BY <4>2, <4>3
    <3>4. \A j \in DOMAIN op'[o].chains :
             j < op'[o].chain => op'[o].chains[j] \in op'[o].stopped \/ Cleared(op[o].chains[j])'
      BY <2>2, <2>5, <3>3 DEF Cleared, ClearedThen
    <3>5. QED
      BY <1>9, <3>2, <3>4 DEF Passed
  <2>9. QED
    BY <2>7, <2>8
<1>10. QED
  BY <1>1, <1>8, <1>9

LEMMA SkipChainPasses ==
    ASSUME PassInv, BudgetInv', NEW o \in Purges, SkipChain(o) PROVE Passed(o)'
<1> DEFINE c == Chain(o)
<1>1. /\ UNCHANGED <<belt, buffer, alive>> /\ active = o /\ active' = o /\ op[o].phase = "running"
      /\ op \in [Purges -> Operations] /\ op[o] \in Operations
  BY DEF SkipChain, Looping, PassInv, BudgetInv, TypesOK, factoryVars
<1>2. op'[o] = [op[o] EXCEPT !.stopped = @ \cup {c}, !.chain = @ + 1, !.work = @ + 1]
  BY <1>1 DEF SkipChain
<1> HIDE DEF c
<1>3. /\ op'[o].whole = op[o].whole /\ op'[o].inventory = op[o].inventory
      /\ op'[o].chains = op[o].chains /\ op'[o].machines = op[o].machines
      /\ op'[o].attachments = op[o].attachments
      /\ op'[o].stopped = op[o].stopped \cup {c} /\ op'[o].chain = op[o].chain + 1
  BY <1>1, <1>2 DEF Operations
<1>4. InventoriesOf(o)' = InventoriesOf(o)
  BY <1>3 DEF InventoriesOf
<1>5. CASE ~op[o].whole
  BY <1>3, <1>5 DEF Passed
<1>6. CASE op[o].whole
  <2>1. /\ \A j \in DOMAIN InventoriesOf(o) : j < op[o].inventory => Drained(InventoriesOf(o)[j])
        /\ \A j \in DOMAIN op[o].chains :
              j < op[o].chain => op[o].chains[j] \in op[o].stopped \/ Cleared(op[o].chains[j])
    BY <1>1, <1>6 DEF PassInv, Passed
  <2>2. \A j \in DOMAIN InventoriesOf(o)' : j < op'[o].inventory => Drained(InventoriesOf(o)[j])'
    BY <1>1, <1>3, <1>4, <2>1 DEF Drained
  <2>3. \A j \in DOMAIN op[o].chains : j < op[o].chain + 1 => j < op[o].chain \/ op[o].chains[j] = c
    <3>1. op[o].chains \in Seq(Chains) /\ op[o].chain \in Nat
      BY <1>1 DEF Operations, Positions
    <3>2. \A j \in DOMAIN op[o].chains : j < op[o].chain + 1 => j < op[o].chain \/ j = op[o].chain
      BY <3>1
    <3>3. QED
      BY <3>2 DEF Chain, c
  <2>4. \A j \in DOMAIN op'[o].chains :
           j < op'[o].chain => op'[o].chains[j] \in op'[o].stopped \/ Cleared(op[o].chains[j])'
    BY <1>1, <1>3, <2>1, <2>3 DEF Cleared
  <2>5. QED
    BY <1>1, <2>2, <2>4 DEF Passed
<1>7. QED
  BY <1>5, <1>6

LEMMA CallbackPasses ==
    ASSUME PassInv, BudgetInv', NEW o \in Purges, Callback(o) PROVE Passed(o)'
<1>1. /\ op \in [Purges -> Operations] /\ op[o] \in Operations /\ active = o
  BY CallbackPhase DEF PassInv, BudgetInv, TypesOK
<1>2. CASE EndTick(o)
  <2>1. op'[o] = [op[o] EXCEPT !.whole = op[o].whole /\ op[o].inventory = 1 /\ op[o].chain = 1
                                                    /\ op[o].removedThisPass = 0]
    BY <1>1, <1>2 DEF EndTick
  <2>2. op'[o].whole => op'[o].inventory = 1 /\ op'[o].chain = 1
    <3> DEFINE b == op[o].whole /\ op[o].inventory = 1 /\ op[o].chain = 1 /\ op[o].removedThisPass = 0
    <3>1. b => op[o].inventory = 1 /\ op[o].chain = 1
      OBVIOUS
    <3>2. op'[o] = [op[o] EXCEPT !.whole = b]
      BY <2>1
    <3> HIDE DEF b
    <3>3. (op'[o].whole <=> b) /\ op'[o].inventory = op[o].inventory /\ op'[o].chain = op[o].chain
      BY <1>1, <3>2 DEF Operations
    <3>4. QED
      BY <3>1, <3>3
  <2>3. QED
    BY <2>2, AtTheStart
<1>3. CASE BudgetExhausted(o) \/ Complete(o)
  <2>1. op'[o].phase = "over"
    <3>1. PICK result \in Results : op' = [op EXCEPT ![o] = Over(op[o], result)]
      BY <1>3 DEF BudgetExhausted, Complete, Finish, Results
    <3>2. Over(op[o], result).phase = "over"
      BY <1>1 DEF Over, Operations
    <3>3. QED
      BY <1>1, <3>1, <3>2
  <2>2. QED
    BY <2>1 DEF Passed
<1>4. CASE NextPass(o)
  <2>1. op'[o] = FromTheStart(op[o])
    BY <1>1, <1>4 DEF NextPass
  <2>2. op'[o].inventory = 1 /\ op'[o].chain = 1
    BY <1>1, <2>1 DEF FromTheStart, Operations
  <2>3. QED
    BY <2>2, AtTheStart
<1>5. QED
  BY <1>2, <1>3, <1>4, DrainInventoryPasses, DrainChainPasses, SkipChainPasses DEF Callback

LEMMA NextPasses == ASSUME PassInv, [Next]_vars PROVE PassInv'
<1>1. BudgetInv /\ BudgetInv' /\ op \in [Purges -> Operations]
  BY NextBudget DEF PassInv, BudgetInv, TypesOK
<1>2. CASE UNCHANGED vars
  BY <1>1, <1>2 DEF vars, factoryVars, PassInv, Passed, InventoriesOf, Drained, Cleared
<1>3. ASSUME NEW o \in Purges, RequestPurge(o) PROVE PassInv'
  <2>1. active = None /\ op[o].phase = "none" /\ op[o] \in Operations
    BY <1>1, <1>3 DEF RequestPurge
  <2>2. PICK t : op' = [op EXCEPT ![o].phase = "gathering", ![o].start = t, ![o].pending = <<t>>]
    BY <1>3 DEF RequestPurge
  <2>3. op'[o].phase = "gathering" /\ \A p \in Purges \ {o} : op'[p] = op[p]
    BY <1>1, <2>1, <2>2 DEF Operations
  <2>4. Passed(o)'
    BY <2>3 DEF Passed
  <2>5. QED
    BY <1>1, <2>1, <2>3, <2>4, OthersPassed
<1>4. ASSUME NEW o \in Purges, Gather(o) PROVE PassInv'
  <2>1. Passed(o)'
    BY <1>1, <1>4, GatherPhase DEF Passed
  <2>2. QED
    BY <1>1, <1>4, <2>1, GatherPhase, OthersPassed
<1>5. ASSUME NEW o \in Purges, StartTicker(o) PROVE PassInv'
  <2>1. op[o].inventory = 1 /\ op[o].chain = 1
    BY <1>1, <1>5 DEF StartTicker, BudgetInv, OperationOK
  <2>2. op'[o].inventory = 1 /\ op'[o].chain = 1
    BY <1>1, <1>5, <2>1 DEF StartTicker, Operations
  <2>3. Passed(o)'
    BY <1>1, <2>2, AtTheStart
  <2>4. QED
    BY <1>1, <1>5, <2>3, StartTickerPhase, OthersPassed
<1>6. ASSUME NEW o \in Purges, BeginTick(o) PROVE PassInv'
  <2>1. active # o /\ op[o].phase = "running" /\ op[o] \in Operations
    BY <1>1, <1>6, Limits DEF BeginTick
  <2>2. op[o].whole => op[o].inventory = 1 /\ op[o].chain = 1
    BY <2>1 DEF PassInv, Passed
  <2>3. op'[o].inventory = op[o].inventory /\ op'[o].chain = op[o].chain /\ op'[o].whole = op[o].whole
    <3>1. CASE world
      <4>1. op' = [op EXCEPT ![o].work = 0]
        BY <1>6, <3>1 DEF BeginTick
      <4>2. QED
        BY <1>1, <2>1, <4>1 DEF Operations
    <3>2. CASE ~world
      <4>1. op' = [op EXCEPT ![o] = Over(op[o], "world became invalid")]
        BY <1>6, <3>2 DEF BeginTick, Finish
      <4>2. QED
        BY <1>1, <2>1, <4>1 DEF Over, Operations
    <3>3. QED
      BY <3>1, <3>2
  <2>4. Passed(o)'
    BY <1>1, <2>2, <2>3, AtTheStart
  <2>5. QED
    BY <1>1, <1>6, <2>4, BeginTickPhase, OthersPassed
<1>7. ASSUME NEW o \in Purges, Callback(o) PROVE PassInv'
  BY <1>1, <1>7, CallbackPhase, CallbackPasses, OthersPassed
<1>8. CASE Factory
  <2>1. active = None /\ UNCHANGED <<op, active>>
    BY <1>8, FactorySteps
  <2>2. ASSUME NEW p \in Purges PROVE Passed(p)'
    <3>1. op'[p].phase = "running" /\ op'[p].whole => op'[p].inventory = 1 /\ op'[p].chain = 1
      BY <2>1, Limits DEF PassInv, Passed
    <3>2. QED
      BY <1>1, <3>1, AtTheStart
  <2>3. QED
    BY <1>1, <2>2 DEF PassInv
<1>9. QED
  BY <1>2, <1>3, <1>4, <1>5, <1>6, <1>7, <1>8 DEF Next

\* Only an operation that goes through a pass and removes nothing is complete.
LEMMA CompletesByItself ==
    ASSUME BudgetInv, [Next]_vars, NEW o \in Purges,
           op[o].result = None, op'[o].result = "complete"
    PROVE  Complete(o)
<1>1. op \in [Purges -> Operations] /\ op[o] \in Operations /\ op'[o].result # op[o].result
  BY Limits DEF BudgetInv, TypesOK
<1>2. ASSUME NEW p \in Purges \ {o}, \A q \in Purges \ {p} : op'[q] = op[q] PROVE FALSE
  BY <1>1, <1>2
<1>3. ~UNCHANGED vars /\ ~Factory
  BY <1>1, FactorySteps DEF vars
<1>4. ASSUME NEW p \in Purges, RequestPurge(p) PROVE FALSE
  <2>1. PICK t : op' = [op EXCEPT ![p].phase = "gathering", ![p].start = t, ![p].pending = <<t>>]
    BY <1>4 DEF RequestPurge
  <2>2. op[p] \in Operations
    BY <1>1
  <2>3. op'[o].result = op[o].result
    BY <1>1, <2>1, <2>2 DEF Operations
  <2>4. QED
    BY <1>1, <2>3
<1>5. ASSUME NEW p \in Purges, Gather(p) PROVE FALSE
  <2> DEFINE n == Head(op[p].pending)
             rest == Tail(op[p].pending)
  <2>1. \/ op' = [op EXCEPT ![p].pending = rest]
        \/ op' = [op EXCEPT ![p].pending = Neighbours(n) \o rest, ![p].chains = Append(@, n)]
        \/ op' = [op EXCEPT ![p].pending = Neighbours(n) \o rest, ![p].attachments = Append(@, n)]
        \/ op' = [op EXCEPT ![p].pending = rest, ![p].machines = Append(@, n)]
    BY <1>5 DEF Gather
  <2>2. op[p] \in Operations
    BY <1>1
  <2>3. op'[o].result = op[o].result
    <3>1. CASE op' = [op EXCEPT ![p].pending = rest]
      BY <1>1, <2>2, <3>1 DEF Operations
    <3>2. CASE op' = [op EXCEPT ![p].pending = Neighbours(n) \o rest, ![p].chains = Append(@, n)]
      BY <1>1, <2>2, <3>2 DEF Operations
    <3>3. CASE op' = [op EXCEPT ![p].pending = Neighbours(n) \o rest, ![p].attachments = Append(@, n)]
      BY <1>1, <2>2, <3>3 DEF Operations
    <3>4. CASE op' = [op EXCEPT ![p].pending = rest, ![p].machines = Append(@, n)]
      BY <1>1, <2>2, <3>4 DEF Operations
    <3>5. QED
      BY <2>1, <3>1, <3>2, <3>3, <3>4
  <2>4. QED
    BY <1>1, <2>3
<1>6. ASSUME NEW p \in Purges, StartTicker(p) PROVE FALSE
  <2>1. p = o
    BY <1>2, <1>6, StartTickerPhase
  <2>2. op'[o].result = op[o].result
    BY <1>1, <1>6, <2>1 DEF StartTicker, Operations
  <2>3. QED
    BY <1>1, <2>2
<1>7. ASSUME NEW p \in Purges, BeginTick(p) PROVE FALSE
  <2>1. p = o
    BY <1>2, <1>7, BeginTickPhase
  <2>2. op'[o].result = op[o].result \/ op'[o].result = "world became invalid"
    <3>1. CASE world
      <4>1. op' = [op EXCEPT ![o].work = 0]
        BY <1>7, <2>1, <3>1 DEF BeginTick
      <4>2. QED
        BY <1>1, <4>1 DEF Operations
    <3>2. CASE ~world
      <4>1. op' = [op EXCEPT ![o] = Over(op[o], "world became invalid")]
        BY <1>7, <2>1, <3>2 DEF BeginTick, Finish
      <4>2. QED
        BY <1>1, <4>1 DEF Over, Operations
    <3>3. QED
      BY <3>1, <3>2
  <2>3. QED
    BY <1>1, <2>2
<1>8. ASSUME NEW p \in Purges, Callback(p) PROVE Complete(o)
  <2>1. p = o
    BY <1>2, <1>8, CallbackPhase
  <2>2. CASE EndTick(o) \/ SkipChain(o) \/ NextPass(o)
    <3>1. op'[o].result = op[o].result
      <4>1. CASE EndTick(o)
        BY <1>1, <4>1 DEF EndTick, Operations
      <4>2. CASE SkipChain(o)
        BY <1>1, <4>2 DEF SkipChain, Operations
      <4>3. CASE NextPass(o)
        BY <1>1, <4>3 DEF NextPass, FromTheStart, Operations
      <4>4. QED
        BY <2>2, <4>1, <4>2, <4>3
    <3>2. QED
      BY <1>1, <3>1
  <2>3. CASE BudgetExhausted(o)
    <3>1. op'[o].result = "initial item budget exhausted"
      BY <1>1, <2>3 DEF BudgetExhausted, Finish, Over, Operations
    <3>2. QED
      BY <3>1
  <2>4. ASSUME NEW n \in Nat, n <= BatchLimit(o), Looping(o), Budget(o) > 0, NEW c, c = Counted(op[o], n)
        PROVE  /\ \A r : Over(c, r).result = r
               /\ c.result = op[o].result
               /\ \A k : [c EXCEPT !.inventory = k].result = op[o].result
               /\ \A s, k : [c EXCEPT !.stopped = s, !.chain = k].result = op[o].result
    <3>1. c \in Operations
      BY <2>4, CountedOK
    <3>2. c.result = op[o].result
      BY <1>1, <2>4 DEF Counted, Operations
    <3>3. QED
      BY <3>1, <3>2 DEF Over, Operations
  <2>5. CASE DrainInventory(o)
    <3> DEFINE i == Inventory(o)
    <3>1. PICK n \in Nat :
             /\ n <= BatchLimit(o)
             /\ \/ op' = [op EXCEPT ![o] = Over(Counted(op[o], n), "inventory mutation failed")]
                \/ op' = [op EXCEPT ![o] = [Counted(op[o], n) EXCEPT !.inventory = op[o].inventory + 1]]
                \/ op' = [op EXCEPT ![o] = Counted(op[o], n)]
      BY <2>5, DrainInventoryStep
    <3> DEFINE c == Counted(op[o], n)
    <3>2. /\ \A r : Over(c, r).result = r
          /\ c.result = op[o].result
          /\ \A k : [c EXCEPT !.inventory = k].result = op[o].result
      <4>1. c = Counted(op[o], n) /\ n <= BatchLimit(o) /\ Looping(o) /\ Budget(o) > 0
        BY <2>5, <3>1 DEF DrainInventory
      <4> HIDE DEF c
      <4>2. QED
        BY <2>4, <4>1
    <3>3. CASE op' = [op EXCEPT ![o] = Over(c, "inventory mutation failed")]
      <4> HIDE DEF c
      <4>1. op'[o].result = "inventory mutation failed"
        BY <1>1, <3>2, <3>3
      <4>2. QED
        BY <4>1
    <3>4. CASE op' = [op EXCEPT ![o] = [c EXCEPT !.inventory = op[o].inventory + 1]]
      <4> HIDE DEF c
      <4>1. op'[o] = [c EXCEPT !.inventory = op[o].inventory + 1]
        BY <1>1, <3>4
      <4>2. QED
        BY <1>1, <3>2, <4>1
    <3>5. CASE op' = [op EXCEPT ![o] = c]
      <4> HIDE DEF c
      <4>1. QED
        BY <1>1, <3>2, <3>5
    <3>6. QED
      BY <3>1, <3>3, <3>4, <3>5
  <2>6. CASE DrainChain(o)
    <3> DEFINE d == Chain(o)
    <3>1. PICK n \in Nat :
             /\ n <= BatchLimit(o) /\ n <= Eligible(belt[d])
             /\ belt' = [belt EXCEPT ![d] = SubSeq(belt[d], n + 1, Len(belt[d]))]
             /\ \/ /\ op' = [op EXCEPT ![o] = Over(Counted(op[o], n), "conveyor mutation failed")]
                   /\ active' = None
                \/ /\ active' = o
                   /\ \E stopped \in SetsOfChains, chain \in Positions :
                         /\ op' = [op EXCEPT ![o] =
                               [Counted(op[o], n) EXCEPT !.stopped = stopped, !.chain = chain]]
                         /\ \/ stopped = op[o].stopped \cup {d} /\ chain = op[o].chain + 1
                            \/ stopped = op[o].stopped /\ chain = op[o].chain + 1 /\ n = Len(belt[d])
                            \/ stopped = op[o].stopped /\ chain = op[o].chain
      BY <2>6, DrainChainStep
    <3> DEFINE c == Counted(op[o], n)
    <3>2. /\ \A r : Over(c, r).result = r
          /\ \A s, k : [c EXCEPT !.stopped = s, !.chain = k].result = op[o].result
      <4>1. c = Counted(op[o], n) /\ n <= BatchLimit(o) /\ Looping(o) /\ Budget(o) > 0
        BY <2>6, <3>1 DEF DrainChain
      <4> HIDE DEF c
      <4>2. QED
        BY <2>4, <4>1
    <3>3. CASE op' = [op EXCEPT ![o] = Over(c, "conveyor mutation failed")]
      <4> HIDE DEF c
      <4>1. op'[o].result = "conveyor mutation failed"
        BY <1>1, <3>2, <3>3
      <4>2. QED
        BY <4>1
    <3>4. ASSUME NEW s, NEW k, op' = [op EXCEPT ![o] = [c EXCEPT !.stopped = s, !.chain = k]]
          PROVE  Complete(o)
      <4> HIDE DEF c
      <4>1. op'[o] = [c EXCEPT !.stopped = s, !.chain = k]
        BY <1>1, <3>4
      <4>2. [c EXCEPT !.stopped = s, !.chain = k].result = op[o].result
        BY <3>2
      <4>3. QED
        BY <1>1, <4>1, <4>2
    <3>5. QED
      BY <3>1, <3>3, <3>4
  <2>7. QED
    BY <1>8, <2>1, <2>2, <2>3, <2>5, <2>6 DEF Callback
<1>9. QED
  BY <1>3, <1>4, <1>5, <1>6, <1>7, <1>8 DEF Next

\* An operation that ends as complete after a pass within one callback leaves
\* no sinkable item in its network but those behind protected ones: what the
\* pass has left behind stays empty until it ends (Tick).
THEOREM CompletionTheorem == Spec => CompleteIsEmpty
<1>1. Init => PassInv
  <2>1. ASSUME Init, NEW o \in Purges PROVE Passed(o)
    BY <2>1 DEF Init, Passed
  <2>2. QED
    BY <2>1, InitBudget DEF PassInv
<1>2. PassInv /\ [Next]_vars => PassInv'
  BY NextPasses
<1>3. ASSUME PassInv, [Next]_vars, NEW o \in Purges,
             op'[o].result = "complete", op[o].result = None, op[o].whole
      PROVE  ~SinkableLeft(o)
  <2>1. Complete(o) /\ BudgetInv
    BY <1>3, CompletesByItself DEF PassInv
  <2>2. /\ active = o /\ op[o].phase = "running" /\ op[o] \in Operations
        /\ ~(op[o].inventory <= Len(InventoriesOf(o))) /\ ~(op[o].chain <= Len(op[o].chains))
    BY <2>1 DEF Complete, PassDone, Looping, InInventories, InChains, BudgetInv, TypesOK
  <2>3. /\ \A j \in DOMAIN InventoriesOf(o) : j < op[o].inventory => Drained(InventoriesOf(o)[j])
        /\ \A j \in DOMAIN op[o].chains :
              j < op[o].chain => op[o].chains[j] \in op[o].stopped \/ Cleared(op[o].chains[j])
    BY <1>3, <2>2 DEF PassInv, Passed
  <2>4. /\ InventoriesOf(o) \in Seq(Inventories) /\ op[o].chains \in Seq(Chains)
        /\ op[o].inventory \in Nat /\ op[o].chain \in Nat
    BY <2>1, <2>2, GatheredOK DEF Operations, Positions
  <2>5. ASSUME NEW i \in Gathered(o) \cap alive \cap Inventories PROVE ~(buffer[i]["sinkable"] > 0)
    <3>1. i \in ToSet(InventoriesOf(o))
      BY <2>1, GatheredOK, Limits DEF Gathered
    <3>2. PICK j \in DOMAIN InventoriesOf(o) : i = InventoriesOf(o)[j]
      BY <3>1 DEF ToSet
    <3>3. j < op[o].inventory
      BY <2>2, <2>4
    <3>4. Drained(i)
      BY <2>3, <3>2, <3>3
    <3>5. QED
      BY <3>4 DEF Drained
  <2>6. ASSUME NEW c \in (Gathered(o) \cap alive \cap Chains) \ op[o].stopped PROVE ~(Eligible(belt[c]) > 0)
    <3>1. c \in ToSet(op[o].chains)
      BY <2>1, GatheredOK, Limits DEF Gathered
    <3>2. PICK j \in DOMAIN op[o].chains : c = op[o].chains[j]
      BY <3>1 DEF ToSet
    <3>3. j < op[o].chain
      BY <2>2, <2>4
    <3>4. Cleared(c)
      BY <2>3, <3>2, <3>3
    <3>5. QED
      BY <3>4 DEF Cleared
  <2>7. QED
    BY <2>5, <2>6 DEF SinkableLeft
<1>4. PassInv /\ [Next]_vars =>
         \A o \in Purges :
            op'[o].result = "complete" /\ op[o].result = None /\ op[o].whole => ~SinkableLeft(o)
  BY <1>3
<1>5. QED
  BY <1>1, <1>2, <1>4, PTL DEF Spec, CompleteIsEmpty
=============================================================================
