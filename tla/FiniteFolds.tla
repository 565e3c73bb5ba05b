----------------------------- MODULE FiniteFolds -----------------------------
(* Induction along folds over finite sets and along loops that count, for    *)
(* any step: what holds at the start and is kept by the step holds of the    *)
(* result.  A proof takes an instance of this module for the step of the     *)
(* fold it is about.                                                         *)
EXTENDS Naturals, FiniteSetTheorems, WellFoundedInduction, TLAPS

CONSTANTS
    Op(_, _, _),    \* the step: a parameter, an element, the value so far
    Holds(_, _, _)  \* what is claimed: a parameter, the elements taken, the value

-----------------------------------------------------------------------------
(* Folds                                                                    *)

Pick(s) == CHOOSE x \in s : TRUE

\* FoldSet, as the community module defines it.
Fold(p, base, S) ==
    LET iter[s \in SUBSET S] ==
            IF s = {} THEN base ELSE Op(p, Pick(s), iter[s \ {Pick(s)}])
    IN  iter[S]
Folded(p, base, S, f) ==
    f = [s \in SUBSET S |->
            IF s = {} THEN base ELSE Op(p, Pick(s), f[s \ {Pick(s)}])]

\* What holds of a set whenever it holds of the set without any one of its
\* elements holds of every finite set.
LEMMA Induction ==
    ASSUME NEW S, IsFiniteSet(S), NEW G \in SUBSET SUBSET S,
           \A T \in SUBSET S : (\A x \in T : T \ {x} \in G) => T \in G
    PROVE  G = SUBSET S
<1> DEFINE B == (SUBSET S) \ G
<1>1. SUFFICES ASSUME B # {} PROVE FALSE
  OBVIOUS
<1>2. IsWellFoundedOn(StrictSubsetOrdering(S), SUBSET S)
  BY FS_FiniteSubsetsOfFinite, FS_StrictSubsetOrderingWellFounded
<1>3. PICK T \in B : \A U \in B : <<U, T>> \notin StrictSubsetOrdering(S)
  <2>1. B \subseteq SUBSET S
    OBVIOUS
  <2> HIDE DEF B
  <2>2. QED
    BY <1>1, <1>2, <2>1, WFMin
<1>4. ASSUME NEW x \in T PROVE T \ {x} \in G
  <2>1. <<T \ {x}, T>> \in StrictSubsetOrdering(S)
    BY <1>3 DEF StrictSubsetOrdering
  <2>2. QED
    BY <1>3, <2>1
<1>5. QED
  BY <1>3, <1>4

LEMMA PickIn == ASSUME NEW s, s # {} PROVE Pick(s) \in s
BY DEF Pick

\* Induction along the elements that Pick chooses.
LEMMA PickInduction ==
    ASSUME NEW S, IsFiniteSet(S), NEW G \in SUBSET SUBSET S, {} \in G,
           \A s \in SUBSET S : s # {} /\ s \ {Pick(s)} \in G => s \in G
    PROVE  G = SUBSET S
<1>1. ASSUME NEW T \in SUBSET S, \A x \in T : T \ {x} \in G PROVE T \in G
  BY <1>1, PickIn
<1>2. QED
  BY <1>1, Induction

LEMMA FoldValues ==
    ASSUME NEW S, NEW p, NEW base, NEW f, Folded(p, base, S, f)
    PROVE  /\ f[{}] = base
           /\ \A s \in SUBSET S : s # {} => f[s] = Op(p, Pick(s), f[s \ {Pick(s)}])
BY DEF Folded

LEMMA FoldAgrees ==
    ASSUME NEW T, NEW U, IsFiniteSet(T), NEW p, NEW base, NEW f, NEW h,
           Folded(p, base, T, f), Folded(p, base, U, h),
           NEW V, V \subseteq T, V \subseteq U
    PROVE  f[V] = h[V]
<1> DEFINE G == {W \in SUBSET (T \cap U) : f[W] = h[W]}
<1>1. IsFiniteSet(T \cap U)
  BY FS_Intersection
<1>2. ASSUME NEW W \in SUBSET (T \cap U), \A x \in W : W \ {x} \in G PROVE f[W] = h[W]
  <2>1. CASE W = {}
    BY <2>1 DEF Folded
  <2>2. CASE W # {}
    <3>1. Pick(W) \in W /\ f[W \ {Pick(W)}] = h[W \ {Pick(W)}]
      BY <1>2, <2>2, PickIn
    <3>2. /\ f[W] = Op(p, Pick(W), f[W \ {Pick(W)}])
          /\ h[W] = Op(p, Pick(W), h[W \ {Pick(W)}])
      BY <2>2 DEF Folded
    <3>3. QED
      BY <3>1, <3>2
  <2>3. QED
    BY <2>1, <2>2
<1>3. G = SUBSET (T \cap U)
  <2>1. \A W \in SUBSET (T \cap U) : (\A x \in W : W \ {x} \in G) => W \in G
    BY <1>2
  <2>2. G \in SUBSET SUBSET (T \cap U)
    OBVIOUS
  <2> HIDE DEF G
  <2>3. QED
    BY <1>1, <2>1, <2>2, Induction
<1>4. QED
  BY <1>3

LEMMA FoldExists ==
    ASSUME NEW S, IsFiniteSet(S), NEW p, NEW base
    PROVE  \E f : Folded(p, base, S, f)
<1> DEFINE G == {T \in SUBSET S : \E f : Folded(p, base, T, f)}
<1>1. ASSUME NEW T \in SUBSET S, \A x \in T : T \ {x} \in G PROVE T \in G
  <2>1. PICK part :
            \A x \in T : Folded(p, base, T \ {x}, part[x]) /\ IsFiniteSet(T \ {x})
    <3>1. IsFiniteSet(T)
      BY FS_Subset
    <3>2. \A x \in T : Folded(p, base, T \ {x},
                                [y \in T |-> CHOOSE f : Folded(p, base, T \ {y}, f)][x])
      BY <1>1
    <3>3. QED
      BY <3>1, <3>2, FS_RemoveElement
  <2>3. /\ \A x \in T : part[x][{}] = base
        /\ \A x \in T : \A s \in SUBSET (T \ {x}) :
              s # {} => part[x][s] = Op(p, Pick(s), part[x][s \ {Pick(s)}])
        /\ \A x, y \in T : \A V \in SUBSET T : x \notin V /\ y \notin V => part[x][V] = part[y][V]
    <3>1. ASSUME NEW x \in T
          PROVE  /\ part[x][{}] = base
                 /\ \A s \in SUBSET (T \ {x}) :
                     s # {} => part[x][s] = Op(p, Pick(s), part[x][s \ {Pick(s)}])
      <4>1. PICK q : q = part[x]
        OBVIOUS
      <4>2. Folded(p, base, T \ {x}, q)
        BY <2>1, <4>1
      <4>3. QED
        BY <4>1, <4>2, FoldValues
    <3>2. ASSUME NEW x \in T, NEW y \in T, NEW V \in SUBSET T, x \notin V, y \notin V
          PROVE  part[x][V] = part[y][V]
      <4>1. PICK q : q = part[x]
        OBVIOUS
      <4>2. PICK r : r = part[y]
        OBVIOUS
      <4>3. Folded(p, base, T \ {x}, q) /\ Folded(p, base, T \ {y}, r) /\ IsFiniteSet(T \ {x})
        BY <2>1, <4>1, <4>2
      <4>4. V \subseteq T \ {x} /\ V \subseteq T \ {y}
        BY <3>2
      <4>5. q[V] = r[V]
        BY <4>3, <4>4, FoldAgrees
      <4>6. QED
        BY <4>1, <4>2, <4>5
    <3>3. QED
      BY <3>1, <3>2
  <2> DEFINE Missing(s) == CHOOSE y \in T : y \notin s
             h == [s \in SUBSET T |->
                      IF s = {} THEN base
                      ELSE IF s = T THEN Op(p, Pick(T), part[Pick(T)][T \ {Pick(T)}])
                      ELSE part[Missing(s)][s]]
  <2>2. \A s \in SUBSET T : s # T => Missing(s) \in T /\ Missing(s) \notin s
    OBVIOUS
  <2>5. ASSUME NEW s \in SUBSET T, s # {} PROVE h[s] = Op(p, Pick(s), h[s \ {Pick(s)}])
    <3> DEFINE x == Pick(s)
               V == s \ {Pick(s)}
    <3>1. x \in s /\ x \in T /\ V \in SUBSET T /\ x \notin V /\ V # T
      BY <2>5, PickIn
    <3>2. CASE s = T
      <4>1. h[s] = Op(p, x, part[x][V])
        BY <2>5, <3>2
      <4>2. h[V] = part[x][V]
        <5>1. CASE V = {}
          <6>1. part[x][V] = base
            BY <2>3, <3>1, <5>1
          <6>2. QED
            BY <3>1, <5>1, <6>1
        <5>2. CASE V # {}
          <6>1. Missing(V) = x
            BY <2>2, <3>1, <3>2
          <6>2. QED
            BY <3>1, <5>2, <6>1
        <5>3. QED
          BY <5>1, <5>2
      <4>3. QED
        BY <4>1, <4>2
    <3>3. CASE s # T
      <4> DEFINE y == Missing(s)
      <4>1. y \in T /\ y \notin s
        BY <2>2, <3>3
      <4>2. h[s] = part[y][s]
        BY <2>5, <3>3
      <4>3. part[y][s] = Op(p, x, part[y][V])
        <5>1. s \in SUBSET (T \ {y})
          BY <4>1
        <5> HIDE DEF Missing
        <5>2. QED
          BY <2>3, <2>5, <4>1, <5>1
      <4>4. h[V] = part[y][V]
        <5>1. CASE V = {}
          <6>1. part[y][V] = base
            BY <2>3, <4>1, <5>1
          <6>2. QED
            BY <3>1, <5>1, <6>1
        <5>2. CASE V # {}
          <6>1. h[V] = part[Missing(V)][V]
            BY <3>1, <5>2
          <6>2. Missing(V) \in T /\ Missing(V) \notin V
            BY <2>2, <3>1
          <6>3. part[Missing(V)][V] = part[y][V]
            <7> HIDE DEF Missing
            <7>1. QED
              BY <2>3, <3>1, <4>1, <6>2
          <6>4. QED
            BY <6>1, <6>3
        <5>3. QED
          BY <5>1, <5>2
      <4>5. QED
        BY <4>2, <4>3, <4>4
    <3>4. QED
      BY <3>2, <3>3
  <2>6. Folded(p, base, T, h)
    <3>1. h[{}] = base
      OBVIOUS
    <3>2. h = [s \in SUBSET T |-> h[s]]
      <4> DEFINE H(s) == IF s = {} THEN base
                         ELSE IF s = T THEN Op(p, Pick(T), part[Pick(T)][T \ {Pick(T)}])
                         ELSE part[Missing(s)][s]
      <4>1. h = [s \in SUBSET T |-> H(s)]
        OBVIOUS
      <4> HIDE DEF H, h
      <4>2. QED
        BY <4>1
    <3> HIDE DEF h
    <3>3. \A s \in SUBSET T : h[s] = IF s = {} THEN base ELSE Op(p, Pick(s), h[s \ {Pick(s)}])
      BY <2>5, <3>1
    <3>4. QED
      BY <3>2, <3>3 DEF Folded
  <2>7. QED
    BY <2>6
<1>2. G = SUBSET S
  <2>1. \A T \in SUBSET S : (\A x \in T : T \ {x} \in G) => T \in G
    BY <1>1
  <2>2. G \in SUBSET SUBSET S
    OBVIOUS
  <2> HIDE DEF G
  <2>3. QED
    BY <2>1, <2>2, Induction
<1>3. QED
  BY <1>2

\* What holds of the start, and of the value after one more element whenever
\* it holds of the value before, holds of the fold.
LEMMA FoldHolds ==
    ASSUME NEW p, NEW base, NEW S, IsFiniteSet(S), Holds(p, {}, base),
           \A T \in SUBSET S : \A x \in T : \A y :
               Holds(p, T \ {x}, y) => Holds(p, T, Op(p, x, y))
    PROVE  Holds(p, S, Fold(p, base, S))
<1>1. PICK f : Folded(p, base, S, f)
  BY FoldExists
<1>2. PICK g : g = CHOOSE h : Folded(p, base, S, h)
  OBVIOUS
<1>3. Folded(p, base, S, g) /\ Fold(p, base, S) = g[S]
  BY <1>1, <1>2 DEF Folded, Fold
<1> DEFINE G == {T \in SUBSET S : Holds(p, T, g[T])}
<1>4. {} \in G
  BY <1>3, FoldValues
<1>5. ASSUME NEW T \in SUBSET S, T # {}, T \ {Pick(T)} \in G PROVE T \in G
  <2>1. Pick(T) \in T /\ g[T] = Op(p, Pick(T), g[T \ {Pick(T)}])
    BY <1>3, <1>5, PickIn, FoldValues
  <2>2. QED
    BY <1>5, <2>1
<1>6. G = SUBSET S
  <2>1. G \in SUBSET SUBSET S
    OBVIOUS
  <2> HIDE DEF G
  <2>2. QED
    BY <1>4, <1>5, <2>1, PickInduction
<1>7. QED
  BY <1>3, <1>6

-----------------------------------------------------------------------------
(* Loops                                                                    *)

\* A loop of n turns.
Loop(p, base, n) ==
    LET after[i \in 0 .. n] == IF i = 0 THEN base ELSE Op(p, i, after[i - 1])
    IN  after[n]
Looped(p, base, n, f) ==
    f = [i \in 0 .. n |-> IF i = 0 THEN base ELSE Op(p, i, f[i - 1])]

LEMMA CountInduction ==
    ASSUME NEW n \in Nat, NEW G \in SUBSET (0 .. n), 0 \in G,
           \A i \in 1 .. n : i - 1 \in G => i \in G
    PROVE  G = 0 .. n
<1> DEFINE B == (0 .. n) \ G
<1>1. SUFFICES ASSUME B # {} PROVE FALSE
  OBVIOUS
<1> DEFINE Less == {ss \in Nat \X Nat : ss[1] < ss[2]}
<1>2. IsWellFoundedOn(Less, Nat)
  BY NatLessThanWellFounded DEF OpToRel
<1>3. PICK m \in B : \A k \in B : <<k, m>> \notin Less
  <2>1. B \subseteq Nat
    OBVIOUS
  <2> HIDE DEF B, Less
  <2>2. QED
    BY <1>1, <1>2, <2>1, WFMin
<1>4. m \in 1 .. n /\ m - 1 \in 0 .. n
  BY <1>3
<1>5. m - 1 \notin B
  <2>1. m - 1 \in Nat /\ m \in Nat /\ m - 1 < m
    BY <1>4
  <2>2. <<m - 1, m>> \in Less
    BY <2>1
  <2> HIDE DEF Less, B
  <2>3. QED
    BY <1>3, <2>2
<1>6. QED
  BY <1>3, <1>4, <1>5

LEMMA LoopExists ==
    ASSUME NEW n \in Nat, NEW p, NEW base
    PROVE  \E f : Looped(p, base, n, f)
<1> DEFINE G == {m \in 0 .. n : \E f : Looped(p, base, m, f)}
<1>1. 0 \in G
  <2>1. Looped(p, base, 0, [i \in {0} |-> base])
    BY DEF Looped
  <2>2. QED
    BY <2>1
<1>2. ASSUME NEW m \in 1 .. n, m - 1 \in G PROVE m \in G
  <2>1. PICK f : Looped(p, base, m - 1, f)
    BY <1>2
  <2> DEFINE h == [i \in 0 .. m |-> IF i = m THEN Op(p, m, f[m - 1]) ELSE f[i]]
  <2>2. \A i \in 0 .. m - 1 : f[i] = IF i = 0 THEN base ELSE Op(p, i, f[i - 1])
    BY <2>1 DEF Looped
  <2>3. \A i \in 0 .. m : h[i] = IF i = 0 THEN base ELSE Op(p, i, h[i - 1])
    <3>1. ASSUME NEW i \in 0 .. m, i # m PROVE h[i] = IF i = 0 THEN base ELSE Op(p, i, h[i - 1])
      <4>1. i \in 0 .. m - 1 /\ i - 1 # m
        BY <3>1
      <4>2. i # 0 => i - 1 \in 0 .. m
        BY <4>1
      <4>3. QED
        BY <2>2, <3>1, <4>1, <4>2
    <3>2. h[m] = Op(p, m, h[m - 1]) /\ m # 0
      <4>1. m - 1 \in 0 .. m /\ m - 1 # m /\ m \in 0 .. m
        BY <1>2
      <4>2. QED
        BY <4>1
    <3>3. QED
      BY <3>1, <3>2
  <2>4. h = [i \in 0 .. m |-> h[i]]
    <3> DEFINE H(i) == IF i = m THEN Op(p, m, f[m - 1]) ELSE f[i]
    <3>1. h = [i \in 0 .. m |-> H(i)]
      OBVIOUS
    <3> HIDE DEF H, h
    <3>2. QED
      BY <3>1
  <2>5. Looped(p, base, m, h)
    <3> HIDE DEF h
    <3>1. QED
      BY <2>3, <2>4 DEF Looped
  <2>6. QED
    BY <2>5
<1>3. G = 0 .. n
  <2>1. G \in SUBSET (0 .. n)
    OBVIOUS
  <2> HIDE DEF G
  <2>2. QED
    BY <1>1, <1>2, <2>1, CountInduction
<1>4. QED
  BY <1>3

\* What holds of the start, and after one more turn whenever it holds before,
\* holds after the loop.
LEMMA LoopHolds ==
    ASSUME NEW n \in Nat, NEW p, NEW base, Holds(p, 0, base),
           \A i \in 1 .. n : \A y : Holds(p, i - 1, y) => Holds(p, i, Op(p, i, y))
    PROVE  Holds(p, n, Loop(p, base, n))
<1>1. PICK f : Looped(p, base, n, f)
  BY LoopExists
<1>2. PICK g : g = CHOOSE h : Looped(p, base, n, h)
  OBVIOUS
<1>3. Looped(p, base, n, g) /\ Loop(p, base, n) = g[n]
  BY <1>1, <1>2 DEF Looped, Loop
<1> DEFINE G == {i \in 0 .. n : Holds(p, i, g[i])}
<1>4. \A i \in 0 .. n : g[i] = IF i = 0 THEN base ELSE Op(p, i, g[i - 1])
  BY <1>3 DEF Looped
<1>5. G = 0 .. n
  <2>1. G \in SUBSET (0 .. n) /\ 0 \in G
    BY <1>4
  <2>2. ASSUME NEW i \in 1 .. n, i - 1 \in G PROVE i \in G
    <3>1. g[i] = Op(p, i, g[i - 1]) /\ i \in 0 .. n
      BY <1>4
    <3>2. QED
      BY <2>2, <3>1
  <2> HIDE DEF G
  <2>3. QED
    BY <2>1, <2>2, CountInduction
<1>6. QED
  BY <1>3, <1>5
=============================================================================
