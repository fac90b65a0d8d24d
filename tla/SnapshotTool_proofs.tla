------------------------- MODULE SnapshotTool_proofs -------------------------
(***************************************************************************)
(* Theorems about SnapshotTool, for every input, every heap that has room  *)
(* for the functions and every buffer: passes run in their order, none of  *)
(* their assertions fails, every function is emitted into pools that lead  *)
(* to where it is, what is serialised does not overlap, and the output     *)
(* holds the whole input.                                                  *)
(*                                                                         *)
(* The list of functions is what a recursion over the pools yields.  That  *)
(* it is well defined, and that each function is listed once and behind    *)
(* those of its pool, is proved by induction over how deep the pools are   *)
(* nested (LeastExists, UpTo).                                             *)
(***************************************************************************)
EXTENDS SnapshotTool, SequenceTheorems, FiniteSetTheorems, WellFoundedInduction, TLAPS

-----------------------------------------------------------------------------
(* A set of numbers has a least element, ... *)
LEMMA LeastExists ==
    ASSUME NEW S \in SUBSET Nat, S # {}
    PROVE  \E m \in S : \A n \in S : m <= n
<1> DEFINE R == OpToRel(<, Nat)
<1>1. IsWellFoundedOn(R, Nat)
  BY NatLessThanWellFounded
<1>2. \A x, y \in Nat : y < x => <<y, x>> \in R
  BY DEF OpToRel
<1> HIDE DEF R
<1>3. PICK m \in S : \A y \in S : ~ (<<y, m>> \in R)
  BY <1>1, WFMin, Zenon
<1>4. \A n \in S : ~ (n < m)
  BY <1>2, <1>3, Zenon
<1>5. QED
  BY <1>4

(* ... so what holds of 0, and of each number after one it holds of, holds *)
(* of all of them: induction, with a set in place of a predicate. *)
LEMMA UpTo ==
    ASSUME NEW n \in Nat, NEW G,
           0 \in G, \A m \in 1..n : m - 1 \in G => m \in G
    PROVE  \A m \in 0..n : m \in G
<1> DEFINE T == { m \in 0..n : m \notin G }
<1>1. SUFFICES ASSUME T # {} PROVE FALSE
  OBVIOUS
<1>2. PICK m \in T : \A l \in T : m <= l
  <2>1. T \in SUBSET Nat
    OBVIOUS
  <2> HIDE DEF T
  <2>2. QED
    BY <1>1, <2>1, LeastExists
<1>3. m \in 1..n /\ m - 1 \in 0..n
  BY <1>2
<1>4. m - 1 \in G
  BY <1>2, <1>3
<1>5. QED
  BY <1>2, <1>3, <1>4

-----------------------------------------------------------------------------
(* What the definition of Below says of its k-th value, where below has    *)
(* the others. *)
BelowStep(s, order, f, below, k) ==
    IF k = 0 THEN <<>>
    ELSE IF s.subs[f][k] = f THEN below[k - 1]
    ELSE below[k - 1] \o order[s.subs[f][k]]

BelowIsThat(s, order, f) ==
    /\ Below(s, order, f) \in [0..Len(s.subs[f]) -> Seq(Functions)]
    /\ \A k \in 0..Len(s.subs[f]) :
          Below(s, order, f)[k] = BelowStep(s, order, f, Below(s, order, f), k)

LEMMA BelowUnfolds ==
    ASSUME NEW s, s.subs \in [Functions -> Seq(Functions)], NEW f \in Functions, NEW order,
           \A k \in 1..Len(s.subs[f]) : s.subs[f][k] # f => order[s.subs[f][k]] \in Seq(Functions)
    PROVE  BelowIsThat(s, order, f)
<1> DEFINE n == Len(s.subs[f])
           Step(h, k) == BelowStep(s, order, f, h, k)
           Lists == [0..n -> Seq(Functions)]
<1>1. n \in Nat /\ \A k \in 1..n : s.subs[f][k] \in Functions
  <2>1. s.subs[f] \in Seq(Functions)
    OBVIOUS
  <2>2. QED
    BY <2>1
<1>2. ASSUME NEW h, NEW k \in 0..n, k = 0 \/ h[k - 1] \in Seq(Functions)
      PROVE  Step(h, k) \in Seq(Functions)
  <2>1. CASE k = 0
    BY <2>1 DEF BelowStep
  <2>2. CASE k # 0
    <3>1. s.subs[f][k] # f => order[s.subs[f][k]] \in Seq(Functions)
      BY <1>1, <2>2
    <3>2. s.subs[f][k] # f => h[k - 1] \o order[s.subs[f][k]] \in Seq(Functions)
      BY <1>2, <2>2, <3>1
    <3>3. QED
      BY <1>2, <2>2, <3>2 DEF BelowStep
  <2>3. QED
    BY <2>1, <2>2
<1>3. ASSUME NEW g, NEW h, NEW k \in 0..n, k = 0 \/ g[k - 1] = h[k - 1]
      PROVE  Step(g, k) = Step(h, k)
  BY <1>3 DEF BelowStep
<1> HIDE DEF Step
<1>4. PICK h \in Lists : \A k \in 0..n : h[k] = Step(h, k)
  <2> DEFINE Fits(h, m) == \A k \in 0..m : h[k] = Step(h, k)
             G == { m \in 0..n : \E h \in Lists : Fits(h, m) }
  <2>1. 0 \in G
    <3> DEFINE h == [k \in 0..n |-> Step(<<>>, 0)]
    <3>1. Step(<<>>, 0) \in Seq(Functions)
      BY <1>1, <1>2
    <3>2. h \in Lists /\ h[0] = Step(<<>>, 0)
      BY <1>1, <3>1
    <3>3. Fits(h, 0)
      BY <1>1, <1>3, <3>2
    <3> HIDE DEF h, Fits
    <3>4. QED
      BY <1>1, <3>2, <3>3
  <2>2. ASSUME NEW m \in 1..n, m - 1 \in G PROVE m \in G
    <3>1. PICK h \in Lists : Fits(h, m - 1)
      BY <2>2
    <3> DEFINE e == [h EXCEPT ![m] = Step(h, m)]
    <3>2. m \in 0..n /\ m - 1 \in 0..n
      BY <1>1
    <3>3. Step(h, m) \in Seq(Functions)
      BY <1>2, <3>2
    <3>4. e \in Lists
      BY <3>2, <3>3
    <3>5. ASSUME NEW k \in 0..m PROVE e[k] = Step(e, k)
      <4>1. k \in 0..n /\ (k = 0 \/ (k - 1 \in 0..n /\ k - 1 # m))
        BY <1>1
      <4>2. k = 0 \/ e[k - 1] = h[k - 1]
        BY <4>1
      <4>3. Step(e, k) = Step(h, k)
        BY <1>3, <4>1, <4>2
      <4>4. k = m \/ k \in 0..(m - 1)
        OBVIOUS
      <4>5. e[k] = Step(h, k)
        BY <3>1, <4>1, <4>4
      <4>6. QED
        BY <4>3, <4>5
    <3> HIDE DEF e
    <3>6. Fits(e, m)
      BY <3>5
    <3> HIDE DEF Fits
    <3>7. QED
      BY <3>2, <3>4, <3>6
  <2> HIDE DEF G
  <2>3. \A m \in 0..n : m \in G
    BY <1>1, <2>1, <2>2, UpTo
  <2>4. n \in G
    BY <1>1, <2>3
  <2>5. QED
    BY <2>4 DEF G
<1> DEFINE B == Below(s, order, f)
<1>5. B = [k \in 0..n |-> Step(B, k)]
  <2>1. B = CHOOSE g : g = [k \in 0..n |-> Step(g, k)]
    BY DEF Below, BelowStep, Step
  <2>2. h = [k \in 0..n |-> Step(h, k)]
    BY <1>4
  <2> HIDE DEF B
  <2>3. QED
    BY <2>1, <2>2
<1> HIDE DEF B
<1>6. \A k \in 0..n : B[k] = Step(B, k)
  BY <1>5
<1>7. \A k \in 0..n : B[k] \in Seq(Functions)
  <2> DEFINE G == { k \in 0..n : B[k] \in Seq(Functions) }
  <2>1. 0 \in G
    BY <1>1, <1>2, <1>6
  <2>2. ASSUME NEW m \in 1..n, m - 1 \in G PROVE m \in G
    BY <1>1, <1>2, <1>6, <2>2
  <2> HIDE DEF G
  <2>3. \A m \in 0..n : m \in G
    BY <1>1, <2>1, <2>2, UpTo
  <2>4. QED
    BY <2>3 DEF G
<1>8. B \in Lists
  BY <1>5, <1>7
<1>9. QED
  BY <1>6, <1>8 DEF B, BelowIsThat, Step

(* It uses of order only what that has for the functions in the pool. *)
SamePool(s, f, g, h) ==
    \A k \in 1..Len(s.subs[f]) : s.subs[f][k] # f =>
        g[s.subs[f][k]] \in Seq(Functions) /\ g[s.subs[f][k]] = h[s.subs[f][k]]

SameBelow(s, f, g, h) == \A k \in 0..Len(s.subs[f]) : Below(s, g, f)[k] = Below(s, h, f)[k]

LEMMA BelowAgrees ==
    ASSUME NEW s, s.subs \in [Functions -> Seq(Functions)], NEW f \in Functions,
           NEW g, NEW h, SamePool(s, f, g, h)
    PROVE  SameBelow(s, f, g, h)
<1> DEFINE n == Len(s.subs[f])
           A == Below(s, g, f)
           B == Below(s, h, f)
           G == { k \in 0..n : A[k] = B[k] }
<1>1. n \in Nat
  <2>1. s.subs[f] \in Seq(Functions)
    OBVIOUS
  <2>2. QED
    BY <2>1
<1>2. BelowIsThat(s, g, f) /\ BelowIsThat(s, h, f)
  <2>1. \A k \in 1..n : s.subs[f][k] # f => g[s.subs[f][k]] \in Seq(Functions)
    BY DEF SamePool
  <2>2. \A k \in 1..n : s.subs[f][k] # f => h[s.subs[f][k]] \in Seq(Functions)
    BY DEF SamePool
  <2>3. QED
    BY <2>1, <2>2, BelowUnfolds
<1>3. \A k \in 0..n : A[k] = BelowStep(s, g, f, A, k) /\ B[k] = BelowStep(s, h, f, B, k)
  BY <1>2 DEF BelowIsThat
<1> HIDE DEF A, B
<1>4. 0 \in G
  BY <1>1, <1>3 DEF BelowStep
<1>5. ASSUME NEW m \in 1..n, m - 1 \in G PROVE m \in G
  <2>1. m \in 0..n /\ m # 0 /\ A[m - 1] = B[m - 1]
    BY <1>1, <1>5
  <2>2. BelowStep(s, g, f, A, m) = BelowStep(s, h, f, B, m)
    BY <2>1 DEF BelowStep, SamePool
  <2>3. QED
    BY <1>3, <2>1, <2>2
<1> HIDE DEF G
<1>6. \A m \in 0..n : m \in G
  BY <1>1, <1>4, <1>5, UpTo
<1>7. QED
  BY <1>6 DEF G, A, B, SameBelow

(* The recursion of FunctionsOf is well defined, for pools nest finitely   *)
(* deep. *)
IsOrder(s, order) ==
    /\ order \in [Functions -> Seq(Functions)]
    /\ \A f \in Functions : order[f] = Append(Below(s, order, f)[Len(s.subs[f])], f)

LEMMA FunctionsOfUnfolds ==
    ASSUME NEW s \in Snapshots
    PROVE  IsOrder(s, FunctionsOf(s))
<1> DEFINE Lists == [Functions -> Seq(Functions)]
           Step(h, f) == Append(Below(s, h, f)[Len(s.subs[f])], f)
<1>1. /\ s.subs \in [Functions -> Seq(Functions)]
      /\ \A f \in Functions : Len(s.subs[f]) \in Nat
      /\ \A f \in Functions : \A k \in 1..Len(s.subs[f]) : s.subs[f][k] \in Functions
  <2>1. s.subs \in [Functions -> Seq(Functions)]
    BY SnapshotsAssumption DEF IsSnapshot
  <2>2. \A f \in Functions : s.subs[f] \in Seq(Functions)
    BY <2>1
  <2>3. QED
    BY <2>1, <2>2
<1>2. PICK depth \in [Functions -> 0..Heap] : IsDepth(s, depth)
  BY SnapshotsAssumption
<1>3. \A f \in Functions : depth[f] \in 0..Heap
  BY <1>2
<1>4. Heap \in Nat
  BY SizesAssumption
<1>5. ASSUME NEW h, NEW f \in Functions,
             \A k \in 1..Len(s.subs[f]) : s.subs[f][k] # f => h[s.subs[f][k]] \in Seq(Functions)
      PROVE  Step(h, f) \in Seq(Functions)
  <2>1. BelowIsThat(s, h, f)
    BY <1>1, <1>5, BelowUnfolds
  <2>2. Len(s.subs[f]) \in 0..Len(s.subs[f])
    BY <1>1
  <2>3. Below(s, h, f)[Len(s.subs[f])] \in Seq(Functions)
    BY <2>1, <2>2 DEF BelowIsThat
  <2>4. QED
    BY <2>3
<1>6. ASSUME NEW g \in Lists, NEW h \in Lists, NEW f \in Functions,
             \A k \in 1..Len(s.subs[f]) : s.subs[f][k] # f => g[s.subs[f][k]] = h[s.subs[f][k]]
      PROVE  Step(g, f) = Step(h, f)
  <2>1. \A k \in 0..Len(s.subs[f]) : Below(s, g, f)[k] = Below(s, h, f)[k]
    <3>1. SamePool(s, f, g, h)
      BY <1>1, <1>6 DEF SamePool
    <3>2. SameBelow(s, f, g, h)
      BY <1>1, <3>1, BelowAgrees
    <3>3. QED
      BY <3>2 DEF SameBelow
  <2>2. Len(s.subs[f]) \in 0..Len(s.subs[f])
    BY <1>1
  <2>3. QED
    BY <2>1, <2>2
<1> HIDE DEF Step
<1>7. PICK h \in Lists : \A f \in Functions : h[f] = Step(h, f)
  <2> DEFINE Fits(h, d) == \A f \in Functions : depth[f] < d => h[f] = Step(h, f)
             G == { d \in 0..(Heap + 1) : \E h \in Lists : Fits(h, d) }
  <2>1. 0 \in G
    <3> DEFINE none == [f \in Functions |-> <<>>]
    <3>1. none \in Lists
      OBVIOUS
    <3>2. Fits(none, 0)
      BY <1>3
    <3> HIDE DEF none, Fits
    <3>3. 0 \in 0..(Heap + 1)
      BY <1>4
    <3>4. QED
      BY <3>1, <3>2, <3>3
  <2>2. ASSUME NEW d \in 1..(Heap + 1), d - 1 \in G PROVE d \in G
    <3>1. PICK h \in Lists : Fits(h, d - 1)
      BY <2>2
    <3> DEFINE e == [f \in Functions |-> Step(h, f)]
    <3>2. e \in Lists
      BY <1>1, <1>5
    <3>3. ASSUME NEW f \in Functions, depth[f] < d PROVE e[f] = Step(e, f)
      <4>1. ASSUME NEW k \in 1..Len(s.subs[f]), s.subs[f][k] # f
            PROVE  e[s.subs[f][k]] = h[s.subs[f][k]]
        <5>1. s.subs[f][k] \in Functions /\ depth[s.subs[f][k]] < depth[f]
          BY <1>1, <1>2, <4>1 DEF IsDepth
        <5>2. depth[s.subs[f][k]] < d - 1
          BY <1>3, <1>4, <3>3, <5>1
        <5>3. QED
          BY <3>1, <5>1, <5>2
      <4> HIDE DEF e
      <4>2. Step(e, f) = Step(h, f)
        BY <1>6, <3>2, <4>1
      <4>3. QED
        BY <4>2 DEF e
    <3> HIDE DEF e
    <3>4. Fits(e, d)
      BY <3>3
    <3> HIDE DEF Fits
    <3>5. QED
      BY <1>4, <3>2, <3>4
  <2> HIDE DEF G
  <2>3. \A d \in 0..(Heap + 1) : d \in G
    BY <1>4, <2>1, <2>2, UpTo
  <2>4. Heap + 1 \in G
    BY <1>4, <2>3
  <2>5. PICK h \in Lists : Fits(h, Heap + 1)
    BY <2>4 DEF G
  <2>6. \A f \in Functions : depth[f] < Heap + 1
    BY <1>3, <1>4
  <2>7. QED
    BY <2>5, <2>6
<1> DEFINE L == FunctionsOf(s)
<1>8. L = [f \in Functions |-> Step(L, f)]
  <2>1. L = CHOOSE g : g = [f \in Functions |-> Step(g, f)]
    BY DEF FunctionsOf, Step
  <2>2. h = [f \in Functions |-> Step(h, f)]
    BY <1>7
  <2> HIDE DEF L
  <2>3. QED
    BY <2>1, <2>2
<1> HIDE DEF L
<1>9. L \in Lists
  <2> DEFINE G == { d \in 0..(Heap + 1) :
                       \A f \in Functions : depth[f] < d => L[f] \in Seq(Functions) }
  <2>1. 0 \in G
    BY <1>3, <1>4
  <2>2. ASSUME NEW d \in 1..(Heap + 1), d - 1 \in G PROVE d \in G
    <3>1. ASSUME NEW f \in Functions, depth[f] < d PROVE L[f] \in Seq(Functions)
      <4>1. ASSUME NEW k \in 1..Len(s.subs[f]), s.subs[f][k] # f
            PROVE  L[s.subs[f][k]] \in Seq(Functions)
        <5>1. s.subs[f][k] \in Functions /\ depth[s.subs[f][k]] < depth[f]
          BY <1>1, <1>2, <4>1 DEF IsDepth
        <5>2. depth[s.subs[f][k]] < d - 1
          BY <1>3, <1>4, <3>1, <5>1
        <5>3. QED
          BY <2>2, <5>1, <5>2
      <4>2. Step(L, f) \in Seq(Functions)
        BY <1>5, <4>1
      <4>3. QED
        BY <1>8, <4>2
    <3>2. QED
      BY <1>4, <3>1
  <2> HIDE DEF G
  <2>3. \A d \in 0..(Heap + 1) : d \in G
    BY <1>4, <2>1, <2>2, UpTo
  <2>4. Heap + 1 \in G
    BY <1>4, <2>3
  <2>5. \A f \in Functions : depth[f] < Heap + 1
    BY <1>3, <1>4
  <2>6. \A f \in Functions : L[f] \in Seq(Functions)
    BY <2>4, <2>5 DEF G
  <2>7. QED
    BY <1>8, <2>6
<1>10. QED
  BY <1>8, <1>9 DEF IsOrder, Step, L

-----------------------------------------------------------------------------
(* What readFunctions owes to write(): each function is listed once, behind *)
(* those of its pool, and before the one in whose pool it is, unless it is *)
(* one of tops.                                                            *)
In(q, f) == \E i \in 1..Len(q) : q[i] = f

(* f is in the pool of another function g. *)
PoolHas(s, g, f) == g # f /\ \E k \in 1..Len(s.subs[g]) : s.subs[g][k] = f

InnerFirst(s, q) ==
    \A j \in 1..Len(q) : \A f \in Functions :
        PoolHas(s, q[j], f) => \E i \in 1..(j - 1) : q[i] = f

OuterLater(s, q, tops) ==
    \A i \in 1..Len(q) :
        q[i] \in tops \/ \E j \in (i + 1)..Len(q) : PoolHas(s, q[j], q[i])

Listed(s, q, tops) ==
    /\ q \in Seq(Functions)
    /\ Unique(q)
    /\ InnerFirst(s, q)
    /\ OuterLater(s, q, tops)
    /\ \A f \in tops : In(q, f)

LEMMA OnePool ==
    ASSUME NEW s \in Snapshots, NEW f \in Functions, NEW g \in Functions, NEW h \in Functions,
           PoolHas(s, g, f), PoolHas(s, h, f)
    PROVE  g = h
  BY SnapshotsAssumption DEF PoolHas, IsForest

(* Of some functions, one is nested around the others or beside them. *)
LEMMA DeepestExists ==
    ASSUME NEW depth \in [Functions -> 0..Heap], NEW F \in SUBSET Functions, F # {}
    PROVE  \E f \in F : \A g \in F : depth[g] <= depth[f]
<1> DEFINE S == { Heap - depth[f] : f \in F }
<1>1. Heap \in Nat /\ \A g \in Functions : depth[g] \in 0..Heap
  BY SizesAssumption
<1>2. \A g \in Functions : Heap - depth[g] \in Nat
  BY <1>1
<1>3. S \in SUBSET Nat /\ S # {}
  BY <1>2
<1>4. PICK m \in S : \A n \in S : m <= n
  <2> HIDE DEF S
  <2>1. QED
    BY <1>3, LeastExists
<1>5. PICK f \in F : m = Heap - depth[f]
  BY <1>4
<1>6. ASSUME NEW g \in F PROVE depth[g] <= depth[f]
  <2>1. Heap - depth[f] <= Heap - depth[g]
    BY <1>4, <1>5
  <2>2. QED
    BY <1>1, <2>1
<1>7. QED
  BY <1>6

(* Two such lists have nothing in common if the tops of neither are in the *)
(* other: of what they had in common the outermost one would be in no pool. *)
LEMMA ListsApart ==
    ASSUME NEW s \in Snapshots, NEW p, NEW q, NEW P, NEW Q,
           Listed(s, p, P), Listed(s, q, Q),
           \A f \in P : ~ In(q, f), \A f \in Q : ~ In(p, f)
    PROVE  \A f \in Functions : ~ (In(p, f) /\ In(q, f))
<1>1. PICK depth \in [Functions -> 0..Heap] : IsDepth(s, depth)
  BY SnapshotsAssumption
<1> DEFINE Both == { f \in Functions : In(p, f) /\ In(q, f) }
<1>3. SUFFICES ASSUME Both # {} PROVE FALSE
  OBVIOUS
<1>4. PICK f \in Both : \A g \in Both : depth[g] <= depth[f]
  BY <1>1, <1>3, DeepestExists
<1>5. PICK i \in 1..Len(p) : p[i] = f
  BY <1>4 DEF In
<1>6. PICK j \in 1..Len(q) : q[j] = f
  BY <1>4 DEF In
<1>7. f \notin P /\ f \notin Q
  BY <1>4
<1>8. /\ p \in Seq(Functions) /\ Len(p) \in Nat
      /\ q \in Seq(Functions) /\ Len(q) \in Nat
  BY DEF Listed
<1>9. PICK k \in (i + 1)..Len(p) : PoolHas(s, p[k], f)
  BY <1>5, <1>7 DEF Listed, OuterLater
<1>10. PICK l \in (j + 1)..Len(q) : PoolHas(s, q[l], f)
  BY <1>6, <1>7 DEF Listed, OuterLater
<1>11. k \in 1..Len(p) /\ l \in 1..Len(q)
  BY <1>8
<1>12. p[k] \in Functions /\ q[l] \in Functions
  BY <1>8, <1>11
<1>13. p[k] = q[l]
  BY <1>4, <1>9, <1>10, <1>12, OnePool
<1>14. p[k] \in Both
  BY <1>11, <1>12, <1>13 DEF In
<1>15. depth[f] < depth[p[k]]
  BY <1>1, <1>9, <1>12 DEF PoolHas, IsDepth
<1>16. depth[p[k]] <= depth[f] /\ depth[f] \in 0..Heap /\ depth[p[k]] \in 0..Heap
  BY <1>1, <1>4, <1>12, <1>14
<1> HIDE DEF Both
<1>17. QED
  BY <1>15, <1>16, SizesAssumption

(* Two lists with nothing in common, one behind the other. *)
Joined(s, p, q, tops) ==
    /\ Listed(s, p \o q, tops)
    /\ \A f \in Functions : In(p \o q, f) <=> In(p, f) \/ In(q, f)

LEMMA ListsJoin ==
    ASSUME NEW s \in Snapshots, NEW p, NEW q, NEW P, NEW Q,
           Listed(s, p, P), Listed(s, q, Q),
           \A f \in Functions : ~ (In(p, f) /\ In(q, f))
    PROVE  Joined(s, p, q, P \cup Q)
<1> DEFINE r == p \o q
           m == Len(p)
           n == Len(q)
<1>1. p \in Seq(Functions) /\ q \in Seq(Functions) /\ m \in Nat /\ n \in Nat
  BY DEF Listed
<1>2. /\ r \in Seq(Functions) /\ Len(r) = m + n
      /\ \A i \in 1..m : i \in 1..Len(r) /\ r[i] = p[i] /\ p[i] \in Functions
      /\ \A i \in 1..n : m + i \in 1..Len(r) /\ r[m + i] = q[i] /\ q[i] \in Functions
  BY <1>1
<1> HIDE DEF r
<1>3. \A i \in 1..Len(r) : i \in 1..m \/ (i - m \in 1..n /\ i = m + (i - m))
  BY <1>1, <1>2
<1>4. \A i \in 1..m : In(p, r[i])
  BY <1>2 DEF In
<1>5. \A i \in 1..n : In(q, r[m + i])
  BY <1>2 DEF In
<1>6. Unique(r)
  <2> SUFFICES ASSUME NEW i \in 1..Len(r), NEW j \in 1..Len(r), r[i] = r[j] PROVE i = j
    BY DEF Unique
  <2>1. CASE i \in 1..m /\ j \in 1..m
    BY <1>2, <2>1 DEF Listed, Unique
  <2>2. CASE i - m \in 1..n /\ j - m \in 1..n
    <3>1. i = m + (i - m) /\ j = m + (j - m)
      BY <1>1
    <3>2. r[m + (i - m)] = q[i - m]
      BY <1>2, <2>2
    <3>3. r[m + (j - m)] = q[j - m]
      BY <1>2, <2>2
    <3>4. r[i] = q[i - m] /\ r[j] = q[j - m]
      BY <3>1, <3>2, <3>3
    <3>5. i - m = j - m
      BY <2>2, <3>4 DEF Listed, Unique
    <3>6. QED
      BY <1>1, <3>5
  <2>3. CASE i \in 1..m /\ j - m \in 1..n
    <3>1. j = m + (j - m)
      BY <1>1
    <3>2. In(p, r[i]) /\ In(q, r[j]) /\ r[i] \in Functions
      BY <1>2, <1>4, <1>5, <2>3, <3>1
    <3>3. QED
      BY <3>2
  <2>4. CASE i - m \in 1..n /\ j \in 1..m
    <3>1. i = m + (i - m)
      BY <1>1
    <3>2. In(p, r[j]) /\ In(q, r[i]) /\ r[j] \in Functions
      BY <1>2, <1>4, <1>5, <2>4, <3>1
    <3>3. QED
      BY <3>2
  <2>5. QED
    BY <1>3, <2>1, <2>2, <2>3, <2>4
<1>7. InnerFirst(s, r)
  <2> SUFFICES ASSUME NEW j \in 1..Len(r), NEW f \in Functions, PoolHas(s, r[j], f)
               PROVE  \E i \in 1..(j - 1) : r[i] = f
    BY DEF InnerFirst
  <2>1. CASE j \in 1..m
    <3>1. PoolHas(s, p[j], f)
      BY <1>2, <2>1
    <3>2. PICK i \in 1..(j - 1) : p[i] = f
      BY <2>1, <3>1 DEF Listed, InnerFirst
    <3>3. i \in 1..m
      BY <1>1, <2>1
    <3>4. QED
      BY <1>2, <3>2, <3>3
  <2>2. CASE j - m \in 1..n
    <3>1. r[j] = q[j - m]
      BY <1>1, <1>2, <1>3, <2>2
    <3>2. PICK i \in 1..((j - m) - 1) : q[i] = f
      BY <2>2, <3>1 DEF Listed, InnerFirst
    <3>3. i \in 1..n /\ m + i \in 1..(j - 1)
      BY <1>1, <2>2
    <3>4. QED
      BY <1>2, <3>2, <3>3
  <2>3. QED
    BY <1>3, <2>1, <2>2
<1>8. OuterLater(s, r, P \cup Q)
  <2> SUFFICES ASSUME NEW i \in 1..Len(r), r[i] \notin P \cup Q
               PROVE  \E j \in (i + 1)..Len(r) : PoolHas(s, r[j], r[i])
    BY DEF OuterLater
  <2>1. CASE i \in 1..m
    <3>1. r[i] = p[i] /\ p[i] \notin P
      BY <1>2, <2>1
    <3>2. PICK j \in (i + 1)..m : PoolHas(s, p[j], p[i])
      BY <2>1, <3>1 DEF Listed, OuterLater
    <3>3. j \in 1..m /\ j \in (i + 1)..Len(r)
      BY <1>1, <1>2, <2>1
    <3>4. QED
      BY <1>2, <3>1, <3>2, <3>3
  <2>2. CASE i - m \in 1..n
    <3>1. r[i] = q[i - m] /\ q[i - m] \notin Q
      BY <1>1, <1>2, <1>3, <2>2
    <3>2. PICK j \in ((i - m) + 1)..n : PoolHas(s, q[j], q[i - m])
      BY <2>2, <3>1 DEF Listed, OuterLater
    <3>3. j \in 1..n /\ m + j \in (i + 1)..Len(r)
      BY <1>1, <1>2, <2>2
    <3>4. QED
      BY <1>2, <3>1, <3>2, <3>3
  <2>3. QED
    BY <1>3, <2>1, <2>2
<1>9. \A f : In(r, f) <=> In(p, f) \/ In(q, f)
  <2>1. ASSUME NEW f, In(p, f) PROVE In(r, f)
    BY <1>2, <2>1 DEF In
  <2>2. ASSUME NEW f, In(q, f) PROVE In(r, f)
    <3>1. PICK i \in 1..n : q[i] = f
      BY <2>2 DEF In
    <3>2. QED
      BY <1>2, <3>1 DEF In
  <2>3. ASSUME NEW f, In(r, f) PROVE In(p, f) \/ In(q, f)
    <3>1. PICK i \in 1..Len(r) : r[i] = f
      BY <2>3 DEF In
    <3>2. QED
      BY <1>3, <1>4, <1>5, <3>1
  <2>4. QED
    BY <2>1, <2>2, <2>3
<1>10. Listed(s, r, P \cup Q)
  <2>1. \A f \in P \cup Q : In(p, f) \/ In(q, f)
    BY DEF Listed
  <2>2. QED
    BY <1>2, <1>6, <1>7, <1>8, <1>9, <2>1 DEF Listed
<1>11. QED
  BY <1>9, <1>10 DEF r, Joined

(* A function that is in such a list without being a top is in a pool of   *)
(* another that is in it. *)
LEMMA OuterIn ==
    ASSUME NEW s, NEW q, NEW tops, Listed(s, q, tops), NEW f, In(q, f), f \notin tops
    PROVE  \E g \in Functions : In(q, g) /\ PoolHas(s, g, f)
<1>1. q \in Seq(Functions) /\ Len(q) \in Nat
  BY DEF Listed
<1>2. PICK i \in 1..Len(q) : q[i] = f
  BY DEF In
<1>3. PICK j \in (i + 1)..Len(q) : PoolHas(s, q[j], f)
  BY <1>2 DEF Listed, OuterLater
<1>4. j \in 1..Len(q)
  BY <1>1
<1>5. q[j] \in Functions
  BY <1>1, <1>4
<1>6. In(q, q[j])
  BY <1>4 DEF In
<1>7. QED
  BY <1>3, <1>5, <1>6

(* The lists of functions as deep as d: what they hold is as deep. *)
Under(s, order, depth, f) ==
    /\ Listed(s, order[f], {f})
    /\ \A g \in Functions : In(order[f], g) => depth[g] <= depth[f]

Tops(s, f, k) == { g \in Functions : g # f /\ \E m \in 1..k : s.subs[f][m] = g }

LEMMA BelowListed ==
    ASSUME NEW s \in Snapshots, NEW order, IsOrder(s, order),
           NEW depth \in [Functions -> 0..Heap], IsDepth(s, depth), NEW f \in Functions,
           \A g \in Functions : depth[g] < depth[f] => Under(s, order, depth, g)
    PROVE  LET n == Len(s.subs[f])
               B == Below(s, order, f)
           IN  /\ B[n] \in Seq(Functions)
               /\ Listed(s, B[n], Tops(s, f, n))
               /\ \A g \in Functions : In(B[n], g) => depth[g] < depth[f]
<1> DEFINE n == Len(s.subs[f])
           B == Below(s, order, f)
           G == { k \in 0..n : /\ Listed(s, B[k], Tops(s, f, k))
                               /\ \A g \in Functions : In(B[k], g) => depth[g] < depth[f] }
<1>1. s.subs \in [Functions -> Seq(Functions)] /\ n \in Nat
      /\ \A k \in 1..n : s.subs[f][k] \in Functions
  <2>1. s.subs \in [Functions -> Seq(Functions)]
    BY SnapshotsAssumption DEF IsSnapshot
  <2>2. s.subs[f] \in Seq(Functions)
    BY <2>1
  <2>3. QED
    BY <2>1, <2>2
<1>2. BelowIsThat(s, order, f)
  <2>1. \A k \in 1..Len(s.subs[f]) : s.subs[f][k] # f => order[s.subs[f][k]] \in Seq(Functions)
    BY <1>1 DEF IsOrder
  <2>2. QED
    BY <1>1, <2>1, BelowUnfolds
<1>3. \A k \in 0..n : B[k] \in Seq(Functions) /\ B[k] = BelowStep(s, order, f, B, k)
  BY <1>2 DEF BelowIsThat
<1> HIDE DEF B
<1>4. \A g \in Functions : depth[g] \in Nat
  BY SizesAssumption
<1>5. 0 \in G
  <2>1. B[0] = <<>> /\ 0 \in 0..n
    BY <1>1, <1>3 DEF BelowStep
  <2>2. \A i : i \notin 1..Len(B[0])
    BY <2>1
  <2>3. Tops(s, f, 0) = {}
    BY DEF Tops
  <2>4. Listed(s, B[0], {})
    BY <1>3, <2>1, <2>2 DEF Listed, Unique, InnerFirst, OuterLater
  <2>5. \A g : ~ In(B[0], g)
    BY <2>2 DEF In
  <2>6. QED
    BY <2>1, <2>3, <2>4, <2>5
<1>6. ASSUME NEW k \in 1..n, k - 1 \in G PROVE k \in G
  <2> DEFINE g == s.subs[f][k]
  <2>1. k \in 0..n /\ k # 0 /\ k - 1 \in 0..n /\ g \in Functions
    BY <1>1
  <2>2. /\ Listed(s, B[k - 1], Tops(s, f, k - 1))
        /\ \A h \in Functions : In(B[k - 1], h) => depth[h] < depth[f]
    BY <1>6
  <2>3. \A m \in 1..k : m \in 1..(k - 1) \/ m = k
    BY <2>1
  <2>4. \A m \in 1..(k - 1) : m \in 1..k /\ m \in 1..n /\ m # k
    BY <1>1
  <2>5. CASE g = f
    <3>1. B[k] = B[k - 1]
      BY <1>3, <2>1, <2>5 DEF BelowStep
    <3>2. Tops(s, f, k) = Tops(s, f, k - 1)
      BY <2>3, <2>4, <2>5 DEF Tops
    <3>3. QED
      BY <2>1, <2>2, <3>1, <3>2
  <2>6. CASE g # f
    <3>1. B[k] = B[k - 1] \o order[g]
      BY <1>3, <2>1, <2>6 DEF BelowStep
    <3>2. depth[g] < depth[f]
      BY <2>6 DEF IsDepth
    <3>3. Under(s, order, depth, g)
      BY <2>1, <3>2
    <3>4. PoolHas(s, f, g)
      BY <2>6 DEF PoolHas
    <3>5. g \notin Tops(s, f, k - 1)
      <4>1. ASSUME NEW m \in 1..(k - 1), s.subs[f][m] = g PROVE FALSE
        <5>1. m \in 1..n /\ m # k
          BY <2>4
        <5>2. QED
          BY <2>1, <2>6, <4>1, <5>1, SnapshotsAssumption DEF IsForest
      <4>2. QED
        BY <4>1 DEF Tops
    <3>6. ASSUME NEW t \in Tops(s, f, k - 1), In(order[g], t) PROVE FALSE
      <4>1. t \in Functions /\ PoolHas(s, f, t)
        BY <2>4 DEF Tops, PoolHas
      <4>2. Listed(s, order[g], {g}) /\ t \notin {g}
        BY <3>3, <3>5 DEF Under
      <4>3. PICK h \in Functions : In(order[g], h) /\ PoolHas(s, h, t)
        BY <3>6, <4>2, OuterIn
      <4>4. h = f
        BY <4>1, <4>3, OnePool
      <4>5. depth[f] <= depth[g]
        BY <3>3, <4>3, <4>4 DEF Under
      <4> HIDE DEF g
      <4>6. QED
        BY <1>4, <2>1, <3>2, <4>5
    <3>7. ~ In(B[k - 1], g)
      <4>1. SUFFICES ASSUME In(B[k - 1], g) PROVE FALSE
        OBVIOUS
      <4> HIDE DEF g
      <4>2. PICK h \in Functions : In(B[k - 1], h) /\ PoolHas(s, h, g)
        BY <2>2, <3>5, <4>1, OuterIn
      <4>3. h = f
        BY <2>1, <3>4, <4>2, OnePool
      <4>4. depth[f] < depth[f]
        BY <2>2, <4>2, <4>3
      <4>5. QED
        BY <1>4, <4>4
    <3>8. Listed(s, order[g], {g})
      BY <3>3 DEF Under
    <3>9. \A h \in Functions : ~ (In(B[k - 1], h) /\ In(order[g], h))
      <4>1. \A t \in Tops(s, f, k - 1) : ~ In(order[g], t)
        BY <3>6
      <4>2. \A t \in {g} : ~ In(B[k - 1], t)
        BY <3>7
      <4> HIDE DEF g
      <4>3. QED
        BY <2>2, <3>8, <4>1, <4>2, ListsApart
    <3>10. /\ Listed(s, B[k - 1] \o order[g], Tops(s, f, k - 1) \cup {g})
           /\ \A h \in Functions :
                 In(B[k - 1] \o order[g], h) <=> In(B[k - 1], h) \/ In(order[g], h)
      <4>1. Joined(s, B[k - 1], order[g], Tops(s, f, k - 1) \cup {g})
        <5> HIDE DEF g
        <5>1. QED
          BY <2>2, <3>8, <3>9, ListsJoin
      <4>2. QED
        BY <4>1 DEF Joined
    <3>11. Tops(s, f, k) = Tops(s, f, k - 1) \cup {g}
      <4>1. \A h \in Functions : h \in Tops(s, f, k) <=> h \in Tops(s, f, k - 1) \/ h = g
        BY <2>1, <2>3, <2>4, <2>6 DEF Tops
      <4>2. Tops(s, f, k) \subseteq Functions /\ Tops(s, f, k - 1) \cup {g} \subseteq Functions
        BY <2>1 DEF Tops
      <4> HIDE DEF g
      <4>3. QED
        BY <2>1, <4>1, <4>2
    <3>12. \A h \in Functions : In(order[g], h) => depth[h] < depth[f]
      <4>1. \A h \in Functions : In(order[g], h) => depth[h] <= depth[g]
        BY <3>3 DEF Under
      <4> HIDE DEF g
      <4>2. QED
        BY <1>4, <2>1, <3>2, <4>1
    <3>13. \A h \in Functions : In(B[k], h) => depth[h] < depth[f]
      BY <2>2, <3>1, <3>10, <3>12
    <3>14. QED
      BY <2>1, <3>1, <3>10, <3>11, <3>13
  <2>7. QED
    BY <2>5, <2>6
<1> HIDE DEF G
<1>7. \A k \in 0..n : k \in G
  BY <1>1, <1>5, <1>6, UpTo
<1>8. n \in G /\ n \in 0..n
  BY <1>1, <1>7
<1>9. QED
  BY <1>3, <1>8 DEF G, B

(* ... and a function behind the lists of those in its pool. *)
LEMMA OuterListed ==
    ASSUME NEW s \in Snapshots, NEW q \in Seq(Functions), NEW f \in Functions,
           Listed(s, q, Tops(s, f, Len(s.subs[f]))), ~ In(q, f)
    PROVE  /\ Listed(s, Append(q, f), {f})
           /\ \A g \in Functions : In(Append(q, f), g) <=> In(q, g) \/ g = f
<1> DEFINE r == Append(q, f)
           n == Len(q)
<1>1. /\ n \in Nat /\ r \in Seq(Functions) /\ Len(r) = n + 1 /\ r[n + 1] = f
      /\ \A i \in 1..n : i \in 1..(n + 1) /\ r[i] = q[i] /\ q[i] \in Functions
      /\ \A i \in 1..(n + 1) : i \in 1..n \/ i = n + 1
      /\ n + 1 \in 1..(n + 1)
  OBVIOUS
<1> HIDE DEF r
<1>2. \A i \in 1..n : q[i] # f
  BY DEF In
<1>3. Unique(r)
  BY <1>1, <1>2 DEF Listed, Unique
<1>4. InnerFirst(s, r)
  <2> SUFFICES ASSUME NEW j \in 1..Len(r), NEW g \in Functions, PoolHas(s, r[j], g)
               PROVE  \E i \in 1..(j - 1) : r[i] = g
    BY DEF InnerFirst
  <2>1. CASE j \in 1..n
    <3>1. PICK i \in 1..(j - 1) : q[i] = g
      BY <1>1, <2>1 DEF Listed, InnerFirst
    <3>2. i \in 1..n
      BY <1>1, <2>1
    <3>3. QED
      BY <1>1, <3>1, <3>2
  <2>2. CASE j = n + 1
    <3>1. PoolHas(s, f, g)
      BY <1>1, <2>2
    <3>2. g \in Tops(s, f, Len(s.subs[f]))
      BY <3>1 DEF PoolHas, Tops
    <3>3. PICK i \in 1..n : q[i] = g
      BY <3>2 DEF Listed, In
    <3>4. i \in 1..(j - 1)
      BY <1>1, <2>2
    <3>5. QED
      BY <1>1, <3>3, <3>4
  <2>3. QED
    BY <1>1, <2>1, <2>2
<1>5. OuterLater(s, r, {f})
  <2> SUFFICES ASSUME NEW i \in 1..Len(r), r[i] # f
               PROVE  \E j \in (i + 1)..Len(r) : PoolHas(s, r[j], r[i])
    BY DEF OuterLater
  <2>1. i \in 1..n /\ r[i] = q[i] /\ q[i] \in Functions
    BY <1>1
  <2>2. CASE q[i] \in Tops(s, f, Len(s.subs[f]))
    <3>1. PoolHas(s, f, q[i])
      BY <2>2 DEF Tops, PoolHas
    <3>2. n + 1 \in (i + 1)..Len(r)
      BY <1>1, <2>1
    <3>3. QED
      BY <1>1, <2>1, <3>1, <3>2
  <2>3. CASE q[i] \notin Tops(s, f, Len(s.subs[f]))
    <3>1. PICK j \in (i + 1)..n : PoolHas(s, q[j], q[i])
      BY <2>1, <2>3 DEF Listed, OuterLater
    <3>2. j \in 1..n /\ j \in (i + 1)..Len(r)
      BY <1>1, <2>1
    <3>3. QED
      BY <1>1, <2>1, <3>1, <3>2
  <2>4. QED
    BY <2>2, <2>3
<1>6. \A g : In(r, g) <=> In(q, g) \/ g = f
  BY <1>1 DEF In
<1>7. Listed(s, r, {f})
  BY <1>1, <1>3, <1>4, <1>5, <1>6 DEF Listed
<1>8. QED
  BY <1>6, <1>7 DEF r

LEMMA FunctionsListed ==
    ASSUME NEW s \in Snapshots, NEW f \in Functions
    PROVE  Listed(s, FunctionsOf(s)[f], {f})
<1> DEFINE order == FunctionsOf(s)
<1>1. IsOrder(s, order)
  BY FunctionsOfUnfolds
<1> HIDE DEF order
<1>2. PICK depth \in [Functions -> 0..Heap] : IsDepth(s, depth)
  BY SnapshotsAssumption
<1>3. Heap \in Nat /\ \A g \in Functions : depth[g] \in 0..Heap
  BY <1>2, SizesAssumption
<1> DEFINE G == { d \in 0..(Heap + 1) :
                     \A g \in Functions : depth[g] < d => Under(s, order, depth, g) }
<1>4. 0 \in G
  BY <1>3
<1>5. ASSUME NEW d \in 1..(Heap + 1), d - 1 \in G PROVE d \in G
  <2>1. ASSUME NEW g \in Functions, depth[g] < d PROVE Under(s, order, depth, g)
    <3> DEFINE B == Below(s, order, g)[Len(s.subs[g])]
    <3>1. \A h \in Functions : depth[h] < depth[g] => Under(s, order, depth, h)
      <4>1. \A h \in Functions : depth[h] < depth[g] => depth[h] < d - 1
        BY <1>3, <2>1
      <4>2. QED
        BY <1>5, <4>1
    <3>2. /\ B \in Seq(Functions)
          /\ Listed(s, B, Tops(s, g, Len(s.subs[g])))
          /\ \A h \in Functions : In(B, h) => depth[h] < depth[g]
      BY <1>1, <1>2, <3>1, BelowListed
    <3>3. order[g] = Append(B, g)
      BY <1>1 DEF IsOrder
    <3> HIDE DEF B
    <3>4. ~ In(B, g)
      BY <1>3, <3>2
    <3>5. /\ Listed(s, Append(B, g), {g})
          /\ \A h \in Functions : In(Append(B, g), h) <=> In(B, h) \/ h = g
      BY <3>2, <3>4, OuterListed
    <3>6. \A h \in Functions : In(order[g], h) => depth[h] <= depth[g]
      BY <1>3, <3>2, <3>3, <3>5
    <3>7. QED
      BY <3>3, <3>5, <3>6 DEF Under
  <2>2. QED
    BY <1>3, <2>1
<1> HIDE DEF G
<1>6. \A d \in 0..(Heap + 1) : d \in G
  BY <1>3, <1>4, <1>5, UpTo
<1>7. Heap + 1 \in G
  BY <1>3, <1>6
<1>8. depth[f] < Heap + 1
  BY <1>3
<1>9. Under(s, order, depth, f)
  BY <1>7, <1>8 DEF G
<1>10. QED
  BY <1>9 DEF Under, order

-----------------------------------------------------------------------------
(* The passes, and what is serialised. *)

(* All passes are through with function f. *)
Through(f) == \A k \in 1..Len(Passes) : <<f, Passes[k]>> \in ran

Positions ==
    /\ file \in Snapshots
    /\ loaded \in Nat
    /\ list \in Seq(Functions)
    /\ at \in Nat \ {0}
    /\ pass \in 1..(Len(Passes) + 1)
    /\ pc \in {"read", "optimize", "write", "snapshot", "done", "failed"}
    /\ pc = "snapshot" => at <= Len(list)
    /\ pc = "read" => at = 1 /\ pass = 1

(* What the mask need not tell: the functions passed are through, and of   *)
(* the one at hand the passes before the current one.                      *)
Progress ==
    /\ pc = "optimize" =>
          /\ \A i \in 1..Len(list) : i < at => Through(list[i])
          /\ \A k \in 1..(pass - 1) : at <= Len(list) /\ <<list[at], Passes[k]>> \in ran
          /\ \A k \in 1..(pass - 1) : Bits(Passes[k]) \subseteq mask
    /\ pc \in {"write", "snapshot", "done"} => \A i \in 1..Len(list) : Through(list[i])

Written == [fn : Functions, start : Nat, bytes : Nat \ {0}]

(* The snapshots follow each other, each with as many units as it has      *)
(* bytes, and what is left of the buffer counts the rest.                  *)
Buffer ==
    /\ written \in Seq(Written)
    /\ bufferAt \in Nat /\ bufferSize \in Nat /\ bufferAt + bufferSize = Units
    /\ \A i \in 1..Len(written) : written[i].start + written[i].bytes <= bufferAt
    /\ \A i, j \in 1..Len(written) :
          i < j => written[i].start + written[i].bytes <= written[j].start

IInv == Positions /\ Progress /\ Buffer

-----------------------------------------------------------------------------
LEMMA PassesKnown ==
    /\ Len(Passes) = 4
    /\ Passes[1] = CFA /\ Passes[2] = DOM /\ Passes[3] = LIV /\ Passes[4] = REG
    /\ CFA # DOM /\ CFA # LIV /\ CFA # REG /\ DOM # LIV /\ DOM # REG /\ LIV # REG
  BY DEF Passes, CFA, DOM, LIV, REG

(* The pass that a pass asserts is one before it, and its bits are not     *)
(* nothing. *)
LEMMA RequiredBefore ==
    ASSUME NEW k \in 1..Len(Passes), NEW q \in Requires(Passes[k])
    PROVE  /\ \E l \in 1..(k - 1) : q = Passes[l]
           /\ Bits(q) # {}
<1>1. k \in {1, 2, 3, 4}
  BY PassesKnown
<1>2. CASE k = 1
  BY <1>2, PassesKnown DEF Requires
<1>3. CASE k = 2
  <2>1. q = CFA
    BY <1>3, PassesKnown DEF Requires
  <2>2. 1 \in 1..(k - 1) /\ q = Passes[1]
    BY <1>3, <2>1, PassesKnown
  <2>3. QED
    BY <2>1, <2>2 DEF Bits
<1>4. CASE k = 3
  <2>1. q = DOM
    BY <1>4, PassesKnown DEF Requires
  <2>2. 2 \in 1..(k - 1) /\ q = Passes[2]
    BY <1>4, <2>1, PassesKnown
  <2>3. Bits(q) = {1}
    BY <2>1, PassesKnown DEF Bits
  <2>4. QED
    BY <2>2, <2>3
<1>5. CASE k = 4
  <2>1. q = LIV
    BY <1>5, PassesKnown DEF Requires
  <2>2. 3 \in 1..(k - 1) /\ q = Passes[3]
    BY <1>5, <2>1, PassesKnown
  <2>3. Bits(q) = {0, 1}
    BY <2>1, PassesKnown DEF Bits
  <2>4. QED
    BY <2>2, <2>3
<1>6. QED
  BY <1>1, <1>2, <1>3, <1>4, <1>5

LEMMA InitIInv == Init => IInv
<1> SUFFICES ASSUME Init PROVE IInv
  OBVIOUS
<1>1. Positions
  BY PassesKnown DEF Init, Positions
<1>2. Progress
  BY DEF Init, Progress
<1>3. Buffer
  BY SizesAssumption DEF Init, Buffer
<1>4. QED
  BY <1>1, <1>2, <1>3 DEF IInv

LEMMA LoadKeeps == IInv /\ Load => IInv'
<1> SUFFICES ASSUME IInv, Load PROVE IInv'
  OBVIOUS
<1>1. /\ pc = "read" /\ pc' = pc /\ loaded < Len(file.roots) /\ loaded' = loaded + 1
      /\ list' = list \o FunctionsOf(file)[file.roots[loaded + 1]]
      /\ UNCHANGED <<file, at, pass, mask, ran, bufferAt, bufferSize, written>>
  BY DEF Load, passes, buffers
<1>2. file \in Snapshots /\ loaded \in Nat /\ list \in Seq(Functions)
  BY DEF IInv, Positions
<1>3. file.roots[loaded + 1] \in Functions
  <2>1. file.roots \in Seq(Functions)
    BY <1>2, SnapshotsAssumption DEF IsSnapshot
  <2>2. loaded + 1 \in 1..Len(file.roots)
    BY <1>1, <1>2, <2>1
  <2>3. QED
    BY <2>1, <2>2
<1>4. list' \in Seq(Functions)
  <2>1. FunctionsOf(file)[file.roots[loaded + 1]] \in Seq(Functions)
    BY <1>2, <1>3, FunctionsListed DEF Listed
  <2>2. QED
    BY <1>1, <1>2, <2>1
<1>5. Positions'
  BY <1>1, <1>4 DEF IInv, Positions
<1>6. Progress' /\ Buffer'
  BY <1>1 DEF IInv, Progress, Buffer
<1>7. QED
  BY <1>5, <1>6 DEF IInv

LEMMA StopsKeep == IInv /\ (LoadFails \/ EndRead \/ WriteFails) => IInv'
<1> SUFFICES ASSUME IInv, LoadFails \/ EndRead \/ WriteFails PROVE IInv'
  OBVIOUS
<1>1. /\ UNCHANGED <<file, loaded, list, at, pass, mask, ran, bufferAt, bufferSize, written>>
      /\ pc' = "failed" \/ (pc = "read" /\ pc' = "optimize")
  BY DEF LoadFails, EndRead, WriteFails, files, passes, buffers
<1>2. Positions'
  BY <1>1 DEF IInv, Positions
<1>3. Progress'
  BY <1>1, <1>2 DEF IInv, Positions, Progress
<1>4. Buffer'
  BY <1>1 DEF IInv, Buffer
<1>5. QED
  BY <1>2, <1>3, <1>4 DEF IInv

LEMMA RunPassKeeps == IInv /\ RunPass => IInv'
<1> SUFFICES ASSUME IInv, RunPass PROVE IInv'
  OBVIOUS
<1> DEFINE p == Passes[pass]
<1>1. /\ pc = "optimize" /\ at <= Len(list) /\ pass <= Len(Passes)
      /\ UNCHANGED <<file, loaded, list, at, bufferAt, bufferSize, written>>
  BY DEF RunPass, files, buffers
<1>2. pass \in 1..Len(Passes) /\ Len(Passes) = 4
  BY <1>1, PassesKnown DEF IInv, Positions
<1>3. \A q \in Requires(p) : IsSucceeded(q)
  <2>1. ASSUME NEW q \in Requires(p) PROVE mask \cap Bits(q) # {}
    <3>1. PICK l \in 1..(pass - 1) : q = Passes[l]
      BY <1>2, <2>1, RequiredBefore
    <3>2. Bits(q) # {} /\ Bits(q) \subseteq mask
      BY <1>1, <1>2, <2>1, <3>1, RequiredBefore DEF IInv, Progress
    <3>3. QED
      BY <3>2
  <2>2. QED
    BY <2>1 DEF IsSucceeded
<1>4. /\ ran' = ran \cup {<<list[at], p>>} /\ mask' = mask \cup Bits(p)
      /\ pass' = pass + 1 /\ pc' = pc
  BY <1>3 DEF RunPass
<1> HIDE DEF p
<1>5. Positions'
  BY <1>1, <1>2, <1>4 DEF IInv, Positions
<1>6. Progress'
  <2>1. \A k \in 1..(pass' - 1) : k \in 1..(pass - 1) \/ k = pass
    BY <1>2, <1>4
  <2>2. \A k \in 1..(pass' - 1) : at <= Len(list) /\ <<list[at], Passes[k]>> \in ran'
    BY <1>1, <1>4, <2>1 DEF IInv, Progress, p
  <2>3. \A k \in 1..(pass' - 1) : Bits(Passes[k]) \subseteq mask'
    BY <1>1, <1>4, <2>1 DEF IInv, Progress, p
  <2>4. \A i \in 1..Len(list) : i < at => Through(list[i])'
    BY <1>1, <1>4 DEF IInv, Progress, Through
  <2>5. QED
    BY <1>1, <1>4, <2>2, <2>3, <2>4 DEF Progress
<1>7. Buffer'
  BY <1>1 DEF IInv, Buffer
<1>8. QED
  BY <1>5, <1>6, <1>7 DEF IInv

LEMMA NextFunctionKeeps == IInv /\ NextFunction => IInv'
<1> SUFFICES ASSUME IInv, NextFunction PROVE IInv'
  OBVIOUS
<1>1. /\ pc = "optimize" /\ pc' = pc /\ at <= Len(list) /\ pass > Len(Passes)
      /\ at' = at + 1 /\ pass' = 1
      /\ UNCHANGED <<file, loaded, list, mask, ran, bufferAt, bufferSize, written>>
  BY DEF NextFunction, FirstPass, files, buffers
<1>2. at \in Nat \ {0} /\ pass = Len(Passes) + 1 /\ Len(Passes) = 4 /\ Len(list) \in Nat
  BY <1>1, PassesKnown DEF IInv, Positions
<1>3. Positions'
  BY <1>1, <1>2 DEF IInv, Positions
<1>4. Progress'
  <2>1. Through(list[at])
    BY <1>1, <1>2 DEF IInv, Progress, Through
  <2>2. \A i \in 1..Len(list) : i < at' => i < at \/ i = at
    BY <1>1, <1>2
  <2>3. \A i \in 1..Len(list) : i < at' => Through(list[i])
    BY <1>1, <2>1, <2>2 DEF IInv, Progress
  <2>4. \A k : k \notin 1..(pass' - 1)
    BY <1>1
  <2>5. QED
    BY <1>1, <2>3, <2>4 DEF Progress, Through
<1>5. Buffer'
  BY <1>1 DEF IInv, Buffer
<1>6. QED
  BY <1>3, <1>4, <1>5 DEF IInv

LEMMA EndOptimizeKeeps == IInv /\ EndOptimize => IInv'
<1> SUFFICES ASSUME IInv, EndOptimize PROVE IInv'
  OBVIOUS
<1>1. /\ pc = "optimize" /\ pc' = "write" /\ at > Len(list) /\ at' = 1
      /\ UNCHANGED <<file, loaded, list, pass, mask, ran, bufferAt, bufferSize, written>>
  BY DEF EndOptimize, files, passes, buffers
<1>2. \A i \in 1..Len(list) : i < at
  BY <1>1 DEF IInv, Positions
<1>3. Positions' /\ Buffer'
  BY <1>1 DEF IInv, Positions, Buffer
<1>4. Progress'
  BY <1>1, <1>2 DEF IInv, Progress, Through
<1>5. QED
  BY <1>3, <1>4 DEF IInv

LEMMA EmitKeeps == IInv /\ Emit => IInv'
<1> SUFFICES ASSUME IInv, Emit PROVE IInv'
  OBVIOUS
<1>1. /\ pc = "write" /\ at <= Len(list)
      /\ (pc' = "snapshot" /\ at' = at) \/ (pc' = "write" /\ at' = at + 1)
      /\ UNCHANGED <<file, loaded, list, pass, mask, ran, bufferAt, bufferSize, written>>
  BY DEF Emit, passes, buffers
<1>2. Positions' /\ Buffer'
  <2>1. at \in Nat \ {0} /\ at' \in Nat \ {0}
    BY <1>1 DEF IInv, Positions
  <2>2. Buffer'
    BY <1>1 DEF IInv, Buffer
  <2>3. Positions'
    BY <1>1, <2>1 DEF IInv, Positions
  <2>4. QED
    BY <2>2, <2>3
<1>3. Progress'
  BY <1>1 DEF IInv, Progress, Through
<1>4. QED
  BY <1>2, <1>3 DEF IInv

LEMMA WriteSnapshotKeeps == IInv /\ WriteSnapshot => IInv'
<1> SUFFICES ASSUME IInv, WriteSnapshot PROVE IInv'
  OBVIOUS
<1> DEFINE bytes == file.size[list[at]]
           entry == [fn |-> list[at], start |-> bufferAt, bytes |-> bytes]
<1>1. /\ pc = "snapshot" /\ pc' = "write" /\ at' = at + 1 /\ bytes <= bufferSize
      /\ written' = Append(written, entry)
      /\ bufferAt' = bufferAt + bytes /\ bufferSize' = bufferSize - bytes
      /\ UNCHANGED <<file, loaded, list, pass, mask, ran>>
  BY DEF WriteSnapshot, Advance, files, passes
<1>2. list[at] \in Functions /\ file.size \in [Functions -> Nat \ {0}]
  <2>1. at \in 1..Len(list) /\ list \in Seq(Functions) /\ file \in Snapshots
    BY <1>1 DEF IInv, Positions
  <2>2. QED
    BY <2>1, SnapshotsAssumption DEF IsSnapshot
<1>3. bytes \in Nat \ {0} /\ bufferAt \in Nat /\ bufferSize \in Nat
      /\ bufferAt + bufferSize = Units
  BY <1>2 DEF IInv, Buffer
<1> HIDE DEF bytes
<1>4. entry \in Written /\ entry.start = bufferAt /\ entry.bytes = bytes
  BY <1>2, <1>3 DEF Written
<1> HIDE DEF entry
<1>5. Positions' /\ Progress'
  BY <1>1 DEF IInv, Positions, Progress, Through
<1>6. Buffer'
  <2>1. /\ written \in Seq(Written) /\ Len(written) \in Nat
        /\ written' \in Seq(Written) /\ Len(written') = Len(written) + 1
        /\ \A i \in 1..Len(written) : written'[i] = written[i] /\ written[i] \in Written
        /\ written'[Len(written) + 1] = entry
    BY <1>1, <1>4 DEF IInv, Buffer
  <2>2. \A i \in 1..Len(written') : i \in 1..Len(written) \/ i = Len(written) + 1
    BY <2>1
  <2>3. /\ bufferAt' \in Nat /\ bufferSize' \in Nat /\ bufferAt' + bufferSize' = Units
        /\ bufferAt <= bufferAt'
    BY <1>1, <1>3
  <2>4. \A i \in 1..Len(written) : written[i].start + written[i].bytes <= bufferAt
    BY DEF IInv, Buffer
  <2>5. \A i \in 1..Len(written) :
           written[i].start \in Nat /\ written[i].bytes \in Nat
    BY <2>1 DEF Written
  <2>6. \A i \in 1..Len(written') : written'[i].start + written'[i].bytes <= bufferAt'
    <3>1. \A i \in 1..Len(written) : written[i].start + written[i].bytes <= bufferAt'
      BY <1>3, <2>3, <2>4, <2>5
    <3>2. entry.start + entry.bytes <= bufferAt'
      BY <1>1, <1>3, <1>4
    <3>3. QED
      BY <2>1, <2>2, <3>1, <3>2
  <2>7. \A i, j \in 1..Len(written') :
           i < j => written'[i].start + written'[i].bytes <= written'[j].start
    <3>1. \A i, j \in 1..Len(written') :
             i < j => i \in 1..Len(written) /\ (j \in 1..Len(written) \/ j = Len(written) + 1)
      BY <2>1
    <3>2. QED
      BY <1>4, <2>1, <2>4, <3>1 DEF IInv, Buffer
  <2>8. QED
    BY <2>1, <2>3, <2>6, <2>7 DEF Buffer
<1>7. QED
  BY <1>5, <1>6 DEF IInv

LEMMA EndWriteKeeps == IInv /\ EndWrite => IInv'
<1> SUFFICES ASSUME IInv, EndWrite PROVE IInv'
  OBVIOUS
<1>1. /\ pc = "write" /\ pc' = "done"
      /\ UNCHANGED <<file, loaded, list, at, pass, mask, ran, bufferAt, bufferSize, written>>
  BY DEF EndWrite, files, passes
<1>2. Positions' /\ Progress' /\ Buffer'
  BY <1>1 DEF IInv, Positions, Progress, Buffer, Through
<1>3. QED
  BY <1>2 DEF IInv

LEMMA Invariance == IInv /\ [Next]_vars => IInv'
<1> SUFFICES ASSUME IInv, [Next]_vars PROVE IInv'
  OBVIOUS
<1>1. CASE Next
  BY <1>1, LoadKeeps, StopsKeep, RunPassKeeps, NextFunctionKeeps, EndOptimizeKeeps,
     EmitKeeps, WriteSnapshotKeeps, EndWriteKeeps DEF Next
<1>2. CASE UNCHANGED vars
  <2>1. UNCHANGED <<file, loaded, list, pc, at, pass, mask, ran, bufferAt, bufferSize, written>>
    BY <1>2 DEF vars, files, passes, buffers
  <2>2. QED
    BY <2>1 DEF IInv, Positions, Progress, Through, Buffer
<1>3. QED
  BY <1>1, <1>2

LEMMA Inductive == Spec => []IInv
  BY InitIInv, Invariance, PTL DEF Spec

-----------------------------------------------------------------------------
(* No assertion of a pass that another one has succeeded ever fails,       *)
(* whatever the shared mask holds from the functions before. *)
THEOREM NoPassAborts == Spec => [](pc # "aborted")
<1>1. IInv => pc # "aborted"
  BY DEF IInv, Positions
<1>2. QED
  BY <1>1, Inductive, PTL

(* The snapshots in output_buffer, and the part the merge writes to, do    *)
(* not overlap: each is given as many units as it has bytes, which wastes  *)
(* three quarters of the buffer and keeps it safe. *)
THEOREM NothingOverwritten == Spec => []BuffersApart
<1>1. ASSUME IInv PROVE BuffersApart
  <2>1. /\ bufferAt \in Nat /\ bufferSize \in Nat /\ bufferAt + bufferSize = Units
        /\ \A i \in 1..Len(written) : written[i] \in Written
    BY <1>1 DEF IInv, Buffer
  <2>2. \A i \in 1..Len(written) : written[i].start \in Nat /\ written[i].bytes \in Nat
    BY <2>1 DEF Written
  <2>3. \A i \in 1..Len(written) : written[i].start * 4 + written[i].bytes <= bufferAt * 4
    <3>1. TAKE i \in 1..Len(written)
    <3>2. written[i].start + written[i].bytes <= bufferAt
      BY <1>1 DEF IInv, Buffer
    <3>3. QED
      BY <2>1, <2>2, <3>2
  <2>4. \A i, j \in 1..Len(written) :
           i < j => written[i].start * 4 + written[i].bytes <= written[j].start * 4
    <3>1. SUFFICES ASSUME NEW i \in 1..Len(written), NEW j \in 1..Len(written), i < j
                   PROVE  written[i].start * 4 + written[i].bytes <= written[j].start * 4
      OBVIOUS
    <3>2. written[i].start + written[i].bytes <= written[j].start
      BY <1>1, <3>1 DEF IInv, Buffer
    <3>3. QED
      BY <2>2, <3>2
  <2>5. bufferAt * 4 + bufferSize <= Units * 4
    BY <2>1
  <2>6. QED
    BY <2>3, <2>4, <2>5 DEF BuffersApart
<1>2. QED
  BY <1>1, Inductive, PTL

(* A pass runs on a function only after those it relies on ran on that     *)
(* function, and functions are emitted after all passes. *)
THEOREM PassesInOrder == Spec => PrerequisitesRan
<1>1. ASSUME IInv, Next PROVE InTurn
  <2>1. \A fp \in ran' \ ran : \A q \in Requires(fp[2]) : <<fp[1], q>> \in ran
    <3>1. SUFFICES ASSUME NEW fp \in ran' \ ran, NEW q \in Requires(fp[2])
                   PROVE  <<fp[1], q>> \in ran
      OBVIOUS
    <3>2. RunPass
      BY <1>1, <3>1 DEF Next, Load, LoadFails, EndRead, NextFunction, EndOptimize, Emit,
         WriteSnapshot, WriteFails, EndWrite, passes
    <3>3. pc = "optimize" /\ pass \in 1..Len(Passes) /\ fp = <<list[at], Passes[pass]>>
      <4>1. pass \in 1..Len(Passes)
        BY <1>1, <3>2, PassesKnown DEF RunPass, IInv, Positions
      <4>2. ran' = ran \/ ran' = ran \cup {<<list[at], Passes[pass]>>}
        BY <3>2 DEF RunPass, passes
      <4>3. QED
        BY <3>1, <3>2, <4>1, <4>2 DEF RunPass
    <3>4. PICK l \in 1..(pass - 1) : q = Passes[l]
      BY <3>1, <3>3, RequiredBefore
    <3>5. QED
      BY <1>1, <3>3, <3>4 DEF IInv, Progress
  <2>2. ASSUME pc = "write", at' # at \/ pc' = "snapshot", NEW k \in 1..Len(Passes)
        PROVE  <<list[at], Passes[k]>> \in ran
    <3>1. at <= Len(list)
      BY <1>1, <2>2 DEF Next, Load, LoadFails, EndRead, RunPass, NextFunction, EndOptimize,
         Emit, WriteSnapshot, WriteFails, EndWrite
    <3>2. at \in 1..Len(list)
      BY <1>1, <3>1 DEF IInv, Positions
    <3>3. QED
      BY <1>1, <2>2, <3>2 DEF IInv, Progress, Through
  <2>3. QED
    BY <2>1, <2>2 DEF InTurn
<1>2. IInv /\ [Next]_vars => [InTurn]_vars
  BY <1>1
<1>3. QED
  BY <1>2, Inductive, PTL DEF Spec, PrerequisitesRan

(* The sum that Total takes, entry by entry. *)
LEMMA TotalGrows ==
    ASSUME NEW w \in Seq(Written)
    PROVE  /\ Total(w) \in Nat
           /\ w = <<>> => Total(w) = 0
           /\ \A e \in Written : Total(Append(w, e)) = Total(w) + e.bytes
<1> DEFINE Step(v, h, k) == IF k = 0 THEN 0 ELSE h[k - 1] + v[k].bytes
           Sum(v) == CHOOSE h : h = [k \in 0..Len(v) |-> Step(v, h, k)]
<1>1. \A v : Total(v) = Sum(v)[Len(v)]
  BY DEF Total
<1>2. ASSUME NEW v \in Seq(Written), NEW k \in 1..Len(v) PROVE v[k].bytes \in Nat
  <2>1. v[k] \in Written
    BY <1>2
  <2>2. QED
    BY <2>1 DEF Written
<1>3. ASSUME NEW v \in Seq(Written), NEW g, NEW h, NEW k \in 0..Len(v),
             k = 0 \/ (g[k - 1] \in Nat /\ g[k - 1] = h[k - 1])
      PROVE  Step(v, g, k) \in Nat /\ Step(v, g, k) = Step(v, h, k)
  <2>1. k = 0 \/ k \in 1..Len(v)
    BY <1>3
  <2>2. k = 0 \/ v[k].bytes \in Nat
    BY <1>2, <2>1
  <2>3. QED
    BY <1>3, <2>2
<1> HIDE DEF Step
<1>4. ASSUME NEW v \in Seq(Written)
      PROVE  \A k \in 0..Len(v) : Sum(v)[k] \in Nat /\ Sum(v)[k] = Step(v, Sum(v), k)
  <2> DEFINE n == Len(v)
             Fits(h, m) == \A k \in 0..m : h[k] = Step(v, h, k)
             G == { m \in 0..n : \E h \in [0..n -> Nat] : Fits(h, m) }
  <2>0. n \in Nat
    OBVIOUS
  <2>1. 0 \in G
    <3> DEFINE h == [k \in 0..n |-> Step(v, <<>>, 0)]
    <3>1. 0 \in 0..n
      BY <2>0
    <3>2. h \in [0..n -> Nat] /\ h[0] = Step(v, <<>>, 0)
      BY <1>3, <3>1
    <3>3. Fits(h, 0)
      BY <1>3, <3>1, <3>2
    <3> HIDE DEF h, Fits
    <3>4. QED
      BY <3>1, <3>2, <3>3
  <2>2. ASSUME NEW m \in 1..n, m - 1 \in G PROVE m \in G
    <3>1. PICK h \in [0..n -> Nat] : Fits(h, m - 1)
      BY <2>2
    <3> DEFINE e == [h EXCEPT ![m] = Step(v, h, m)]
    <3>2. m \in 0..n /\ m - 1 \in 0..n
      BY <2>0
    <3>3. Step(v, h, m) \in Nat
      BY <1>3, <3>2
    <3>4. e \in [0..n -> Nat]
      BY <3>2, <3>3
    <3>5. ASSUME NEW k \in 0..m PROVE e[k] = Step(v, e, k)
      <4>1. k \in 0..n /\ (k = 0 \/ (k - 1 \in 0..n /\ k - 1 # m))
        BY <2>0
      <4>2. k = 0 \/ (h[k - 1] \in Nat /\ h[k - 1] = e[k - 1])
        BY <4>1
      <4>3. Step(v, e, k) = Step(v, h, k)
        BY <1>3, <4>1, <4>2
      <4>4. k = m \/ k \in 0..(m - 1)
        OBVIOUS
      <4>5. e[k] = Step(v, h, k)
        BY <3>1, <4>1, <4>4
      <4>6. QED
        BY <4>3, <4>5
    <3> HIDE DEF e
    <3>6. Fits(e, m)
      BY <3>5
    <3> HIDE DEF Fits
    <3>7. QED
      BY <3>2, <3>4, <3>6
  <2> HIDE DEF G
  <2>3. \A m \in 0..n : m \in G
    BY <2>0, <2>1, <2>2, UpTo
  <2>4. n \in G
    BY <2>0, <2>3
  <2>5. PICK h \in [0..n -> Nat] : Fits(h, n)
    BY <2>4 DEF G
  <2>6. h = [k \in 0..n |-> Step(v, h, k)]
    BY <2>5
  <2> HIDE DEF Fits
  <2>7. Sum(v) = [k \in 0..n |-> Step(v, Sum(v), k)]
    BY <2>6
  <2> DEFINE S == Sum(v)
             F == { k \in 0..n : S[k] \in Nat }
  <2> HIDE DEF Sum
  <2>8. \A k \in 0..n : S[k] = Step(v, S, k)
    BY <2>7
  <2> HIDE DEF S
  <2>9. 0 \in F
    BY <1>3, <2>0, <2>8
  <2>10. ASSUME NEW m \in 1..n, m - 1 \in F PROVE m \in F
    BY <1>3, <2>0, <2>8, <2>10
  <2> HIDE DEF F
  <2>11. \A k \in 0..n : k \in F
    BY <2>0, <2>9, <2>10, UpTo
  <2>12. QED
    BY <2>8, <2>11 DEF F, S
<1> HIDE DEF Sum
<1>5. Len(w) \in Nat /\ Len(w) \in 0..Len(w)
  OBVIOUS
<1>6. Total(w) \in Nat
  BY <1>1, <1>4, <1>5
<1>7. ASSUME w = <<>> PROVE Total(w) = 0
  <2>1. Len(w) = 0
    BY <1>7
  <2>2. Total(w) = Step(w, Sum(w), 0)
    BY <1>1, <1>4, <1>5, <2>1
  <2>3. QED
    BY <2>2 DEF Step
<1>8. ASSUME NEW e \in Written PROVE Total(Append(w, e)) = Total(w) + e.bytes
  <2> DEFINE v == Append(w, e)
             n == Len(w)
             A == Sum(w)
             B == Sum(v)
             G == { k \in 0..n : A[k] = B[k] }
  <2>1. /\ v \in Seq(Written) /\ Len(v) = n + 1 /\ v[n + 1] = e /\ n \in Nat
        /\ \A k \in 1..n : v[k] = w[k]
    OBVIOUS
  <2>2. \A k \in 0..n : A[k] \in Nat /\ A[k] = Step(w, A, k)
    BY <1>4
  <2> HIDE DEF v
  <2>3. \A k \in 0..(n + 1) : B[k] \in Nat /\ B[k] = Step(v, B, k)
    BY <1>4, <2>1
  <2> HIDE DEF A, B
  <2>4. 0 \in G
    BY <2>1, <2>2, <2>3 DEF Step
  <2>5. ASSUME NEW m \in 1..n, m - 1 \in G PROVE m \in G
    <3>1. m \in 0..n /\ m \in 0..(n + 1) /\ m # 0 /\ A[m - 1] = B[m - 1]
      BY <2>1, <2>5
    <3>2. Step(w, A, m) = Step(v, B, m)
      BY <2>1, <3>1 DEF Step
    <3>3. QED
      BY <2>2, <2>3, <3>1, <3>2
  <2> HIDE DEF G
  <2>6. \A k \in 0..n : k \in G
    BY <2>1, <2>4, <2>5, UpTo
  <2>7. A[n] = B[n]
    BY <1>5, <2>6 DEF G
  <2>8. n + 1 \in 0..(n + 1) /\ n + 1 # 0 /\ (n + 1) - 1 = n
    BY <2>1
  <2>9. B[n + 1] = B[n] + e.bytes
    BY <2>1, <2>3, <2>8 DEF Step
  <2>10. Total(w) = A[n] /\ Total(v) = B[n + 1]
    BY <1>1, <2>1 DEF A, B
  <2>11. QED
    BY <2>7, <2>9, <2>10 DEF v
<1>9. QED
  BY <1>6, <1>7, <1>8

-----------------------------------------------------------------------------
(* The invariant behind the writing of functions. *)
Roots(n) == { file.roots[i] : i \in 1..n }

(* The functions read are listed as write() needs them. *)
Listing ==
    /\ loaded \in 0..Len(file.roots)
    /\ Listed(file, list, Roots(loaded))
    /\ pc \in {"optimize", "write", "snapshot", "done"} => loaded = Len(file.roots)
    /\ at <= Len(list) + 1

(* The pool of f when every function in it is found where it is now, and f *)
(* itself where it was read from. *)
PoolOf(f) ==
    [k \in 1..Len(file.subs[f]) |->
        IF file.subs[f][k] = f THEN poolAt[f] ELSE code[file.subs[f][k]]]

Block(f) == [fn |-> f, pool |-> PoolOf(f)]

BlockSet == [fn : Functions, pool : Seq(Addresses)]

(* Each function read has its block, with its pool. *)
Placed ==
    \A f \in Functions : In(list, f) =>
        /\ code[f] \in Addresses /\ poolAt[f] \in Addresses
        /\ heap[code[f]] = Block(f)

(* The i-th function of the list has not been emitted. *)
Waiting(i) ==
    \/ pc \in {"read", "optimize"}
    \/ pc = "write" /\ at <= i
    \/ pc = "snapshot" /\ at < i

(* Such a function is where it was read from; while functions are read,    *)
(* they fill the heap from its beginning. *)
AtHome ==
    /\ \A i \in 1..Len(list) : Waiting(i) => code[list[i]] = poolAt[list[i]]
    /\ pc = "read" => \A i \in 1..Len(list) : code[list[i]] = i

Heaped ==
    /\ heap \in [Addresses -> BlockSet \cup {Free}]
    /\ code \in [Functions -> Addresses \cup {None}]
    /\ poolAt \in [Functions -> Addresses \cup {None}]
    /\ stray = FALSE
    /\ Placed /\ AtHome

(* The outermost functions before the one at hand. *)
RootsPassed == { list[i] : i \in { j \in 1..Len(list) : j < at /\ IsRoot(list[j]) } }

(* They are what has been written. *)
RootsWritten ==
    /\ pc \in {"read", "optimize"} => written = <<>>
    /\ pc = "snapshot" => IsRoot(list[at])
    /\ pc \in {"write", "snapshot", "done"} =>
          { written[i].fn : i \in 1..Len(written) } = RootsPassed
    /\ pc = "done" => at = Len(list) + 1 /\ output = Final
    /\ output \subseteq Functions
    /\ Total(written) + bufferSize = Units

Emitting == Listing /\ Heaped /\ RootsWritten

-----------------------------------------------------------------------------
(* The heap has room for what is listed. *)
LEMMA RoomForList ==
    ASSUME NEW q \in Seq(Functions), Unique(q)
    PROVE  Len(q) \in Nat /\ Len(q) <= Heap
<1>1. Len(q) \in Nat /\ \A i \in 1..Len(q) : q[i] \in Functions
  OBVIOUS
<1>2. q \in [1..Len(q) -> Functions]
  BY LenProperties
<1>3. q \in Injection(1..Len(q), Functions)
  BY <1>2 DEF Injection, IsInjective, Unique
<1>4. /\ IsFiniteSet(1..Len(q))
      /\ Cardinality(1..Len(q)) <= Cardinality(Functions)
  BY <1>3, FS_Injection, SizesAssumption
<1>5. Cardinality(1..Len(q)) = Len(q)
  <2>1. Cardinality(1..Len(q)) = IF 1 > Len(q) THEN 0 ELSE Len(q) - 1 + 1
    BY <1>1, FS_Interval
  <2>2. QED
    BY <1>1, <2>1
<1>6. Cardinality(Functions) \in Nat
  BY FS_CardinalityType, SizesAssumption
<1>7. QED
  BY <1>1, <1>4, <1>5, <1>6, SizesAssumption

(* A snapshot has functions in its pools, and a function in the pool of a  *)
(* listed one is listed. *)
LEMMA SnapshotTypes ==
    ASSUME NEW s \in Snapshots
    PROVE  /\ s.roots \in Seq(Functions) /\ Len(s.roots) \in Nat
           /\ \A m \in 1..Len(s.roots) : s.roots[m] \in Functions
           /\ \A f \in Functions : /\ s.subs[f] \in Seq(Functions)
                                   /\ Len(s.subs[f]) \in Nat
                                   /\ \A k \in 1..Len(s.subs[f]) : s.subs[f][k] \in Functions
<1>1. s.roots \in Seq(Functions) /\ s.subs \in [Functions -> Seq(Functions)]
  BY SnapshotsAssumption DEF IsSnapshot
<1>2. \A f \in Functions : s.subs[f] \in Seq(Functions)
  BY <1>1
<1>3. QED
  BY <1>1, <1>2

LEMMA InnerIn ==
    ASSUME NEW s \in Snapshots, NEW q, NEW tops, Listed(s, q, tops),
           NEW f \in Functions, In(q, f), NEW k \in 1..Len(s.subs[f])
    PROVE  In(q, s.subs[f][k])
<1>1. CASE s.subs[f][k] = f
  BY <1>1
<1>2. CASE s.subs[f][k] # f
  <2>1. s.subs[f][k] \in Functions
    BY SnapshotTypes
  <2>2. PoolHas(s, f, s.subs[f][k])
    BY <1>2 DEF PoolHas
  <2>3. PICK j \in 1..Len(q) : q[j] = f
    BY DEF In
  <2>4. PICK i \in 1..(j - 1) : q[i] = s.subs[f][k]
    BY <2>1, <2>2, <2>3 DEF Listed, InnerFirst
  <2>5. Len(q) \in Nat
    BY DEF Listed
  <2>6. i \in 1..Len(q)
    BY <2>3, <2>5
  <2>7. QED
    BY <2>4, <2>6 DEF In
<1>3. QED
  BY <1>1, <1>2

(* A pool of functions that have blocks is a sequence of addresses. *)
LEMMA PoolType ==
    ASSUME file \in Snapshots, NEW f \in Functions, NEW q, NEW tops, Listed(file, q, tops),
           In(q, f), \A g \in Functions : In(q, g) => code[g] \in Addresses,
           poolAt[f] \in Addresses
    PROVE  PoolOf(f) \in Seq(Addresses) /\ Block(f) \in BlockSet
<1> DEFINE n == Len(file.subs[f])
           E(k) == IF file.subs[f][k] = f THEN poolAt[f] ELSE code[file.subs[f][k]]
<1>1. n \in Nat
  BY SnapshotTypes
<1>2. \A k \in 1..n : E(k) \in Addresses
  <2>1. \A k \in 1..n : file.subs[f][k] \in Functions
    BY SnapshotTypes
  <2>2. \A k \in 1..n : In(q, file.subs[f][k])
    BY InnerIn
  <2>3. QED
    BY <2>1, <2>2
<1>3. PoolOf(f) = [k \in 1..n |-> E(k)]
  BY DEF PoolOf
<1> HIDE DEF E
<1>4. [k \in 1..n |-> E(k)] \in [1..n -> Addresses]
  BY <1>2
<1>5. PoolOf(f) \in Seq(Addresses)
  BY <1>1, <1>3, <1>4, SeqDef
<1>6. QED
  BY <1>5 DEF Block, BlockSet

LEMMA InitEmitting == Init => Emitting
<1> SUFFICES ASSUME Init PROVE Emitting
  OBVIOUS
<1>1. file \in Snapshots /\ pc = "read" /\ loaded = 0 /\ list = <<>> /\ at = 1
  BY DEF Init
<1>2. Len(file.roots) \in Nat
  BY <1>1, SnapshotTypes
<1>3. \A i : i \notin 1..Len(list)
  BY <1>1
<1>4. Roots(loaded) = {}
  BY <1>1 DEF Roots
<1>5. Listed(file, list, Roots(loaded))
  BY <1>1, <1>3, <1>4 DEF Listed, Unique, InnerFirst, OuterLater
<1>6. Listing
  BY <1>1, <1>2, <1>5 DEF Listing
<1>7. Heaped
  <2>1. Placed
    BY <1>3 DEF Placed, In
  <2>2. AtHome
    BY <1>3 DEF AtHome
  <2>3. QED
    BY <2>1, <2>2 DEF Init, Heaped
<1>8. RootsWritten
  <2>1. written = <<>> /\ bufferSize = Units /\ output = {}
    BY DEF Init
  <2>2. written \in Seq(Written)
    BY <2>1
  <2>3. Total(written) = 0
    BY <2>1, <2>2, TotalGrows
  <2>4. Total(written) + bufferSize = Units
    BY <2>1, <2>3, SizesAssumption
  <2>5. QED
    BY <1>1, <2>1, <2>4 DEF RootsWritten
<1>9. QED
  BY <1>6, <1>7, <1>8 DEF Emitting

(* The outermost functions are not below others, nor twice in the list:    *)
(* what Load appends has nothing in common with what is there. *)
LEMMA LoadListed ==
    ASSUME IInv, Emitting, Load
    PROVE  LET new == FunctionsOf(file)[file.roots[loaded + 1]]
           IN  /\ Listed(file, new, {file.roots[loaded + 1]})
               /\ \A f \in Functions : ~ (In(list, f) /\ In(new, f))
               /\ Joined(file, list, new, Roots(loaded + 1))
<1> DEFINE r == file.roots[loaded + 1]
           new == FunctionsOf(file)[r]
<1>1. file \in Snapshots /\ loaded \in Nat
  BY DEF IInv, Positions
<1>2. loaded + 1 \in 1..Len(file.roots) /\ r \in Functions
  <2>1. Len(file.roots) \in Nat /\ \A m \in 1..Len(file.roots) : file.roots[m] \in Functions
    BY <1>1, SnapshotTypes
  <2>2. loaded + 1 \in 1..Len(file.roots)
    <3>1. loaded < Len(file.roots)
      BY DEF Load
    <3> HIDE DEF r, new
    <3>2. QED
      BY <1>1, <2>1, <3>1
  <2>3. QED
    BY <2>1, <2>2
<1>3. IsForest(file)
  BY <1>1, SnapshotsAssumption
<1>4. Listed(file, new, {r})
  BY <1>1, <1>2, FunctionsListed
<1>5. Listed(file, list, Roots(loaded))
  BY DEF Emitting, Listing
<1>6. \A m \in 1..loaded : m \in 1..Len(file.roots) /\ m # loaded + 1
  BY <1>1, <1>2
<1>7. r \notin Roots(loaded)
  BY <1>2, <1>3, <1>6 DEF IsForest, Unique, Roots
<1> HIDE DEF new
<1>8. \A t \in Roots(loaded) \cup {r} : \A g \in Functions : ~ PoolHas(file, g, t)
  <2>1. ASSUME NEW m \in 1..Len(file.roots), NEW g \in Functions
        PROVE  ~ PoolHas(file, g, file.roots[m])
    BY <1>3 DEF IsForest, PoolHas
  <2>2. \A t \in Roots(loaded) \cup {r} : \E m \in 1..Len(file.roots) : t = file.roots[m]
    BY <1>2, <1>6 DEF Roots
  <2>3. QED
    BY <2>1, <2>2
<1> HIDE DEF r
<1>9. \A t \in Roots(loaded) : ~ In(new, t)
  <2> SUFFICES ASSUME NEW t \in Roots(loaded), In(new, t) PROVE FALSE
    OBVIOUS
  <2>1. t \notin {r}
    BY <1>7
  <2>2. \E g \in Functions : In(new, g) /\ PoolHas(file, g, t)
    BY <1>4, <2>1, OuterIn
  <2>3. QED
    BY <1>8, <2>2
<1>10. \A t \in {r} : ~ In(list, t)
  <2> SUFFICES ASSUME In(list, r) PROVE FALSE
    OBVIOUS
  <2>1. \E g \in Functions : In(list, g) /\ PoolHas(file, g, r)
    BY <1>5, <1>7, OuterIn
  <2>2. QED
    BY <1>8, <2>1
<1>11. \A f \in Functions : ~ (In(list, f) /\ In(new, f))
  BY <1>1, <1>4, <1>5, <1>9, <1>10, ListsApart
<1>12. Joined(file, list, new, Roots(loaded) \cup {r})
  BY <1>1, <1>4, <1>5, <1>11, ListsJoin
<1>13. Roots(loaded + 1) = Roots(loaded) \cup {r}
  <2>1. \A m \in 1..(loaded + 1) : m \in 1..loaded \/ m = loaded + 1
    BY <1>1
  <2>2. \A m \in 1..loaded : m \in 1..(loaded + 1)
    BY <1>1
  <2>3. loaded + 1 \in 1..(loaded + 1)
    BY <1>1
  <2>4. QED
    BY <2>1, <2>2, <2>3 DEF Roots, r
<1>14. QED
  BY <1>4, <1>11, <1>12, <1>13 DEF new, r

LEMMA LoadEmitting == IInv /\ Emitting /\ Load => Emitting'
<1> SUFFICES ASSUME IInv, Emitting, Load PROVE Emitting'
  OBVIOUS
<1> DEFINE r == file.roots[loaded + 1]
           new == FunctionsOf(file)[r]
           n == Len(list)
           block == [i \in 1..Len(new) |-> n + i]
           to == [f \in Functions |->
                     IF \E i \in 1..Len(new) : new[i] = f
                     THEN block[CHOOSE i \in 1..Len(new) : new[i] = f] ELSE code[f]]
<1>1. /\ pc = "read" /\ pc' = pc /\ loaded < Len(file.roots) /\ loaded' = loaded + 1
      /\ file' = file /\ at' = at /\ stray' = stray /\ written' = written
      /\ output' = output /\ bufferSize' = bufferSize
      /\ code' = to /\ poolAt' = to /\ list' = list \o new
      /\ heap' = [a \in Addresses |->
                     IF \E i \in 1..Len(new) : block[i] = a
                     THEN LET f == new[CHOOSE i \in 1..Len(new) : block[i] = a]
                          IN  [fn |-> f, pool |-> [k \in 1..Len(file.subs[f]) |->
                                                      to[file.subs[f][k]]]]
                     ELSE heap[a]]
  BY DEF Load, passes, buffers
<1>2. /\ Listed(file, new, {r})
      /\ \A f \in Functions : ~ (In(list, f) /\ In(new, f))
      /\ Joined(file, list, new, Roots(loaded + 1))
  BY LoadListed
<1>3. file \in Snapshots /\ loaded \in Nat /\ at = 1
  BY <1>1 DEF IInv, Positions
<1>4. new \in Seq(Functions) /\ Unique(new)
      /\ list \in Seq(Functions) /\ Unique(list)
  BY <1>2 DEF Listed, Emitting, Listing
<1> HIDE DEF new, r
<1>5. /\ n \in Nat /\ Len(new) \in Nat /\ n + Len(new) <= Heap
      /\ \A i \in 1..Len(new) : new[i] \in Functions
      /\ \A i \in 1..n : list[i] \in Functions
  <2>1. list \o new \in Seq(Functions) /\ Unique(list \o new)
    BY <1>2 DEF Joined, Listed
  <2>2. Len(list \o new) <= Heap
    BY <2>1, RoomForList
  <2>3. Len(list \o new) = n + Len(new)
    BY <1>4
  <2>4. QED
    BY <1>4, <2>2, <2>3
<1>6. Heap \in Nat
  BY SizesAssumption
<1>7. ASSUME NEW i \in 1..Len(new)
      PROVE  /\ to[new[i]] = n + i /\ n + i \in Addresses
  <2>1. (CHOOSE j \in 1..Len(new) : new[j] = new[i]) = i
    BY <1>4 DEF Unique
  <2>2. n + i \in Addresses
    BY <1>5, <1>6 DEF Addresses
  <2>3. QED
    BY <1>5, <2>1, <2>2
<1>8. \A f \in Functions : ~ In(new, f) => to[f] = code[f]
  BY DEF In
<1>9. \A f \in Functions : In(new, f) => to[f] \in Addresses
  BY <1>7 DEF In
<1>10. ASSUME NEW i \in 1..Len(new)
       PROVE  heap'[n + i] = [fn |-> new[i], pool |-> [k \in 1..Len(file.subs[new[i]]) |->
                                                         to[file.subs[new[i]][k]]]]
  <2>1. block[i] = n + i
    OBVIOUS
  <2>2. (CHOOSE j \in 1..Len(new) : block[j] = n + i) = i
    <3>1. \A j \in 1..Len(new) : block[j] = n + i <=> j = i
      BY <1>5
    <3>2. QED
      BY <3>1
  <2> HIDE DEF to, block
  <2>3. QED
    BY <1>1, <1>7, <2>1, <2>2
<1>11. \A i \in 1..n : i \in Addresses /\ heap'[i] = heap[i]
  <2>1. \A i \in 1..n : i \in Addresses
    BY <1>5, <1>6 DEF Addresses
  <2>2. \A i \in 1..n : \A j \in 1..Len(new) : block[j] # i
    BY <1>5
  <2> HIDE DEF to, block
  <2>3. QED
    BY <1>1, <2>1, <2>2
<1> HIDE DEF to, block
<1>13. /\ heap \in [Addresses -> BlockSet \cup {Free}]
       /\ code \in [Functions -> Addresses \cup {None}]
       /\ poolAt \in [Functions -> Addresses \cup {None}]
       /\ stray = FALSE /\ Placed
       /\ \A i \in 1..n : code[list[i]] = i /\ poolAt[list[i]] = i
  BY <1>1 DEF Emitting, Heaped, AtHome, Waiting
<1>14. /\ list' \in Seq(Functions) /\ Len(list') = n + Len(new)
       /\ \A i \in 1..n : list'[i] = list[i]
       /\ \A i \in 1..Len(new) : list'[n + i] = new[i]
       /\ \A f \in Functions : In(list', f) <=> In(list, f) \/ In(new, f)
  <2>1. \A f \in Functions : In(list', f) <=> In(list, f) \/ In(new, f)
    BY <1>1, <1>2 DEF Joined
  <2>2. QED
    BY <1>1, <1>4, <2>1
<1>15. Listing'
  <2>1. loaded' \in 0..Len(file.roots)
    <3>1. Len(file.roots) \in Nat
      BY <1>3, SnapshotTypes
    <3>2. QED
      BY <1>1, <1>3, <3>1
  <2>2. Listed(file, list', Roots(loaded + 1))
    BY <1>1, <1>2 DEF Joined
  <2>3. Roots(loaded)' = Roots(loaded + 1)
    BY <1>1 DEF Roots
  <2>4. Listed(file, list, Roots(loaded))'
    BY <1>1, <2>2, <2>3
  <2>5. at' <= Len(list') + 1
    BY <1>1, <1>3, <1>5, <1>14
  <2>6. QED
    BY <1>1, <2>1, <2>2, <2>4, <2>5 DEF Listing
<1>16. code' \in [Functions -> Addresses \cup {None}] /\ poolAt' = code'
  <2>1. to \in [Functions -> Addresses \cup {None}]
    <3>1. \A f \in Functions : to[f] \in Addresses \cup {None}
      BY <1>8, <1>9, <1>13
    <3>2. to = [f \in Functions |-> to[f]]
      BY DEF to
    <3>3. QED
      BY <3>1, <3>2
  <2>2. QED
    BY <1>1, <2>1
<1>17. \A i \in 1..Len(list') : code'[list'[i]] = i
  <2>1. \A i \in 1..n : code'[list'[i]] = i
    <3> SUFFICES ASSUME NEW i \in 1..n PROVE code'[list'[i]] = i
      OBVIOUS
    <3>0. list[i] \in Functions
      BY <1>5
    <3>1. In(list, list[i])
      BY DEF In
    <3>2. ~ In(new, list[i])
      BY <1>2, <3>0, <3>1
    <3>3. QED
      BY <1>1, <1>8, <1>13, <1>14, <3>0, <3>2
  <2>2. \A i \in 1..Len(new) : code'[list'[n + i]] = n + i
    BY <1>1, <1>7, <1>14
  <2>3. \A i \in 1..Len(list') : i \in 1..n \/ (i - n \in 1..Len(new) /\ n + (i - n) = i)
    BY <1>5, <1>14
  <2>4. QED
    BY <2>1, <2>2, <2>3
<1>18. \A f \in Functions : In(list', f) => code'[f] \in Addresses
  <2>1. \A i \in 1..Len(list') : i \in Addresses
    BY <1>5, <1>6, <1>14 DEF Addresses
  <2>2. QED
    BY <1>17, <2>1 DEF In
<1>19. \A f \in Functions : In(list', f) => (Block(f))' \in BlockSet
  <2> SUFFICES ASSUME NEW f \in Functions, In(list', f) PROVE (Block(f))' \in BlockSet
    OBVIOUS
  <2>1. Listed(file', list', Roots(loaded + 1))
    BY <1>1, <1>2 DEF Joined
  <2>2. poolAt'[f] \in Addresses
    BY <1>16, <1>18
  <2> DEFINE m == Len(file.subs[f])
             E(k) == IF file.subs[f][k] = f THEN poolAt'[f] ELSE code'[file.subs[f][k]]
  <2>3. m \in Nat
    BY <1>3, SnapshotTypes
  <2>4. \A k \in 1..m : E(k) \in Addresses
    <3>1. \A k \in 1..m : file.subs[f][k] \in Functions
      BY <1>3, SnapshotTypes
    <3>2. \A k \in 1..m : In(list', file.subs[f][k])
      BY <1>1, <1>3, <2>1, InnerIn
    <3>3. QED
      BY <1>18, <2>2, <3>1, <3>2
  <2>5. (PoolOf(f))' = [k \in 1..m |-> E(k)]
    BY <1>1 DEF PoolOf
  <2> HIDE DEF E
  <2>6. [k \in 1..m |-> E(k)] \in [1..m -> Addresses]
    BY <2>4
  <2>7. (PoolOf(f))' \in Seq(Addresses)
    BY <2>3, <2>5, <2>6, SeqDef
  <2>8. QED
    BY <2>7 DEF Block, BlockSet
<1>20. \A f \in Functions : In(list', f) => heap'[code'[f]] = (Block(f))'
  <2> SUFFICES ASSUME NEW f \in Functions, In(list', f)
               PROVE  heap'[code'[f]] = (Block(f))'
    OBVIOUS
  <2>1. CASE In(new, f)
    <3>1. PICK i \in 1..Len(new) : new[i] = f
      BY <2>1 DEF In
    <3>2. code'[f] = n + i
      BY <1>1, <1>7, <3>1
    <3>3. heap'[n + i] = [fn |-> f, pool |-> [k \in 1..Len(file.subs[f]) |-> to[file.subs[f][k]]]]
      BY <1>10, <3>1
    <3>4. (PoolOf(f))' = [k \in 1..Len(file.subs[f]) |-> to[file.subs[f][k]]]
      BY <1>1, <1>16 DEF PoolOf
    <3>5. QED
      BY <3>2, <3>3, <3>4 DEF Block
  <2>2. CASE In(list, f)
    <3>1. PICK i \in 1..n : list[i] = f
      BY <2>2 DEF In
    <3>2. ~ In(new, f)
      BY <1>2, <2>2
    <3>3. code'[f] = code[f] /\ code[f] = i /\ poolAt[f] = i /\ poolAt'[f] = code'[f]
      BY <1>1, <1>8, <1>13, <1>16, <3>1, <3>2
    <3>4. heap'[code'[f]] = Block(f)
      BY <1>11, <1>13, <2>2, <3>1, <3>3 DEF Placed
    <3>5. \A k \in 1..Len(file.subs[f]) : code'[file.subs[f][k]] = code[file.subs[f][k]]
      <4>1. \A k \in 1..Len(file.subs[f]) : In(list, file.subs[f][k])
        BY <1>3, <2>2, InnerIn DEF Emitting, Listing
      <4>2. \A k \in 1..Len(file.subs[f]) : file.subs[f][k] \in Functions
        BY <1>3, SnapshotTypes
      <4>3. QED
        BY <1>1, <1>2, <1>8, <4>1, <4>2
    <3>6. (PoolOf(f))' = PoolOf(f)
      BY <1>1, <3>3, <3>5 DEF PoolOf
    <3>7. QED
      BY <3>4, <3>6 DEF Block
  <2>3. In(list, f) \/ In(new, f)
    BY <1>14
  <2>4. QED
    BY <2>1, <2>2, <2>3
<1>21. heap' \in [Addresses -> BlockSet \cup {Free}]
  <2>1. ASSUME NEW a \in Addresses PROVE heap'[a] \in BlockSet \cup {Free}
    <3>1. CASE \E i \in 1..Len(new) : a = n + i
      <4>1. PICK i \in 1..Len(new) : a = n + i
        BY <3>1
      <4>2. new[i] \in Functions
        BY <1>5
      <4>3. In(new, new[i])
        BY DEF In
      <4>4. In(list', new[i])
        BY <1>14, <4>2, <4>3
      <4>5. code'[new[i]] = a
        BY <1>1, <1>7, <4>1
      <4>6. heap'[a] \in BlockSet
        BY <1>19, <1>20, <4>2, <4>4, <4>5
      <4>7. QED
        BY <4>6
    <3>2. CASE ~ \E i \in 1..Len(new) : a = n + i
      <4>1. ~ \E i \in 1..Len(new) : block[i] = a
        BY <3>2 DEF block
      <4>2. heap'[a] = heap[a]
        BY <1>1, <4>1
      <4>3. QED
        BY <1>13, <4>2
    <3>3. QED
      BY <3>1, <3>2
  <2>2. DOMAIN heap' = Addresses /\ heap' = [a \in Addresses |-> heap'[a]]
    BY <1>1
  <2>3. QED
    BY <2>1, <2>2
<1>22. Heaped'
  <2>1. Placed'
    BY <1>16, <1>18, <1>20 DEF Placed, In
  <2>2. AtHome'
    BY <1>16, <1>17 DEF AtHome
  <2>3. QED
    BY <1>1, <1>13, <1>16, <1>21, <2>1, <2>2 DEF Heaped, BlockSet, Addresses
<1>23. RootsWritten'
  BY <1>1 DEF Emitting, RootsWritten
<1>24. QED
  BY <1>15, <1>22, <1>23 DEF Emitting

(* What Emit finds: the function at hand is in its block, and its parent,  *)
(* if it is not an outermost one, is waiting behind it. *)
LEMMA EmitFinds ==
    ASSUME IInv, Emitting, pc = "write", at <= Len(list)
    PROVE  /\ at \in 1..Len(list) /\ list[at] \in Functions /\ In(list, list[at])
           /\ poolAt[list[at]] = code[list[at]]
           /\ heap[code[list[at]]] = Block(list[at])
           /\ ~ IsRoot(list[at]) =>
                 \E g \in Functions : \E k \in 1..Len(file.subs[g]) :
                    /\ g # list[at] /\ file.subs[g][k] = list[at]
                    /\ In(list, g) /\ poolAt[g] = code[g]
                    /\ ParentOf(list[at]) = <<g, k>>
<1> DEFINE f == list[at]
<1>1. /\ file \in Snapshots /\ list \in Seq(Functions)
      /\ at \in 1..Len(list) /\ Len(list) \in Nat
  BY DEF IInv, Positions
<1>2. f \in Functions
  BY <1>1
<1>3. In(list, f)
  BY <1>1 DEF In
<1>4. \A i \in 1..Len(list) : at <= i => code[list[i]] = poolAt[list[i]]
  BY DEF Emitting, Heaped, AtHome, Waiting
<1>5. poolAt[f] = code[f]
  BY <1>1, <1>4
<1>6. heap[code[f]] = Block(f)
  BY <1>2, <1>3 DEF Emitting, Heaped, Placed
<1>7. ASSUME ~ IsRoot(f)
      PROVE  \E g \in Functions : \E k \in 1..Len(file.subs[g]) :
                /\ g # f /\ file.subs[g][k] = f
                /\ In(list, g) /\ poolAt[g] = code[g]
                /\ ParentOf(f) = <<g, k>>
  <2>1. f \notin Roots(loaded)
    <3>1. loaded = Len(file.roots)
      BY DEF Emitting, Listing
    <3>2. QED
      BY <1>7, <3>1 DEF IsRoot, Roots
  <2>2. PICK j \in (at + 1)..Len(list) : PoolHas(file, list[j], f)
    BY <1>1, <2>1 DEF Emitting, Listing, Listed, OuterLater
  <2>3. j \in 1..Len(list) /\ at <= j
    BY <1>1
  <2> DEFINE g == list[j]
  <2>4. g \in Functions
    BY <1>1, <2>3
  <2>5. In(list, g)
    BY <2>3 DEF In
  <2>6. poolAt[g] = code[g]
    BY <1>4, <2>3
  <2>7. PICK k \in 1..Len(file.subs[g]) : file.subs[g][k] = f
    BY <2>2 DEF PoolHas
  <2>8. g # f
    BY <2>2 DEF PoolHas
  <2> HIDE DEF g, f
  <2> DEFINE Entries == UNION { {<<h, l>> : l \in 1..Len(file.subs[h])} : h \in Functions \ {f} }
  <2>9. <<g, k>> \in Entries
    BY <2>4, <2>7, <2>8
  <2>10. ASSUME NEW p \in Entries, file.subs[p[1]][p[2]] = f
         PROVE  p = <<g, k>>
    <3>1. PICK h \in Functions \ {f} : \E l \in 1..Len(file.subs[h]) : p = <<h, l>>
      BY <2>10
    <3>2. PICK l \in 1..Len(file.subs[h]) : p = <<h, l>>
      BY <3>1
    <3>3. file.subs[h][l] = f
      BY <2>10, <3>2
    <3>4. h = g /\ l = k
      <4>1. IsForest(file)
        BY <1>1, SnapshotsAssumption
      <4>2. h \in Functions /\ h # f /\ file.subs[h][l] = file.subs[g][k]
        BY <2>7, <3>1, <3>3
      <4>3. file.subs[h][l] \notin {h, g}
        BY <2>8, <3>3, <4>2
      <4>4. QED
        BY <2>4, <4>1, <4>2, <4>3 DEF IsForest
    <3>5. QED
      BY <3>2, <3>4
  <2>11. ParentOf(f) = CHOOSE p \in Entries : file.subs[p[1]][p[2]] = f
    BY DEF ParentOf
  <2>12. file.subs[<<g, k>>[1]][<<g, k>>[2]] = f
    BY <2>7
  <2> HIDE DEF Entries
  <2>13. ParentOf(f) = <<g, k>>
    BY <2>9, <2>10, <2>11, <2>12
  <2>14. QED
    BY <2>4, <2>5, <2>6, <2>7, <2>8, <2>13
<1>8. QED
  BY <1>1, <1>2, <1>3, <1>5, <1>6, <1>7

(* What stays, and what follows, when a function's block is somewhere else *)
(* and the pools that have it point there. *)
LEMMA EmitPlaced ==
    ASSUME IInv, Emitting, Emit,
           NEW a \in Addresses,
           code' = [code EXCEPT ![list[at]] = a],
           heap' \in [Addresses -> BlockSet \cup {Free}],
           stray' = FALSE,
           \A g \in Functions : In(list, g) => heap'[code'[g]] = (Block(g))'
    PROVE  Heaped'
<1> DEFINE f == list[at]
<1>1. /\ pc = "write" /\ at \in 1..Len(list) /\ f \in Functions
      /\ (pc' = "snapshot" /\ at' = at) \/ (pc' = "write" /\ at' = at + 1)
      /\ list' = list /\ poolAt' = poolAt
  <2>1. pc = "write" /\ at <= Len(list)
    BY DEF Emit
  <2>2. (pc' = "snapshot" /\ at' = at) \/ (pc' = "write" /\ at' = at + 1)
    BY <2>1 DEF Emit
  <2>3. QED
    BY <2>1, <2>2, EmitFinds DEF Emit
<1>2. /\ list \in Seq(Functions) /\ Len(list) \in Nat /\ at \in Nat
      /\ Unique(list)
  BY <1>1 DEF Emitting, Listing, Listed
<1>3. code' \in [Functions -> Addresses \cup {None}]
  BY <1>1 DEF Emitting, Heaped
<1>4. poolAt' \in [Functions -> Addresses \cup {None}]
  BY <1>1 DEF Emitting, Heaped
<1>5. Placed'
  <2>1. ASSUME NEW g \in Functions, In(list, g)
        PROVE  code'[g] \in Addresses /\ poolAt'[g] \in Addresses
    BY <1>1, <2>1 DEF Emitting, Heaped, Placed
  <2>2. QED
    BY <1>1, <2>1 DEF Placed
<1>6. AtHome'
  <2>1. \A i \in 1..Len(list) : Waiting(i)' => Waiting(i) /\ i # at
    BY <1>1, <1>2 DEF Waiting
  <2>2. \A i \in 1..Len(list) : i # at => list[i] # f /\ list[i] \in Functions
    BY <1>1, <1>2 DEF Unique
  <2>3. \A i \in 1..Len(list) : i # at => code'[list[i]] = code[list[i]]
    BY <1>1, <2>2 DEF Emitting, Heaped
  <2>4. QED
    BY <1>1, <2>1, <2>3 DEF AtHome, Emitting, Heaped
<1>7. QED
  BY <1>3, <1>4, <1>5, <1>6 DEF Heaped, BlockSet, Addresses

LEMMA EmitHeaped == IInv /\ Emitting /\ Emit => Heaped'
<1> SUFFICES ASSUME IInv, Emitting, Emit PROVE Heaped'
  OBVIOUS
<1> DEFINE f == list[at]
           c == code[f]
           freed == [heap EXCEPT ![c] = Free]
           copied(a) == [freed EXCEPT ![a] = [fn |-> f, pool |-> heap[poolAt[f]].pool]]
<1>1. pc = "write" /\ at <= Len(list)
  BY DEF Emit
<1>2. PICK a \in { b \in Addresses : freed[b] = Free } :
         /\ code' = [code EXCEPT ![f] = a]
         /\ IF IsRoot(f)
            THEN heap' = copied(a) /\ stray' = stray
            ELSE LET p == ParentOf(f) IN
                 IF copied(a)[poolAt[p[1]]] # Free /\ copied(a)[poolAt[p[1]]].fn = p[1]
                 THEN heap' = Linked(copied(a), p, a) /\ stray' = stray
                 ELSE heap' = copied(a) /\ stray' = TRUE
  BY DEF Emit
<1>3. /\ file' = file /\ list' = list /\ poolAt' = poolAt
  BY DEF Emit
<1>4. /\ f \in Functions /\ In(list, f)
      /\ poolAt[f] = c
      /\ heap[c] = Block(f)
  BY <1>1, EmitFinds
<1>5. /\ heap \in [Addresses -> BlockSet \cup {Free}]
      /\ code \in [Functions -> Addresses \cup {None}]
      /\ stray = FALSE
      /\ \A g \in Functions : In(list, g) => code[g] \in Addresses /\ poolAt[g] \in Addresses
      /\ \A g \in Functions : In(list, g) => heap[code[g]] = Block(g)
  BY DEF Emitting, Heaped, Placed
<1>6. file \in Snapshots /\ Listed(file, list, Roots(loaded))
  BY DEF IInv, Positions, Emitting, Listing
<1>7. \A g \in Functions :
         In(list, g) => Block(g) \in BlockSet /\ Block(g) # Free /\ Block(g).fn = g
  <2>1. \A g \in Functions : In(list, g) => Block(g) \in BlockSet
    BY <1>5, <1>6, PoolType
  <2>2. Free \notin BlockSet
    BY SizesAssumption DEF BlockSet
  <2>3. QED
    BY <2>1, <2>2 DEF Block
<1> HIDE DEF f, c
<1>8. c \in Addresses
  BY <1>4, <1>5 DEF c
<1>9. a \in Addresses /\ freed[a] = Free
  OBVIOUS
<1> DEFINE new == copied(a)
<1>10. /\ new[a] = Block(f)
       /\ \A g \in Functions : In(list, g) /\ g # f =>
             /\ code[g] # c /\ code[g] # a /\ new[code[g]] = Block(g)
  <2>1. heap[poolAt[f]].pool = PoolOf(f)
    BY <1>4 DEF Block
  <2>2. new[a] = Block(f)
    BY <1>5, <1>9, <2>1 DEF Block
  <2>3. ASSUME NEW g \in Functions, In(list, g), g # f
        PROVE  code[g] # c /\ code[g] # a /\ new[code[g]] = Block(g)
    <3>1. heap[code[g]] = Block(g) /\ Block(g).fn = g /\ Block(g) # Free /\ code[g] \in Addresses
      BY <1>5, <1>7, <2>3
    <3>2. heap[c].fn = f
      BY <1>4 DEF Block
    <3>3. code[g] # c
      BY <2>3, <3>1, <3>2
    <3>4. freed[code[g]] = Block(g)
      BY <1>5, <3>1, <3>3
    <3>5. code[g] # a
      BY <1>9, <3>1, <3>4
    <3>6. QED
      BY <1>5, <3>1, <3>3, <3>4, <3>5
  <2>4. QED
    BY <2>2, <2>3
<1>11. new \in [Addresses -> BlockSet \cup {Free}]
  <2>1. freed \in [Addresses -> BlockSet \cup {Free}]
    BY <1>5
  <2>2. [fn |-> f, pool |-> heap[poolAt[f]].pool] = Block(f)
    BY <1>4 DEF Block
  <2>3. Block(f) \in BlockSet
    BY <1>4, <1>7
  <2> HIDE DEF freed
  <2>4. QED
    BY <2>1, <2>2, <2>3
<1>12. code'[f] = a /\ \A g \in Functions : g # f => code'[g] = code[g]
  BY <1>2, <1>4, <1>5
<1>13. code' = [code EXCEPT ![list[at]] = a]
  BY <1>2 DEF f
<1>14. CASE IsRoot(f)
  <2>1. heap' = new /\ stray' = FALSE
    BY <1>2, <1>5, <1>14
  <2>2. \A g \in Functions : ~ PoolHas(file, g, f)
    <3>1. IsForest(file)
      BY <1>6, SnapshotsAssumption
    <3>2. QED
      BY <1>14, <3>1 DEF IsRoot, IsForest, PoolHas
  <2>3. ASSUME NEW g \in Functions PROVE (Block(g))' = Block(g)
    <3>1. \A k \in 1..Len(file.subs[g]) :
             file.subs[g][k] # g => code'[file.subs[g][k]] = code[file.subs[g][k]]
      <4>1. \A k \in 1..Len(file.subs[g]) : file.subs[g][k] \in Functions
        BY <1>6, SnapshotTypes
      <4>2. \A k \in 1..Len(file.subs[g]) : file.subs[g][k] # g => file.subs[g][k] # f
        BY <2>2 DEF PoolHas
      <4>3. QED
        BY <1>12, <4>1, <4>2
    <3>2. (PoolOf(g))' = PoolOf(g)
      BY <1>3, <3>1 DEF PoolOf
    <3>3. QED
      BY <3>2 DEF Block
  <2> HIDE DEF new
  <2>4. \A g \in Functions : In(list, g) => heap'[code'[g]] = (Block(g))'
    BY <1>10, <1>12, <2>1, <2>3
  <2>5. QED
    BY <1>9, <1>11, <1>13, <2>1, <2>4, EmitPlaced
<1>15. CASE ~ IsRoot(f)
  <2>1. PICK p \in Functions : \E k \in 1..Len(file.subs[p]) :
           /\ p # f /\ file.subs[p][k] = f
           /\ In(list, p) /\ poolAt[p] = code[p]
           /\ ParentOf(f) = <<p, k>>
    BY <1>1, <1>15, EmitFinds DEF f
  <2>2. PICK k \in 1..Len(file.subs[p]) :
           /\ p # f /\ file.subs[p][k] = f
           /\ In(list, p) /\ poolAt[p] = code[p]
           /\ ParentOf(f) = <<p, k>>
    BY <2>1
  <2>3. /\ new[code[p]] = Block(p) /\ code[p] # a /\ Block(p) # Free /\ Block(p).fn = p
        /\ code[p] \in Addresses
    BY <1>5, <1>7, <1>10, <2>2
  <2>4. heap' = [new EXCEPT ![code[p]].pool[k] = a] /\ stray' = FALSE
    <3>1. ParentOf(f)[1] = p /\ ParentOf(f)[2] = k
      BY <2>2
    <3>2. new[poolAt[ParentOf(f)[1]]] # Free /\ new[poolAt[ParentOf(f)[1]]].fn = ParentOf(f)[1]
      BY <2>2, <2>3, <3>1
    <3>3. heap' = Linked(new, ParentOf(f), a) /\ stray' = stray
      BY <1>2, <1>15, <3>2
    <3>4. QED
      BY <1>5, <2>2, <3>1, <3>3 DEF Linked
  <2>5. \A g \in Functions : g # p => ~ PoolHas(file, g, f)
    <3>1. PoolHas(file, p, f)
      BY <2>2 DEF PoolHas
    <3>2. QED
      BY <1>4, <1>6, <3>1, OnePool
  <2>6. ASSUME NEW g \in Functions, g # p PROVE (Block(g))' = Block(g)
    <3>1. \A l \in 1..Len(file.subs[g]) :
             file.subs[g][l] # g => code'[file.subs[g][l]] = code[file.subs[g][l]]
      <4>1. \A l \in 1..Len(file.subs[g]) : file.subs[g][l] \in Functions
        BY <1>6, SnapshotTypes
      <4>2. \A l \in 1..Len(file.subs[g]) : file.subs[g][l] # g => file.subs[g][l] # f
        BY <2>5, <2>6 DEF PoolHas
      <4>3. QED
        BY <1>12, <4>1, <4>2
    <3>2. (PoolOf(g))' = PoolOf(g)
      BY <1>3, <3>1 DEF PoolOf
    <3>3. QED
      BY <3>2 DEF Block
  <2>7. (PoolOf(p))' = [PoolOf(p) EXCEPT ![k] = a]
    <3>1. \A l \in 1..Len(file.subs[p]) : l # k /\ file.subs[p][l] # p =>
             code'[file.subs[p][l]] = code[file.subs[p][l]]
      <4>1. \A l \in 1..Len(file.subs[p]) : file.subs[p][l] \in Functions
        BY <1>6, SnapshotTypes
      <4>2. \A l \in 1..Len(file.subs[p]) : l # k => file.subs[p][l] # f
        BY <1>6, <2>2, SnapshotsAssumption DEF IsForest
      <4>3. QED
        BY <1>12, <4>1, <4>2
    <3>2. \A l \in 1..Len(file.subs[p]) :
             (IF file.subs[p][l] = p THEN poolAt[p] ELSE code'[file.subs[p][l]]) =
                 IF l = k THEN a
                 ELSE IF file.subs[p][l] = p THEN poolAt[p] ELSE code[file.subs[p][l]]
      BY <1>12, <2>2, <3>1
    <3>3. (PoolOf(p))' = [l \in 1..Len(file.subs[p]) |->
             IF file.subs[p][l] = p THEN poolAt[p] ELSE code'[file.subs[p][l]]]
      BY <1>3 DEF PoolOf
    <3>4. [PoolOf(p) EXCEPT ![k] = a] = [l \in 1..Len(file.subs[p]) |->
             IF l = k THEN a
             ELSE IF file.subs[p][l] = p THEN poolAt[p] ELSE code[file.subs[p][l]]]
      BY DEF PoolOf
    <3>5. QED
      BY <3>2, <3>3, <3>4
  <2> HIDE DEF new
  <2>8. heap'[code[p]] = (Block(p))' /\ \A b \in Addresses : b # code[p] => heap'[b] = new[b]
    <3>1. heap'[code[p]] = [new[code[p]] EXCEPT !.pool = [PoolOf(p) EXCEPT ![k] = a]]
      BY <1>11, <2>3, <2>4 DEF Block
    <3>2. heap'[code[p]] = [fn |-> p, pool |-> [PoolOf(p) EXCEPT ![k] = a]]
      BY <2>3, <3>1 DEF Block
    <3>3. QED
      BY <1>11, <2>4, <2>7, <3>2 DEF Block
  <2>9. \A g \in Functions : In(list, g) => heap'[code'[g]] = (Block(g))'
    <3>1. heap'[code'[p]] = (Block(p))'
      BY <1>12, <2>2, <2>8
    <3>2. ASSUME NEW g \in Functions, g = f
          PROVE  heap'[code'[g]] = (Block(g))'
      <4>1. code'[g] = a /\ new[a] = Block(g) /\ a # code[p]
        BY <1>4, <1>10, <1>12, <2>3, <3>2
      <4>2. QED
        BY <1>9, <2>2, <2>6, <2>8, <3>2, <4>1
    <3>3. ASSUME NEW g \in Functions, In(list, g), g # f, g # p
          PROVE  heap'[code'[g]] = (Block(g))'
      <4>1. code'[g] = code[g] /\ code[g] \in Addresses /\ new[code[g]] = Block(g)
        BY <1>5, <1>10, <1>12, <3>3
      <4>2. code[g] # code[p]
        <5>1. Block(g).fn = g /\ Block(p).fn = p
          BY <1>7, <2>2, <3>3
        <5>2. QED
          BY <2>3, <3>3, <4>1, <5>1
      <4>3. QED
        BY <2>6, <2>8, <3>3, <4>1, <4>2
    <3>4. QED
      BY <3>1, <3>2, <3>3
  <2>10. heap' \in [Addresses -> BlockSet \cup {Free}]
    <3>1. [PoolOf(p) EXCEPT ![k] = a] \in Seq(Addresses)
      <4>1. PoolOf(p) \in Seq(Addresses) /\ Len(file.subs[p]) \in Nat
        BY <1>5, <1>6, <2>2, PoolType, SnapshotTypes
      <4>2. k \in 1..Len(PoolOf(p))
        <5>1. DOMAIN PoolOf(p) = 1..Len(file.subs[p])
          BY DEF PoolOf
        <5>2. DOMAIN PoolOf(p) = 1..Len(PoolOf(p))
          BY <4>1, LenProperties
        <5>3. QED
          BY <5>1, <5>2
      <4>3. QED
        BY <1>9, <4>1, <4>2, ExceptSeq
    <3>2. (Block(p))' \in BlockSet
      BY <2>7, <3>1 DEF Block, BlockSet
    <3>3. \A b \in Addresses : heap'[b] \in BlockSet \cup {Free}
      BY <1>11, <2>8, <3>2
    <3>4. heap' = [b \in Addresses |-> heap'[b]]
      BY <1>11, <2>4
    <3>5. QED
      BY <3>3, <3>4
  <2>11. QED
    BY <1>9, <1>13, <2>4, <2>9, <2>10, EmitPlaced
<1>16. QED
  BY <1>14, <1>15

(* Steps that leave the blocks alone and take no function back among those *)
(* to be emitted.                                                          *)
LEMMA HeapStays ==
    ASSUME Heaped, UNCHANGED <<file, heap, code, poolAt, list, stray>>,
           pc' = "read" => pc = "read",
           \A i \in 1..Len(list) : (Waiting(i))' => Waiting(i)
    PROVE  Heaped'
<1>1. \A f \in Functions : (PoolOf(f))' = PoolOf(f)
  BY DEF PoolOf
<1>2. \A f \in Functions : (Block(f))' = Block(f)
  BY <1>1 DEF Block
<1>3. Placed'
  BY <1>2 DEF Heaped, Placed, In
<1>4. AtHome'
  BY DEF Heaped, AtHome
<1>5. QED
  BY <1>3, <1>4 DEF Heaped

LEMMA ListStays ==
    ASSUME Listing, UNCHANGED <<file, loaded, list>>, at' <= Len(list) + 1,
           pc' \in {"optimize", "write", "snapshot", "done"} => loaded = Len(file.roots)
    PROVE  Listing'
<1>1. (Roots(loaded))' = Roots(loaded)
  BY DEF Roots
<1>2. Listed(file, list, Roots(loaded)) /\ file' = file /\ list' = list
  BY DEF Listing
<1>3. (Listed(file, list, Roots(loaded)))'
  BY <1>1, <1>2
<1>4. QED
  BY <1>3 DEF Listing

(* The steps before anything is emitted, and the failing ones. *)
LEMMA StopsEmitting ==
    IInv /\ Emitting /\ (LoadFails \/ EndRead \/ WriteFails \/ RunPass) => Emitting'
<1> SUFFICES ASSUME IInv, Emitting, LoadFails \/ EndRead \/ WriteFails \/ RunPass
             PROVE  Emitting'
  OBVIOUS
<1>1. /\ UNCHANGED <<files, at, stray, buffers>>
      /\ \/ pc' = "failed" \/ pc' = "aborted"
         \/ pc = "read" /\ pc' = "optimize" /\ loaded = Len(file.roots)
         \/ pc = "optimize" /\ pc' = "optimize"
  BY DEF LoadFails, EndRead, WriteFails, RunPass
<1>2. /\ UNCHANGED <<file, loaded, heap, code, poolAt, list, at, stray, bufferSize, written,
                     output>>
      /\ pc' = "failed" \/ pc' = "aborted" \/ (pc \in {"read", "optimize"} /\ pc' = "optimize")
      /\ pc' = "optimize" => loaded = Len(file.roots)
  BY <1>1 DEF files, buffers, Emitting, Listing
<1>3. Listing'
  <2>1. at' <= Len(list) + 1
    BY <1>2 DEF Emitting, Listing
  <2>2. QED
    BY <1>2, <2>1, ListStays DEF Emitting
<1>4. Heaped'
  <2>1. \A i \in 1..Len(list) : (Waiting(i))' => Waiting(i)
    BY <1>2 DEF Waiting
  <2>2. pc' = "read" => pc = "read"
    BY <1>2
  <2>3. QED
    BY <1>2, <2>1, <2>2, HeapStays DEF Emitting
<1>5. RootsWritten'
  BY <1>2 DEF Emitting, RootsWritten
<1>6. QED
  BY <1>3, <1>4, <1>5 DEF Emitting

LEMMA TurnsEmitting ==
    IInv /\ Emitting /\ (NextFunction \/ EndOptimize) => Emitting'
<1> SUFFICES ASSUME IInv, Emitting, NextFunction \/ EndOptimize PROVE Emitting'
  OBVIOUS
<1>1. /\ UNCHANGED <<file, loaded, heap, code, poolAt, list, stray, bufferSize, written, output>>
      /\ pc = "optimize"
      /\ (pc' = "optimize" /\ at <= Len(list) /\ at' = at + 1) \/ (pc' = "write" /\ at' = 1)
  BY DEF NextFunction, EndOptimize, files, buffers
<1>2. Len(list) \in Nat /\ at \in Nat /\ written = <<>>
  BY <1>1 DEF IInv, Positions, Emitting, RootsWritten
<1>3. Listing'
  <2>1. at' <= Len(list) + 1 /\ loaded = Len(file.roots)
    BY <1>1, <1>2 DEF Emitting, Listing
  <2>2. QED
    BY <1>1, <2>1, ListStays DEF Emitting
<1>4. Heaped'
  <2>1. \A i \in 1..Len(list) : Waiting(i)
    BY <1>1 DEF Waiting
  <2>2. QED
    BY <1>1, <2>1, HeapStays DEF Emitting
<1>5. RootsWritten'
  <2>1. { written[i].fn : i \in 1..Len(written) } = {}
    BY <1>2
  <2>2. at' = 1 => RootsPassed' = {}
    BY <1>1, <1>2 DEF RootsPassed
  <2>3. QED
    BY <1>1, <1>2, <2>1, <2>2 DEF Emitting, RootsWritten
<1>6. QED
  BY <1>3, <1>4, <1>5 DEF Emitting

LEMMA EmitEmitting == IInv /\ Emitting /\ Emit => Emitting'
<1> SUFFICES ASSUME IInv, Emitting, Emit PROVE Emitting'
  OBVIOUS
<1>1. /\ UNCHANGED <<file, loaded, list, bufferSize, written, output>>
      /\ pc = "write" /\ at <= Len(list)
      /\ \/ IsRoot(list[at]) /\ pc' = "snapshot" /\ at' = at
         \/ ~ IsRoot(list[at]) /\ pc' = "write" /\ at' = at + 1
  BY DEF Emit, buffers
<1>2. Len(list) \in Nat /\ at \in Nat
  BY DEF IInv, Positions
<1>3. Listing'
  <2>1. at' <= Len(list) + 1 /\ loaded = Len(file.roots)
    BY <1>1, <1>2 DEF Emitting, Listing
  <2>2. QED
    BY <1>1, <2>1, ListStays DEF Emitting
<1>4. Heaped'
  BY EmitHeaped
<1>5. RootsWritten'
  <2>1. RootsPassed' = RootsPassed
    <3>1. { j \in 1..Len(list) : j < at' /\ IsRoot(list[j]) } =
              { j \in 1..Len(list) : j < at /\ IsRoot(list[j]) }
      BY <1>1, <1>2
    <3>2. QED
      BY <1>1, <3>1 DEF RootsPassed, IsRoot
  <2>2. pc' = "snapshot" => (IsRoot(list[at]))'
    BY <1>1 DEF IsRoot
  <2>3. pc' # "done" /\ pc' # "read" /\ pc' # "optimize"
    BY <1>1
  <2>4. QED
    BY <1>1, <2>1, <2>2, <2>3 DEF Emitting, RootsWritten
<1>6. QED
  BY <1>3, <1>4, <1>5 DEF Emitting

LEMMA WriteSnapshotEmitting == IInv /\ Emitting /\ WriteSnapshot => Emitting'
<1> SUFFICES ASSUME IInv, Emitting, WriteSnapshot PROVE Emitting'
  OBVIOUS
<1> DEFINE bytes == file.size[list[at]]
           entry == [fn |-> list[at], start |-> bufferAt, bytes |-> bytes]
           n == Len(written)
<1>1. /\ UNCHANGED <<file, loaded, heap, code, poolAt, list, stray, output>>
      /\ pc = "snapshot" /\ pc' = "write" /\ at' = at + 1
      /\ written' = Append(written, entry)
      /\ bufferSize' = bufferSize - bytes
  BY DEF WriteSnapshot, files
<1>2. /\ Len(list) \in Nat /\ at \in 1..Len(list) /\ list[at] \in Functions
      /\ file.size \in [Functions -> Nat \ {0}] /\ file \in Snapshots
      /\ written \in Seq(Written) /\ n \in Nat
      /\ bufferAt \in Nat /\ bufferSize \in Nat
  <2>1. file \in Snapshots /\ list \in Seq(Functions) /\ at \in Nat \ {0} /\ at <= Len(list)
    BY <1>1 DEF IInv, Positions
  <2>2. file.size \in [Functions -> Nat \ {0}]
    BY <2>1, SnapshotsAssumption DEF IsSnapshot
  <2>3. QED
    BY <2>1, <2>2 DEF IInv, Buffer
<1>3. entry \in Written /\ bytes \in Nat
  BY <1>2 DEF Written
<1>4. Listing'
  <2>1. at' <= Len(list) + 1 /\ loaded = Len(file.roots)
    BY <1>1, <1>2 DEF Emitting, Listing
  <2>2. QED
    BY <1>1, <2>1, ListStays DEF Emitting
<1>5. Heaped'
  <2>1. \A i \in 1..Len(list) : (Waiting(i))' => Waiting(i)
    BY <1>1, <1>2 DEF Waiting
  <2>2. QED
    BY <1>1, <2>1, HeapStays DEF Emitting
<1>6. Total(written') + bufferSize' = Units
  <2>1. Total(written) \in Nat /\ Total(written') = Total(written) + entry.bytes
    BY <1>1, <1>2, <1>3, TotalGrows
  <2>2. Total(written) + bufferSize = Units
    BY DEF Emitting, RootsWritten
  <2>3. QED
    BY <1>1, <1>2, <1>3, <2>1, <2>2
<1>7. { written'[i].fn : i \in 1..Len(written') } =
          { written[i].fn : i \in 1..n } \cup {list[at]}
  <2>1. /\ Len(written') = n + 1 /\ written'[n + 1] = entry
        /\ \A i \in 1..n : written'[i] = written[i]
    BY <1>1, <1>2, <1>3
  <2>2. 1..(n + 1) = (1..n) \cup {n + 1}
    BY <1>2
  <2>3. entry.fn = list[at]
    OBVIOUS
  <2> HIDE DEF entry
  <2>4. QED
    BY <2>1, <2>2, <2>3
<1>8. RootsPassed' = RootsPassed \cup {list[at]}
  <2>1. IsRoot(list[at])
    BY <1>1 DEF Emitting, RootsWritten
  <2>2. { j \in 1..Len(list) : j < at' /\ IsRoot(list[j]) } =
            { j \in 1..Len(list) : j < at /\ IsRoot(list[j]) } \cup {at}
    BY <1>1, <1>2, <2>1
  <2>3. RootsPassed' = { list[i] : i \in { j \in 1..Len(list) : j < at' /\ IsRoot(list[j]) } }
    BY <1>1 DEF RootsPassed, IsRoot
  <2>4. QED
    BY <2>2, <2>3 DEF RootsPassed
<1>9. RootsWritten'
  <2>1. { written[i].fn : i \in 1..n } = RootsPassed
    BY <1>1 DEF Emitting, RootsWritten
  <2>2. ({ written[i].fn : i \in 1..n })' = { written'[i].fn : i \in 1..Len(written') }
    OBVIOUS
  <2>3. output' \subseteq Functions
    BY <1>1 DEF Emitting, RootsWritten
  <2>4. QED
    BY <1>1, <1>6, <1>7, <1>8, <2>1, <2>2, <2>3 DEF RootsWritten
<1>10. QED
  BY <1>4, <1>5, <1>9 DEF Emitting

LEMMA EndWriteEmitting == IInv /\ Emitting /\ EndWrite => Emitting'
<1> SUFFICES ASSUME IInv, Emitting, EndWrite PROVE Emitting'
  OBVIOUS
<1>1. /\ UNCHANGED <<file, loaded, heap, code, poolAt, list, at, stray, bufferSize, written>>
      /\ pc = "write" /\ pc' = "done" /\ at > Len(list) /\ output' = Final
  BY DEF EndWrite, files
<1>2. Len(list) \in Nat /\ at \in Nat /\ at = Len(list) + 1
  BY <1>1 DEF IInv, Positions, Emitting, Listing
<1>3. Listing'
  BY <1>1, <1>2, ListStays DEF Emitting, Listing
<1>4. Heaped'
  <2>1. \A i \in 1..Len(list) : (Waiting(i))' => Waiting(i)
    BY <1>1 DEF Waiting
  <2>2. QED
    BY <1>1, <2>1, HeapStays DEF Emitting
<1>5. Final \subseteq Functions
  <2>1. \A i \in 1..Len(written) : written[i].fn \in Functions
    <3>1. written \in Seq(Written)
      BY DEF IInv, Buffer
    <3>2. \A i \in 1..Len(written) : written[i] \in Written
      BY <3>1
    <3>3. QED
      BY <3>2 DEF Written
  <2>2. Len(written) = 1 => written[1].fn \in Functions
    BY <2>1
  <2>3. QED
    BY <2>1, <2>2 DEF Final
<1>6. Final' = Final
  BY <1>1 DEF Final
<1>7. RootsWritten'
  <2>1. RootsPassed' = RootsPassed
    BY <1>1 DEF RootsPassed, IsRoot
  <2>2. { written[i].fn : i \in 1..Len(written) } = RootsPassed
    BY <1>1 DEF Emitting, RootsWritten
  <2>3. Total(written) + bufferSize = Units
    BY DEF Emitting, RootsWritten
  <2>4. QED
    BY <1>1, <1>2, <1>5, <1>6, <2>1, <2>2, <2>3 DEF RootsWritten
<1>8. QED
  BY <1>3, <1>4, <1>7 DEF Emitting

LEMMA InductiveEmitting == Spec => []Emitting
<1>1. ASSUME IInv, Emitting, UNCHANGED vars PROVE Emitting'
  <2>1. UNCHANGED <<file, pc, loaded, heap, code, poolAt, list, at, stray, bufferSize, written,
                    output>>
    BY <1>1 DEF vars, files, passes, buffers
  <2>2. Listing'
    BY <1>1, <2>1, ListStays DEF Emitting, Listing
  <2>3. Heaped'
    <3>1. \A i \in 1..Len(list) : (Waiting(i))' => Waiting(i)
      BY <2>1 DEF Waiting
    <3>2. QED
      BY <1>1, <2>1, <3>1, HeapStays DEF Emitting
  <2>4. RootsWritten'
    <3>1. RootsPassed' = RootsPassed /\ Final' = Final
      BY <2>1 DEF RootsPassed, IsRoot, Final
    <3>2. (IsRoot(list[at]))' <=> IsRoot(list[at])
      BY <2>1 DEF IsRoot
    <3>3. QED
      BY <1>1, <2>1, <3>1, <3>2 DEF Emitting, RootsWritten
  <2>5. QED
    BY <2>2, <2>3, <2>4 DEF Emitting
<1>2. IInv /\ Emitting /\ [Next]_vars => Emitting'
  BY <1>1, LoadEmitting, StopsEmitting, TurnsEmitting, EmitEmitting, WriteSnapshotEmitting,
     EndWriteEmitting DEF Next
<1>3. QED
  BY <1>2, Inductive, InitEmitting, PTL DEF Spec

-----------------------------------------------------------------------------
(* The mask has bits of passes only. *)
BitsOfPasses == mask \subseteq 0..2

LEMMA MaskType == Spec => []BitsOfPasses
<1>1. Init => BitsOfPasses
  BY DEF Init, BitsOfPasses
<1>2. ASSUME IInv, BitsOfPasses, [Next]_vars PROVE BitsOfPasses'
  <2>1. CASE RunPass
    <3>1. pass \in 1..Len(Passes) /\ Len(Passes) = 4
      BY <1>2, <2>1, PassesKnown DEF RunPass, IInv, Positions
    <3>2. Bits(Passes[pass]) \subseteq 0..2
      <4>1. pass \in {1, 2, 3, 4}
        BY <3>1
      <4>2. Passes[pass] \in {CFA, DOM, LIV, REG}
        BY <4>1, PassesKnown
      <4>3. QED
        BY <4>2, PassesKnown DEF Bits
    <3>3. mask' = mask \/ mask' = mask \cup Bits(Passes[pass])
      BY <2>1 DEF RunPass, passes
    <3>4. QED
      BY <1>2, <3>2, <3>3 DEF BitsOfPasses
  <2>2. CASE ~ RunPass
    <3>1. mask' = mask
      BY <1>2, <2>2 DEF Next, Load, LoadFails, EndRead, NextFunction, EndOptimize, Emit,
         WriteSnapshot, WriteFails, EndWrite, passes, vars
    <3>2. QED
      BY <1>2, <3>1 DEF BitsOfPasses
  <2>3. QED
    BY <2>1, <2>2
<1>3. QED
  BY <1>1, <1>2, Inductive, PTL DEF Spec

(* Every variable has its type; in particular, no pass has aborted. *)
THEOREM TypeCorrect == Spec => []TypeOK
<1>1. ASSUME IInv, Emitting, BitsOfPasses PROVE TypeOK
  <2>1. pc \in {"read", "optimize", "write", "snapshot", "done", "failed"}
    BY <1>1 DEF IInv, Positions
  <2>2. loaded \in 0..Len(file.roots)
    BY <1>1 DEF Emitting, Listing
  <2>3. /\ heap \in [Addresses -> BlockSet \cup {Free}]
        /\ code \in [Functions -> Addresses \cup {None}]
        /\ poolAt \in [Functions -> Addresses \cup {None}]
        /\ stray \in BOOLEAN
    BY <1>1 DEF Emitting, Heaped
  <2>4. \A a \in Addresses :
           heap[a] # Free => heap[a].fn \in Functions /\ heap[a].pool \in Seq(Addresses)
    BY <2>3 DEF BlockSet
  <2>5. list \in Seq(Functions) /\ at \in 1..(Len(list) + 1) /\ pass \in 1..(Len(Passes) + 1)
    BY <1>1 DEF IInv, Positions, Emitting, Listing
  <2>6. bufferAt \in 0..Units /\ bufferSize \in 0..Units
    BY <1>1, SizesAssumption DEF IInv, Buffer
  <2>7. output \subseteq Functions
    BY <1>1 DEF Emitting, RootsWritten
  <2>8. QED
    BY <1>1, <2>1, <2>2, <2>3, <2>4, <2>5, <2>6, <2>7 DEF TypeOK, BitsOfPasses
<1>2. QED
  BY <1>1, Inductive, InductiveEmitting, MaskType, PTL

-----------------------------------------------------------------------------
(* Whatever is below a listed function is listed. *)
LEMMA TreeIn ==
    ASSUME NEW s \in Snapshots, NEW q, NEW tops, Listed(s, q, tops),
           NEW r \in Functions, In(q, r), NEW p, Listed(s, p, {r})
    PROVE  \A g \in Functions : In(p, g) => In(q, g)
<1> DEFINE Missing == { g \in Functions : In(p, g) /\ ~ In(q, g) }
<1>1. SUFFICES ASSUME Missing # {} PROVE FALSE
  OBVIOUS
<1>2. PICK depth \in [Functions -> 0..Heap] : IsDepth(s, depth)
  BY SnapshotsAssumption
<1>3. PICK f \in Missing : \A g \in Missing : depth[g] <= depth[f]
  BY <1>1, DeepestExists
<1>4. PICK g \in Functions : In(p, g) /\ PoolHas(s, g, f)
  BY <1>3, OuterIn
<1>5. PICK k \in 1..Len(s.subs[g]) : s.subs[g][k] = f /\ f # g
  BY <1>4 DEF PoolHas
<1>6. depth[f] < depth[g]
  BY <1>2, <1>5 DEF IsDepth
<1>7. depth[f] \in Int /\ depth[g] \in Int
  BY <1>2, <1>3, SizesAssumption
<1>8. In(q, g)
  BY <1>3, <1>4, <1>6, <1>7
<1>9. In(q, f)
  BY <1>5, <1>8, InnerIn
<1>10. QED
  BY <1>3, <1>9

(* When a function is serialised, every function below it is found through *)
(* the pools where it was emitted. *)
THEOREM PoolsResolved == Spec => []PoolsResolve
<1>1. ASSUME IInv, Emitting PROVE PoolsResolve
  <2>1. ~ stray
    BY <1>1 DEF Emitting, Heaped
  <2>2. ASSUME pc = "snapshot", NEW g \in Tree(list[at])
        PROVE  /\ code[g] # None /\ heap[code[g]] # Free /\ heap[code[g]].fn = g
               /\ \A k \in 1..Len(file.subs[g]) :
                     heap[code[g]].pool[k] =
                         IF file.subs[g][k] = g THEN poolAt[g] ELSE code[file.subs[g][k]]
    <3> DEFINE r == list[at]
               p == FunctionsOf(file)[r]
    <3>1. /\ file \in Snapshots /\ at \in 1..Len(list) /\ list \in Seq(Functions)
          /\ r \in Functions /\ In(list, r)
      BY <1>1, <2>2 DEF IInv, Positions, In
    <3>2. Listed(file, p, {r}) /\ Listed(file, list, Roots(loaded))
      BY <1>1, <3>1, FunctionsListed DEF Emitting, Listing
    <3>3. g \in Functions /\ In(p, g)
      <4>1. PICK i \in 1..Len(p) : p[i] = g
        BY DEF Tree
      <4>2. p \in Seq(Functions)
        BY <3>2 DEF Listed
      <4>3. QED
        BY <4>1, <4>2 DEF In
    <3> HIDE DEF p, r
    <3>4. In(list, g)
      BY <3>1, <3>2, <3>3, TreeIn
    <3>5. /\ code[g] \in Addresses /\ heap[code[g]] = Block(g)
          /\ \A h \in Functions : In(list, h) => code[h] \in Addresses
          /\ poolAt[g] \in Addresses
      BY <1>1, <3>3, <3>4 DEF Emitting, Heaped, Placed
    <3>6. Block(g) \in BlockSet
      BY <3>1, <3>2, <3>3, <3>4, <3>5, PoolType
    <3>7. Free \notin BlockSet
      BY SizesAssumption DEF BlockSet
    <3>8. code[g] # None
      BY <3>5 DEF Addresses, None
    <3>9. \A k \in 1..Len(file.subs[g]) : Block(g).pool[k] =
              IF file.subs[g][k] = g THEN poolAt[g] ELSE code[file.subs[g][k]]
      BY DEF Block, PoolOf
    <3>10. heap[code[g]].fn = g
      BY <3>5 DEF Block
    <3>11. heap[code[g]] # Free
      BY <3>5, <3>6, <3>7
    <3>12. QED
      BY <3>5, <3>8, <3>9, <3>10, <3>11
  <2>3. QED
    BY <2>1, <2>2 DEF PoolsResolve
<1>2. QED
  BY <1>1, Inductive, InductiveEmitting, PTL

(* When write() reports success, and the merge had room, the file holds    *)
(* all outermost functions of the input. *)
THEOREM OutputWhole == Spec => []OutputComplete
<1>1. ASSUME IInv, Emitting PROVE OutputComplete
  <2>1. SUFFICES ASSUME pc = "done", Len(written) = 1 \/ 2 * Total(written) <= Units
                 PROVE  output = { file.roots[i] : i \in 1..Len(file.roots) }
    BY DEF OutputComplete
  <2>2. /\ at = Len(list) + 1 /\ output = Final
        /\ { written[i].fn : i \in 1..Len(written) } = RootsPassed
        /\ Total(written) + bufferSize = Units
    BY <1>1, <2>1 DEF Emitting, RootsWritten
  <2>3. written \in Seq(Written) /\ bufferSize \in Nat
    BY <1>1 DEF IInv, Buffer
  <2>4. Total(written) \in Nat
    BY <2>3, TotalGrows
  <2>5. output = RootsPassed
    <3>1. CASE Len(written) = 1
      <4>1. { written[i].fn : i \in 1..Len(written) } = {written[1].fn}
        <5>1. 1..Len(written) = {1}
          BY <3>1
        <5>2. QED
          BY <5>1
      <4>2. QED
        BY <2>2, <3>1, <4>1 DEF Final
    <3>2. CASE Len(written) # 1
      <4>1. Total(written) <= bufferSize
        BY <2>1, <2>2, <2>3, <2>4, <3>2
      <4>2. QED
        BY <2>2, <3>2, <4>1 DEF Final
    <3>3. QED
      BY <3>1, <3>2
  <2>6. /\ list \in Seq(Functions) /\ Len(list) \in Nat
        /\ loaded = Len(file.roots)
        /\ \A f \in Roots(loaded) : In(list, f)
    BY <1>1, <2>1 DEF IInv, Positions, Emitting, Listing, Listed
  <2>7. ASSUME NEW f \in RootsPassed PROVE f \in Roots(loaded)
    <3>1. IsRoot(f)
      BY <2>7 DEF RootsPassed
    <3>2. QED
      BY <2>6, <3>1 DEF IsRoot, Roots
  <2>8. ASSUME NEW f \in Roots(loaded) PROVE f \in RootsPassed
    <3>1. PICK i \in 1..Len(list) : list[i] = f
      BY <2>6 DEF In
    <3>2. IsRoot(f)
      BY <2>6 DEF IsRoot, Roots
    <3>3. i < at
      BY <2>2, <2>6
    <3>4. QED
      BY <3>1, <3>2, <3>3 DEF RootsPassed
  <2>9. QED
    BY <2>5, <2>6, <2>7, <2>8 DEF Roots
<1>2. QED
  BY <1>1, Inductive, InductiveEmitting, PTL
=============================================================================
