---------------------- MODULE DominatorAnalysis_proofs ----------------------
(***************************************************************************)
(* Theorems about DominatorAnalysis, for every graph and every outcome of  *)
(* the erasures (no assumption is made on EraseOutcomes).                  *)
(***************************************************************************)
EXTENDS DominatorAnalysis, TLAPS

(* The predecessors of a block of a graph are blocks of it, and every      *)
(* block but the start has a first one.                                    *)
LEMMA PredecessorIsBlock ==
    ASSUME IsGraph(graph), NEW b \in Blocks \ {0}
    PROVE  /\ graph.preds[b] \in Seq(Blocks)
           /\ 1 \in 1..Len(graph.preds[b])
           /\ Preds(b) \subseteq Blocks
           /\ graph.preds[b][1] \in Preds(b)
<1>1. b \in 1..(graph.count - 1)
  BY DEF IsGraph, Blocks
<1>2. graph.preds[b] \in Seq(Blocks) \ {<<>>}
  BY <1>1 DEF IsGraph, Blocks
<1>3. /\ Len(graph.preds[b]) \in Nat
      /\ Len(graph.preds[b]) # 0
      /\ \A i \in 1..Len(graph.preds[b]) : graph.preds[b][i] \in Blocks
  BY <1>2
<1>4. QED
  BY <1>2, <1>3 DEF Preds

(* The type invariant holds: the pass stays within the blocks of its graph *)
(* and never indexes a predecessor list that is not there.                 *)
THEOREM TypeCorrect == Spec => []TypeOK
<1>1. Init => TypeOK
  <2> SUFFICES ASSUME Init PROVE TypeOK
    OBVIOUS
  <2>1. IsGraph(graph)
    BY GraphsAssumption DEF Init, InitialDominators
  <2>2. graph.count \in Nat \ {0}
    BY <2>1 DEF IsGraph
  <2>3. 0 \in Blocks
    BY <2>2 DEF Blocks
  <2>4. dom \in [Blocks -> SUBSET Blocks]
    BY <2>3 DEF Init, InitialDominators
  <2>5. DOMAIN idom = {}
    BY DEF Init, InitialDominators
  <2>6. cur \in 1..graph.count
    BY <2>2 DEF Init, InitialDominators
  <2>7. k \in Nat \ {0} /\ intersect \subseteq Blocks /\ doms \subseteq Blocks
    BY DEF Init, InitialDominators
  <2>8. changed \in BOOLEAN
    BY DEF Init, InitialDominators
  <2>9. QED
    BY <2>1, <2>4, <2>5, <2>6, <2>7, <2>8 DEF Init, InitialDominators, TypeOK
<1>2. TypeOK /\ [Next]_vars => TypeOK'
  <2> SUFFICES ASSUME TypeOK, [Next]_vars
               PROVE  TypeOK'
    OBVIOUS
  <2>0. /\ graph' = graph
        /\ Blocks' = Blocks
        /\ graph.count \in Nat \ {0}
        /\ cur \in Nat \ {0}
    BY DEF TypeOK, IsGraph, Next, vars, Blocks, BeginBlock, MeetPred, Crash, EndBlock,
           NextRound, BeginIdom, BeginImm, DropDominator, EndImm, Finish
  <2>a. IsGraph(graph)'
    BY <2>0 DEF TypeOK, IsGraph
  <2>b. cur < graph.count => cur \in Blocks \ {0}
    BY <2>0 DEF Blocks
  <2>1. CASE BeginBlock
    <3>1. cur \in Blocks \ {0}
      BY <2>1, <2>b DEF BeginBlock
    <3>2. graph.preds[cur][1] \in Blocks
      BY <3>1, PredecessorIsBlock DEF TypeOK
    <3>3. intersect' \subseteq Blocks
      BY <2>1, <3>2 DEF BeginBlock, TypeOK
    <3>4. QED
      BY <2>0, <2>a, <2>1, <3>3 DEF BeginBlock, TypeOK
  <2>2. ASSUME NEW erased \in SUBSET intersect, MeetPred(erased)
        PROVE  TypeOK'
    BY <2>0, <2>a, <2>2 DEF MeetPred, TypeOK
  <2>3. CASE Crash
    BY <2>0, <2>a, <2>3 DEF Crash, TypeOK
  <2>4. CASE EndBlock
    <3>1. cur \in Blocks
      BY <2>4, <2>b DEF EndBlock, NewDominators, TypeOK
    <3>2. dom' \in [Blocks -> SUBSET Blocks] /\ changed' \in BOOLEAN
      <4> DEFINE new == intersect \cup {cur}
      <4>1. new \subseteq Blocks
        BY <3>1 DEF TypeOK
      <4>2. CASE dom[cur] \subseteq new
        BY <2>4, <4>2 DEF EndBlock, NewDominators, TypeOK
      <4>3. CASE ~ (dom[cur] \subseteq new)
        <5>1. dom' = [dom EXCEPT ![cur] = new] /\ changed' = TRUE
          BY <2>4, <4>3 DEF EndBlock, NewDominators
        <5>2. QED
          BY <4>1, <5>1 DEF TypeOK
      <4>4. QED
        BY <4>2, <4>3
    <3>3. cur' \in 1..graph.count
      BY <2>0, <2>4 DEF EndBlock, NewDominators, TypeOK
    <3>4. QED
      BY <2>0, <2>a, <2>4, <3>2, <3>3 DEF EndBlock, NewDominators, TypeOK
  <2>5. CASE NextRound
    <3>1. cur' \in 1..graph.count
      BY <2>0, <2>5 DEF NextRound
    <3>2. changed' \in BOOLEAN
      BY <2>5 DEF NextRound
    <3>3. QED
      BY <2>0, <2>a, <2>5, <3>1, <3>2 DEF NextRound, TypeOK
  <2>6. CASE BeginIdom
    <3>1. cur' \in 1..graph.count
      BY <2>0, <2>6 DEF BeginIdom
    <3>2. QED
      BY <2>0, <2>a, <2>6, <3>1 DEF BeginIdom, TypeOK
  <2>7. CASE BeginImm
    <3>1. doms' \subseteq Blocks
      BY <2>7, <2>b DEF BeginImm, TypeOK
    <3>2. QED
      BY <2>0, <2>a, <2>7, <3>1 DEF BeginImm, TypeOK
  <2>8. ASSUME NEW who \in doms, NEW by \in doms, DropDominator(who, by)
        PROVE  TypeOK'
    BY <2>0, <2>a, <2>8 DEF DropDominator, TypeOK
  <2>9. ASSUME NEW d \in doms, EndImm(d)
        PROVE  TypeOK'
    <3>1. cur \in Blocks /\ d \in Blocks
      BY <2>9, <2>b DEF EndImm, TypeOK
    <3>2. /\ DOMAIN idom' \subseteq Blocks
          /\ \A b \in DOMAIN idom' : idom'[b] \in Blocks
      BY <2>9, <3>1 DEF EndImm, TypeOK
    <3>3. cur' \in 1..graph.count
      BY <2>0, <2>9 DEF EndImm, TypeOK
    <3>4. QED
      BY <2>0, <2>a, <2>9, <3>2, <3>3 DEF EndImm, TypeOK
  <2>10. CASE Finish
    BY <2>0, <2>a, <2>10 DEF Finish, TypeOK
  <2>11. CASE UNCHANGED vars
    BY <2>0, <2>a, <2>11 DEF vars, TypeOK
  <2>12. QED
    BY <2>1, <2>2, <2>3, <2>4, <2>5, <2>6, <2>7, <2>8, <2>9, <2>10, <2>11
       DEF Next
<1>3. QED
  BY <1>1, <1>2, PTL DEF Spec

-----------------------------------------------------------------------------
(* What dominates a block dominates each of its predecessors, unless it is *)
(* the block itself.                                                       *)
LEMMA DominatesPredecessor ==
    ASSUME IsGraph(graph), NEW b \in Blocks, NEW d \in Blocks, d # b,
           Dominates(d, b)
    PROVE  /\ b # 0
           /\ \A p \in Preds(b) : Dominates(d, p)
<1>1. PICK S \in SUBSET (Blocks \ {0, d}) : b \in S /\ Guarded(S, d)
  BY DEF Dominates
<1>2. b # 0
  BY <1>1
<1>3. \A p \in Preds(b) : p \in S \/ p = d
  BY <1>1 DEF Guarded
<1>4. QED
  BY <1>1, <1>2, <1>3 DEF Dominates

(* The strengthening of DominatorsKept: while a block of a round is met    *)
(* with its predecessors, the working set has all its dominators but       *)
(* itself.  It is what makes the last step of a block keep the invariant.  *)
MeetKept ==
    pc = "meet" =>
        \A d \in Blocks \ {cur} : Dominates(d, cur) => d \in intersect

Kept == DominatorsKept /\ MeetKept

(* Whatever erasing while iterating does, short of a crash, no dominator   *)
(* of a block is ever missing from its set: the sets err on one side only. *)
THEOREM DominatorsNeverLost == Spec => []DominatorsKept
<1>1. TypeOK /\ Init => Kept
  <2> SUFFICES ASSUME TypeOK, Init
               PROVE  Kept
    OBVIOUS
  <2>1. ASSUME NEW b \in Blocks, NEW d \in Blocks, Dominates(d, b)
        PROVE  d \in dom[b]
    <3>1. b = 0 => d = 0
      BY <2>1, DominatesPredecessor DEF TypeOK
    <3>2. QED
      BY <3>1 DEF Init, InitialDominators
  <2>2. QED
    BY <2>1 DEF Kept, DominatorsKept, MeetKept, Init, InitialDominators
<1>2. TypeOK /\ TypeOK' /\ Kept /\ [Next]_vars => Kept'
  <2> SUFFICES ASSUME TypeOK, TypeOK', Kept, [Next]_vars
               PROVE  Kept'
    OBVIOUS
  <2>0. /\ graph' = graph
        /\ Blocks' = Blocks
        /\ \A d, b : Dominates(d, b)' <=> Dominates(d, b)
    BY DEF Next, vars, Blocks, BeginBlock, MeetPred, Crash, EndBlock, NextRound,
           BeginIdom, BeginImm, DropDominator, EndImm, Finish, Dominates,
           Guarded, Preds
  <2>1. CASE BeginBlock
    <3>1. cur \in Blocks \ {0}
      BY <2>1 DEF BeginBlock, TypeOK, IsGraph, Blocks
    <3>2. graph.preds[cur][1] \in Preds(cur) /\ Preds(cur) \subseteq Blocks
      BY <3>1, PredecessorIsBlock DEF TypeOK
    <3>3. ASSUME NEW d \in Blocks \ {cur}, Dominates(d, cur)
          PROVE  d \in dom[graph.preds[cur][1]]
      BY <3>1, <3>2, <3>3, DominatesPredecessor DEF Kept, DominatorsKept, TypeOK
    <3>4. DominatorsKept'
      BY <2>0, <2>1 DEF BeginBlock, Kept, DominatorsKept
    <3>5. MeetKept'
      BY <2>0, <2>1, <3>3 DEF BeginBlock, MeetKept
    <3>6. QED
      BY <3>4, <3>5 DEF Kept
  <2>2. ASSUME NEW erased \in SUBSET intersect, MeetPred(erased)
        PROVE  Kept'
    <3>1. cur \in Blocks \ {0}
      BY <2>2 DEF MeetPred, TypeOK, IsGraph, Blocks
    <3>2. graph.preds[cur][k] \in Preds(cur) /\ Preds(cur) \subseteq Blocks
      BY <2>2, <3>1, PredecessorIsBlock DEF MeetPred, TypeOK, Preds
    <3>3. erased \subseteq Missing
      BY <2>2 DEF MeetPred, Erasures
    <3>4. ASSUME NEW d \in Blocks \ {cur}, Dominates(d, cur)
          PROVE  d \in intersect \ erased
      <4>1. d \in dom[graph.preds[cur][k]]
        BY <3>1, <3>2, <3>4, DominatesPredecessor
           DEF Kept, DominatorsKept, TypeOK
      <4>2. d \in intersect
        BY <2>2, <3>4 DEF MeetPred, Kept, MeetKept
      <4>3. QED
        BY <3>3, <4>1, <4>2 DEF Missing
    <3>5. DominatorsKept'
      BY <2>0, <2>2 DEF MeetPred, Kept, DominatorsKept
    <3>6. MeetKept'
      BY <2>0, <2>2, <3>4 DEF MeetPred, MeetKept
    <3>7. QED
      BY <3>5, <3>6 DEF Kept
  <2>3. CASE EndBlock
    <3>1. \A d \in Blocks : Dominates(d, cur) => d \in intersect \cup {cur}
      BY <2>3 DEF EndBlock, NewDominators, Kept, MeetKept
    <3>2. dom' = dom \/ dom' = [dom EXCEPT ![cur] = intersect \cup {cur}]
      BY <2>3 DEF EndBlock, NewDominators
    <3>3. \A b, d \in Blocks : Dominates(d, b) => d \in dom'[b]
      BY <3>1, <3>2 DEF Kept, DominatorsKept, TypeOK
    <3>4. MeetKept'
      BY <2>3 DEF EndBlock, NewDominators, MeetKept
    <3>5. QED
      BY <2>0, <3>3, <3>4 DEF Kept, DominatorsKept
  <2>4. ASSUME pc' # "meet", dom' = dom
        PROVE  Kept'
    BY <2>0, <2>4 DEF Kept, DominatorsKept, MeetKept
  <2>5. CASE UNCHANGED vars
    BY <2>0, <2>5 DEF vars, Kept, DominatorsKept, MeetKept
  <2>6. Next => \/ BeginBlock
                \/ \E erased \in SUBSET intersect : MeetPred(erased)
                \/ EndBlock
                \/ pc' # "meet" /\ dom' = dom
    BY DEF Next, Crash, NextRound, BeginIdom, BeginImm, DropDominator, EndImm,
           Finish
  <2>7. QED
    BY <2>1, <2>2, <2>3, <2>4, <2>5, <2>6
<1>3. Kept => DominatorsKept
  BY DEF Kept
<1>4. QED
  BY <1>1, <1>2, <1>3, TypeCorrect, PTL DEF Spec

-----------------------------------------------------------------------------
(* A block's set is settled when no element but the block itself is        *)
(* missing from a predecessor's set.                                       *)
Settled(b) == \A p \in Preds(b) : dom[b] \subseteq dom[p] \cup {b}

(* The loop invariants of computeDominators in a round without early ends  *)
(* so far, whatever happened in the rounds before: the working set is in   *)
(* the sets of the predecessors met so far; if the round has changed       *)
(* nothing yet, the blocks passed are settled; and when the rounds are     *)
(* over, all are.                                                          *)
MeetExact ==
    pc = "meet" /\ ~ cut =>
        \A i \in 1..(k - 1) : i <= Len(graph.preds[cur]) =>
            intersect \subseteq dom[graph.preds[cur][i]]

RoundSettled ==
    pc \in {"round", "meet"} /\ ~ changed /\ ~ cut =>
        \A b \in Blocks \ {0} : b < cur => Settled(b)

EndSettled ==
    pc \in {"idom", "prune", "done"} /\ ~ cut => \A b \in Blocks \ {0} : Settled(b)

Exact == dom[0] = {0} /\ MeetExact /\ RoundSettled /\ EndSettled

(* If all blocks are settled, the sets hold dominators only.               *)
LEMMA SettledIsDominated ==
    ASSUME TypeOK, dom[0] = {0}, \A b \in Blocks \ {0} : Settled(b)
    PROVE  \A b \in Blocks : \A d \in dom[b] : Dominates(d, b)
<1> SUFFICES ASSUME NEW b \in Blocks, NEW d \in dom[b], d # b
             PROVE  Dominates(d, b)
  BY DEF Dominates
<1> DEFINE S == { x \in Blocks : d \in dom[x] /\ x # d }
<1>1. b \in S
  OBVIOUS
<1>2. 0 \notin S
  OBVIOUS
<1>3. ASSUME NEW x \in S, NEW p \in Preds(x)
      PROVE  p \in S \cup {d}
  <2>1. x \in Blocks \ {0}
    BY <1>2
  <2>2. p \in Blocks
    BY <1>3, <2>1, PredecessorIsBlock DEF TypeOK
  <2>3. d \in dom[p]
    BY <1>3, <2>1 DEF Settled
  <2>4. QED
    BY <2>2, <2>3
<1>4. S \in SUBSET (Blocks \ {0, d}) /\ Guarded(S, d)
  BY <1>2, <1>3 DEF Guarded
<1>5. QED
  BY <1>1, <1>4 DEF Dominates

(* For every outcome of the erasures: if no erasing loop of the last round *)
(* ended early, computeDominators leaves dominators only.  Together with   *)
(* DominatorsNeverLost, the sets are exact then. *)
THEOREM NonDominatorsEliminated == Spec => []OnlyDominators
<1>1. TypeOK /\ Init => Exact
  BY DEF Init, InitialDominators, TypeOK, IsGraph, Blocks, Exact, MeetExact, RoundSettled, EndSettled
<1>2. TypeOK /\ TypeOK' /\ Exact /\ [Next]_vars => Exact'
  <2> SUFFICES ASSUME TypeOK, TypeOK', Exact, [Next]_vars
               PROVE  Exact'
    OBVIOUS
  <2>0. graph' = graph /\ Blocks' = Blocks /\ \A b : Preds(b)' = Preds(b)
    BY DEF Next, vars, Blocks, Preds, BeginBlock, MeetPred, Crash, EndBlock, NextRound,
           BeginIdom, BeginImm, DropDominator, EndImm, Finish
  <2>a. dom' = dom => \A b : Settled(b)' <=> Settled(b)
    BY <2>0 DEF Settled
  <2>1. CASE BeginBlock
    BY <2>0, <2>a, <2>1
       DEF BeginBlock, TypeOK, Exact, MeetExact, RoundSettled, EndSettled
  <2>2. ASSUME NEW erased \in SUBSET intersect, MeetPred(erased)
        PROVE  Exact'
    <3>1. ~ cut' => ~ cut /\ erased = Missing
      BY <2>2 DEF MeetPred
    <3>2. intersect' \subseteq intersect
          /\ (~ cut' => intersect' \subseteq dom[graph.preds[cur][k]])
      BY <2>2, <3>1 DEF MeetPred, Missing
    <3>3. MeetExact'
      BY <2>0, <2>2, <3>1, <3>2 DEF MeetPred, TypeOK, Exact, MeetExact
    <3>4. QED
      BY <2>0, <2>a, <2>2, <3>1, <3>3 DEF MeetPred, Exact, RoundSettled, EndSettled
  <2>3. CASE EndBlock
    <3>1. /\ cur \in Blocks \ {0}
          /\ ~ cut => \A p \in Preds(cur) : intersect \subseteq dom[p]
          /\ cut' = cut
      <4>1. pc = "meet" /\ k > Len(graph.preds[cur])
        BY <2>3 DEF EndBlock
      <4>2. cur \in Blocks \ {0}
        BY <4>1 DEF TypeOK, IsGraph, Blocks
      <4>3. Len(graph.preds[cur]) \in Nat /\ k \in Nat
        BY <4>2, PredecessorIsBlock DEF TypeOK
      <4>4. \A i \in 1..Len(graph.preds[cur]) :
               i \in 1..(k - 1) /\ i <= Len(graph.preds[cur])
        BY <4>1, <4>3
      <4>5. ~ cut => \A i \in 1..Len(graph.preds[cur]) :
                        intersect \subseteq dom[graph.preds[cur][i]]
        BY <4>1, <4>4 DEF Exact, MeetExact
      <4>6. QED
        BY <2>3, <4>2, <4>5 DEF Preds, EndBlock
    <3>2. CASE dom[cur] \subseteq intersect \cup {cur}
      <4>1. dom' = dom /\ changed' = changed
        BY <2>3, <3>2 DEF EndBlock, NewDominators
      <4>2. ~ cut => Settled(cur)
        BY <3>1, <3>2 DEF Settled
      <4>3. \A b \in Blocks \ {0} : b < cur' => b < cur \/ b = cur
        BY <2>3 DEF EndBlock, NewDominators, TypeOK, IsGraph, Blocks
      <4>4. RoundSettled'
        BY <2>0, <2>a, <2>3, <3>1, <4>1, <4>2, <4>3 DEF EndBlock, NewDominators, Exact, RoundSettled
      <4>5. QED
        BY <2>3, <4>1, <4>4 DEF EndBlock, NewDominators, Exact, MeetExact, EndSettled
    <3>3. CASE ~ (dom[cur] \subseteq intersect \cup {cur})
      <4>1. changed' = TRUE /\ dom' = [dom EXCEPT ![cur] = intersect \cup {cur}]
        BY <2>3, <3>3 DEF EndBlock, NewDominators
      <4>2. dom'[0] = {0}
        BY <3>1, <4>1 DEF Exact, TypeOK
      <4>3. QED
        BY <2>3, <4>1, <4>2 DEF EndBlock, NewDominators, Exact, MeetExact, RoundSettled, EndSettled
    <3>4. QED
      BY <3>2, <3>3
  <2>4. CASE NextRound
    BY <2>0, <2>4 DEF NextRound, TypeOK, IsGraph, Blocks, Exact, MeetExact,
       RoundSettled, EndSettled
  <2>5. CASE BeginIdom
    <3>1. \A b \in Blocks \ {0} : b < cur
      BY <2>5 DEF BeginIdom, TypeOK, IsGraph, Blocks
    <3>2. ~ cut => \A b \in Blocks \ {0} : Settled(b)
      BY <2>5, <3>1 DEF BeginIdom, Exact, RoundSettled
    <3>3. QED
      BY <2>0, <2>a, <2>5, <3>2
         DEF BeginIdom, Exact, MeetExact, RoundSettled, EndSettled
  <2> DEFINE After == /\ dom' = dom /\ cut' = cut /\ pc \in {"meet", "idom", "prune"}
                      /\ \/ pc' = "crashed"
                         \/ pc # "meet" /\ pc' \in {"idom", "prune", "done"}
  <2>6. CASE After
    BY <2>0, <2>a, <2>6 DEF Exact, MeetExact, RoundSettled, EndSettled
  <2>7. CASE UNCHANGED vars
    BY <2>0, <2>a, <2>7 DEF vars, Exact, MeetExact, RoundSettled, EndSettled
  <2>8. Next => \/ BeginBlock
                \/ \E erased \in SUBSET intersect : MeetPred(erased)
                \/ EndBlock \/ NextRound \/ BeginIdom \/ After
    BY DEF Next, Crash, BeginImm, DropDominator, EndImm, Finish
  <2> HIDE DEF After
  <2>9. QED
    BY <2>1, <2>2, <2>3, <2>4, <2>5, <2>6, <2>7, <2>8
<1>3. TypeOK /\ Exact => OnlyDominators
  BY SettledIsDominated DEF Exact, EndSettled, OnlyDominators
<1>4. QED
  BY <1>1, <1>2, <1>3, TypeCorrect, PTL DEF Spec

-----------------------------------------------------------------------------
(* A dominator of a dominator is a dominator. *)
LEMMA DominatesTransitive ==
    ASSUME IsGraph(graph), NEW b \in Blocks, NEW d \in Blocks, NEW e \in Blocks,
           Dominates(e, d), Dominates(d, b)
    PROVE  Dominates(e, b)
<1>1. CASE e = d \/ d = b \/ e = b
  BY <1>1 DEF Dominates
<1>2. CASE e # d /\ d # b /\ e # b
  <2>1. PICK S \in SUBSET (Blocks \ {0, e}) : d \in S /\ Guarded(S, e)
    BY <1>2 DEF Dominates
  <2>2. PICK T \in SUBSET (Blocks \ {0, d}) : b \in T /\ Guarded(T, d)
    BY <1>2 DEF Dominates
  <2> DEFINE U == (S \cup T) \ {e}
  <2>3. U \in SUBSET (Blocks \ {0, e}) /\ b \in U
    BY <1>2, <2>1, <2>2
  <2>4. ASSUME NEW u \in U PROVE Preds(u) \subseteq U \cup {e}
    <3>1. u \in S \/ u \in T
      BY <2>4
    <3>2. Preds(u) \subseteq S \cup {e} \/ Preds(u) \subseteq T \cup {d}
      BY <2>1, <2>2, <3>1 DEF Guarded
    <3>3. QED
      BY <2>1, <3>2
  <2>5. Guarded(U, e)
    BY <2>3, <2>4 DEF Guarded
  <2> HIDE DEF U
  <2>6. QED
    BY <2>3, <2>5 DEF Dominates
<1>3. QED
  BY <1>1, <1>2

(* The sets are exact once the rounds are over, if no loop of the last one *)
(* ended early, so they are transitive. *)
LEMMA SetsTransitive ==
    ASSUME TypeOK, DominatorsKept, OnlyDominators, pc \in {"idom", "prune", "done"},
           ~ cut, NEW b \in Blocks, NEW d \in dom[b]
    PROVE  b \in dom[b] /\ dom[d] \subseteq dom[b]
<1>1. IsGraph(graph) /\ d \in Blocks /\ dom[d] \subseteq Blocks
  BY DEF TypeOK
<1>2. b \in dom[b]
  BY DEF DominatorsKept, Dominates
<1>3. ASSUME NEW e \in dom[d] PROVE e \in dom[b]
  <2>1. e \in Blocks /\ Dominates(e, d) /\ Dominates(d, b)
    BY <1>1 DEF OnlyDominators
  <2>2. Dominates(e, b)
    BY <1>1, <2>1, DominatesTransitive
  <2>3. QED
    BY <2>1, <2>2 DEF DominatorsKept
<1>4. QED
  BY <1>2, <1>3

(* The loop invariants of computeImmDominator, in terms of the sets: what  *)
(* is left in the list of a block are strict dominators, and every strict  *)
(* dominator dominates one of them; the blocks passed have an idom that    *)
(* all their strict dominators dominate.                                   *)
ListCovers ==
    pc = "prune" /\ ~ cut =>
        /\ doms \subseteq dom[cur] \ {cur}
        /\ \A e \in dom[cur] \ {cur} : \E x \in doms : e \in dom[x]

Immediate(b) ==
    /\ b \in DOMAIN idom
    /\ idom[b] \in dom[b] \ {b}
    /\ dom[b] \ {b} \subseteq dom[idom[b]]

PassedImmediate ==
    /\ pc \in {"idom", "prune", "done"} /\ ~ cut =>
          \A b \in Blocks \ {0} : b < cur => Immediate(b)
    /\ pc = "done" => cur = graph.count

ImmediateFound == ListCovers /\ PassedImmediate

(* For every outcome of the erasures: if no erasing loop of the last round *)
(* ended early, the idom a block gets is its immediate dominator,          *)
(* whichever pairs of its list are compared and in whatever order they are *)
(* dropped. *)
THEOREM ImmediateIsFound == Spec => []IdomIsImmediate
<1> DEFINE Sets == TypeOK /\ DominatorsKept /\ OnlyDominators
<1>1. Init => ImmediateFound
  BY DEF Init, ImmediateFound, ListCovers, PassedImmediate
<1>2. Sets /\ TypeOK' /\ ImmediateFound /\ [Next]_vars => ImmediateFound'
  <2> SUFFICES ASSUME Sets, TypeOK', ImmediateFound, [Next]_vars
               PROVE  ImmediateFound'
    OBVIOUS
  <2>0. /\ graph' = graph /\ Blocks' = Blocks
        /\ \A b \in Blocks : b \in Nat
        /\ cur \in Nat
    BY DEF Next, vars, Blocks, BeginBlock, MeetPred, Crash, EndBlock, NextRound,
           BeginIdom, BeginImm, DropDominator, EndImm, Finish, TypeOK
  <2>1. CASE BeginIdom
    <3>1. pc' = "idom" /\ cur' = 1
      BY <2>1 DEF BeginIdom
    <3>2. \A b \in Blocks \ {0} : ~ (b < cur')
      BY <2>0, <3>1
    <3>3. QED
      BY <2>0, <3>1, <3>2 DEF ImmediateFound, ListCovers, PassedImmediate
  <2>2. CASE BeginImm
    <3>1. /\ pc = "idom" /\ pc' = "prune" /\ cur < graph.count
          /\ doms' = dom[cur] \ {cur}
          /\ UNCHANGED <<cur, cut, dom, idom>>
      BY <2>2 DEF BeginImm
    <3>2. cur \in Blocks
      BY <3>1 DEF TypeOK, IsGraph, Blocks
    <3>3. \A e \in dom[cur] : e \in Blocks /\ e \in dom[e]
      BY <3>1, <3>2 DEF TypeOK, DominatorsKept, Dominates
    <3>4. ListCovers'
      BY <3>1, <3>3 DEF ListCovers
    <3>5. PassedImmediate'
      BY <2>0, <3>1 DEF ImmediateFound, PassedImmediate, Immediate
    <3>6. QED
      BY <3>4, <3>5 DEF ImmediateFound
  <2>3. ASSUME NEW who \in doms, NEW by \in doms, DropDominator(who, by)
        PROVE  ImmediateFound'
    <3>1. /\ pc = "prune" /\ pc' = pc /\ who # by /\ by \in dom[who]
          /\ doms' = doms \ {by}
          /\ UNCHANGED <<cur, cut, dom, idom>>
      BY <2>3 DEF DropDominator, DominatedBy
    <3>2. who \in Blocks /\ who \in doms'
      BY <3>1 DEF TypeOK
    <3>3. ~ cut => dom[by] \subseteq dom[who]
      BY <3>1, <3>2, SetsTransitive
    <3>4. ~ cut => \A e \in dom[cur] \ {cur} : \E x \in doms' : e \in dom[x]
      <4> HAVE ~ cut
      <4>1. TAKE e \in dom[cur] \ {cur}
      <4>2. PICK x \in doms : e \in dom[x]
        BY <3>1 DEF ImmediateFound, ListCovers
      <4>3. x \in doms' \/ e \in dom[who]
        BY <3>1, <3>3, <4>2
      <4>4. QED
        BY <3>2, <4>2, <4>3
    <3>5. ListCovers'
      BY <3>1, <3>4 DEF ImmediateFound, ListCovers
    <3>6. PassedImmediate'
      BY <2>0, <3>1 DEF ImmediateFound, PassedImmediate, Immediate
    <3>7. QED
      BY <3>5, <3>6 DEF ImmediateFound
  <2>4. ASSUME NEW d \in doms, EndImm(d)
        PROVE  ImmediateFound'
    <3>1. /\ pc = "prune" /\ pc' = "idom" /\ cur' = cur + 1 /\ doms = {d}
          /\ idom' = [b \in DOMAIN idom \cup {cur} |-> IF b = cur THEN d ELSE idom[b]]
          /\ dom' = dom /\ cut' = cut
      BY <2>4 DEF EndImm
    <3>2. ~ cut => d \in dom[cur] \ {cur} /\ dom[cur] \ {cur} \subseteq dom[d]
      BY <3>1 DEF ImmediateFound, ListCovers
    <3>3. \A b \in Blocks \ {0} : b < cur' => b = cur \/ b < cur
      BY <2>0, <3>1
    <3>4. ~ cut => \A b \in Blocks \ {0} : b < cur' => Immediate(b)'
      <4> SUFFICES ASSUME ~ cut, NEW b \in Blocks \ {0}, b < cur' PROVE Immediate(b)'
        OBVIOUS
      <4>1. CASE b = cur
        BY <3>1, <3>2, <4>1 DEF Immediate
      <4>2. CASE b # cur
        <5>1. Immediate(b)
          BY <3>1, <3>3, <4>2 DEF ImmediateFound, PassedImmediate
        <5>2. b \in DOMAIN idom' /\ idom'[b] = idom[b]
          BY <3>1, <4>2, <5>1 DEF Immediate
        <5>3. QED
          BY <3>1, <5>1, <5>2 DEF Immediate
      <4>3. QED
        BY <4>1, <4>2
    <3>5. QED
      BY <2>0, <3>1, <3>4 DEF ImmediateFound, ListCovers, PassedImmediate
  <2>5. CASE Finish
    BY <2>0, <2>5 DEF Finish, ImmediateFound, ListCovers, PassedImmediate, Immediate
  <2>6. CASE pc' \in {"round", "meet", "crashed"}
    BY <2>6 DEF ImmediateFound, ListCovers, PassedImmediate
  <2>7. CASE UNCHANGED vars
    BY <2>0, <2>7 DEF vars, ImmediateFound, ListCovers, PassedImmediate, Immediate
  <2>8. Next => \/ BeginIdom \/ BeginImm
                \/ \E who, by \in doms : DropDominator(who, by)
                \/ \E d \in doms : EndImm(d)
                \/ Finish
                \/ pc' \in {"round", "meet", "crashed"}
    BY DEF Next, BeginBlock, MeetPred, Crash, EndBlock, NextRound
  <2>9. QED
    BY <2>1, <2>2, <2>3, <2>4, <2>5, <2>6, <2>7, <2>8
<1>3. Sets /\ ImmediateFound => IdomIsImmediate
  <2> SUFFICES ASSUME Sets, ImmediateFound, pc = "done", ~ cut, NEW b \in Blocks \ {0}
               PROVE  /\ b \in DOMAIN idom
                      /\ idom[b] # b /\ Dominates(idom[b], b)
                      /\ \A d \in Blocks \ {b} : Dominates(d, b) => Dominates(d, idom[b])
    BY DEF IdomIsImmediate
  <2>1. b < cur
    BY DEF ImmediateFound, PassedImmediate, TypeOK, IsGraph, Blocks
  <2>2. Immediate(b)
    BY <2>1 DEF ImmediateFound, PassedImmediate
  <2>3. idom[b] \in Blocks /\ idom[b] # b /\ Dominates(idom[b], b)
    BY <2>2 DEF Immediate, OnlyDominators, TypeOK
  <2>4. ASSUME NEW d \in Blocks \ {b}, Dominates(d, b) PROVE Dominates(d, idom[b])
    <3>1. d \in dom[idom[b]]
      BY <2>2, <2>4 DEF Immediate, DominatorsKept
    <3>2. QED
      BY <2>3, <3>1 DEF OnlyDominators
  <2>5. QED
    BY <2>2, <2>3, <2>4 DEF Immediate
<1>4. Spec => []Sets
  BY TypeCorrect, DominatorsNeverLost, NonDominatorsEliminated, PTL
<1> HIDE DEF Sets
<1>5. Sets => TypeOK
  BY DEF Sets
<1>6. QED
  BY <1>1, <1>2, <1>3, <1>4, <1>5, PTL DEF Spec
=============================================================================
