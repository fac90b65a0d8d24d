------------------------- MODULE DominatorAnalysis --------------------------
(***************************************************************************)
(* Pass DominatorAnalysis.  computeDominators starts from "everything      *)
(* dominates everything" and shrinks the sets in rounds over the blocks    *)
(* until a round changes nothing; computeImmDominator then drops from the  *)
(* strict dominators of a block every one that dominates another, until    *)
(* one is left.                                                            *)
(*                                                                         *)
(* A step is one iteration of the loop the pass is in: a block of a round, *)
(* a predecessor of that block, or one dropped dominator.  Lists that are  *)
(* filled from an unordered_set are sets here, so which pair of them is    *)
(* compared first is arbitrary.                                            *)
(***************************************************************************)
EXTENDS Integers, Sequences, FiniteSets

CONSTANTS
    Graphs,        \* the flow graphs analysed
    EraseOutcomes  \* what erasing from the set that is iterated over does

(* A graph has blocks 0 (the start) to count - 1 and the predecessor list  *)
(* of each.  Every block but the start has one; the code does not check    *)
(* this and dereferences the first.                                        *)
IsGraph(g) ==
    /\ g.count \in Nat \ {0}
    /\ g.preds \in [1..(g.count - 1) -> Seq(0..(g.count - 1)) \ {<<>>}]

ASSUME GraphsAssumption == \A g \in Graphs : IsGraph(g)

(* The range-for over intersect erases the element it stands on, which     *)
(* invalidates its iterator: the loop may go on as if nothing had          *)
(* happened, end early, or crash.                                          *)
ASSUME EraseOutcomesAssumption ==
    EraseOutcomes \subseteq {"continue", "stop", "crash"}

VARIABLES
    pc,         \* the part of run() in progress
    graph,      \* the flow graph
    cur,        \* the block the loop is at
    k,          \* the next predecessor of it to intersect with
    intersect,  \* the local set intersect
    changed,    \* a set changed in this round
    cut,        \* history: an erasing loop ended early in this round
    dom,        \* BasicBlock::dominators() of every block
    idom,       \* BasicBlock::idom() of the blocks that have one
    doms        \* the local list doms of computeImmDominator

vars == <<pc, graph, cur, k, intersect, changed, cut, dom, idom, doms>>

Blocks == 0..(graph.count - 1)
Preds(b) == { graph.preds[b][i] : i \in 1..Len(graph.preds[b]) }

-----------------------------------------------------------------------------
InitialDominators(b) == IF b = 0 THEN {0} ELSE Blocks

(* run() clears idom and the dominators and fills the latter. *)
Init ==
    /\ pc = "round"
    /\ graph \in Graphs
    /\ cur = 1
    /\ k = 1
    /\ intersect = {}
    /\ changed = FALSE
    /\ cut = FALSE
    /\ dom = [b \in Blocks |-> InitialDominators(b)]
    /\ idom = <<>>
    /\ doms = {}

(* A block of a round begins with the set of its first predecessor ... *)
BeginBlock ==
    /\ pc = "round"
    /\ cur < graph.count
    /\ pc' = "meet"
    /\ intersect' = dom[graph.preds[cur][1]]
    /\ k' = 2
    /\ UNCHANGED <<graph, cur, changed, cut, dom, idom, doms>>

(* Mutant: the set is compared with the first predecessor's again. *)
MissingFirst == intersect \ dom[graph.preds[cur][1]]

(* What the k-th predecessor does not have, and the sets the loop may have *)
(* erased when it is over.                                                 *)
Missing == intersect \ dom[graph.preds[cur][k]]

Erasures ==
    (IF "continue" \in EraseOutcomes \/ Missing = {} THEN {Missing} ELSE {})
    \cup (IF "stop" \in EraseOutcomes THEN SUBSET Missing \ {{}} ELSE {})

(* ... loses what another predecessor does not have ... *)
MeetPred(erased) ==
    /\ pc = "meet"
    /\ k <= Len(graph.preds[cur])
    /\ erased \in Erasures
    /\ intersect' = intersect \ erased
    /\ cut' = (cut \/ erased # Missing)
    /\ k' = k + 1
    /\ UNCHANGED <<pc, graph, cur, changed, dom, idom, doms>>

Crash ==
    /\ pc = "meet"
    /\ k <= Len(graph.preds[cur])
    /\ Missing # {} /\ "crash" \in EraseOutcomes
    /\ pc' = "crashed"
    /\ UNCHANGED <<graph, cur, k, intersect, changed, cut, dom, idom, doms>>

(* Mutant: a block does not dominate itself. *)
NewDominatorsStrict == intersect

NewDominators == intersect \cup {cur}

(* ... and is taken over, with the block itself, if the block has a        *)
(* dominator that is not in it.                                            *)
EndBlock ==
    /\ pc = "meet"
    /\ k > Len(graph.preds[cur])
    /\ IF dom[cur] \subseteq NewDominators
       THEN UNCHANGED <<dom, changed>>
       ELSE dom' = [dom EXCEPT ![cur] = NewDominators] /\ changed' = TRUE
    /\ pc' = "round"
    /\ cur' = cur + 1
    /\ UNCHANGED <<graph, k, intersect, cut, idom, doms>>

(* Mutant: the next round begins with the start block. *)
NextRoundAtStart ==
    /\ pc = "round"
    /\ cur = graph.count
    /\ changed
    /\ cur' = 0
    /\ changed' = FALSE
    /\ cut' = FALSE
    /\ UNCHANGED <<pc, graph, k, intersect, dom, idom, doms>>

(* Mutant: the flag is not reset. *)
NextRoundSticky ==
    /\ pc = "round"
    /\ cur = graph.count
    /\ changed
    /\ cur' = 1
    /\ cut' = FALSE
    /\ UNCHANGED <<pc, graph, k, intersect, changed, dom, idom, doms>>

NextRound ==
    /\ pc = "round"
    /\ cur = graph.count
    /\ changed
    /\ cur' = 1
    /\ changed' = FALSE
    /\ cut' = FALSE
    /\ UNCHANGED <<pc, graph, k, intersect, dom, idom, doms>>

(* Entry of computeImmDominator, which begins after the start block. *)
BeginIdom ==
    /\ pc = "round"
    /\ cur = graph.count
    /\ ~ changed
    /\ pc' = "idom"
    /\ cur' = 1
    /\ UNCHANGED <<graph, k, intersect, changed, cut, dom, idom, doms>>

(* A block's list begins with its dominators but itself ... *)
BeginImm ==
    /\ pc = "idom"
    /\ cur < graph.count
    /\ pc' = "prune"
    /\ doms' = dom[cur] \ {cur}
    /\ UNCHANGED <<graph, cur, k, intersect, changed, cut, dom, idom>>

(* Mutant: the wrong one of the two is dropped. *)
DominatedBySwapped(who, by) == who \in dom[by]

DominatedBy(who, by) == by \in dom[who]

(* ... loses one that dominates another ... *)
DropDominator(who, by) ==
    /\ pc = "prune"
    /\ who # by
    /\ DominatedBy(who, by)
    /\ doms' = doms \ {by}
    /\ UNCHANGED <<pc, graph, cur, k, intersect, changed, cut, dom, idom>>

(* ... and is done with when one is left.  A list that has not one element *)
(* and nothing to drop keeps the while loop spinning: no step is enabled.  *)
EndImm(d) ==
    /\ pc = "prune"
    /\ doms = {d}
    /\ idom' = [b \in DOMAIN idom \cup {cur} |-> IF b = cur THEN d ELSE idom[b]]
    /\ pc' = "idom"
    /\ cur' = cur + 1
    /\ UNCHANGED <<graph, k, intersect, changed, cut, dom, doms>>

Finish ==
    /\ pc = "idom"
    /\ cur = graph.count
    /\ pc' = "done"
    /\ UNCHANGED <<graph, cur, k, intersect, changed, cut, dom, idom, doms>>

Next ==
    \/ BeginBlock
    \/ \E erased \in SUBSET intersect : MeetPred(erased)
    \/ Crash
    \/ EndBlock
    \/ NextRound
    \/ BeginIdom
    \/ BeginImm
    \/ \E who, by \in doms : DropDominator(who, by)
    \/ \E d \in doms : EndImm(d)
    \/ Finish

Spec == Init /\ [][Next]_vars

(* One thread, which does not stop in the middle. *)
FairSpec == Spec /\ WF_vars(Next)

-----------------------------------------------------------------------------
(* The type invariant. *)
TypeOK ==
    /\ pc \in {"round", "meet", "crashed", "idom", "prune", "done"}
    /\ IsGraph(graph)
    /\ cur \in 1..graph.count
    /\ pc \in {"meet", "prune"} => cur < graph.count
    /\ k \in Nat \ {0}
    /\ intersect \subseteq Blocks
    /\ changed \in BOOLEAN
    /\ cut \in BOOLEAN
    /\ dom \in [Blocks -> SUBSET Blocks]
    /\ DOMAIN idom \subseteq Blocks
    /\ \A b \in DOMAIN idom : idom[b] \in Blocks
    /\ doms \subseteq Blocks

(* S is a set of blocks that can only be entered through d. *)
Guarded(S, d) == 0 \notin S /\ \A s \in S : Preds(s) \subseteq S \cup {d}

(* d dominates b: no path from the start reaches b without passing d. *)
Dominates(d, b) ==
    d = b \/ \E S \in SUBSET (Blocks \ {0, d}) : b \in S /\ Guarded(S, d)

(* No dominator is ever lost: whatever the erasures do, the set of a block *)
(* contains all blocks that dominate it, at every moment.                  *)
DominatorsKept == \A b, d \in Blocks : Dominates(d, b) => d \in dom[b]

(* When computeDominators is over, the sets hold dominators only: it did   *)
(* "iteratively eliminate nodes that are not dominators", whatever earlier *)
(* rounds missed, unless an erasing loop of the last round ended early.    *)
OnlyDominators ==
    pc \in {"idom", "prune", "done"} /\ ~ cut =>
        \A b \in Blocks : \A d \in dom[b] : Dominates(d, b)

Reachable(b) == ~ \E S \in SUBSET (Blocks \ {0}) :
                      b \in S /\ \A s \in S : Preds(s) \subseteq S

(* The immediate dominator found for a block that can be reached is a      *)
(* strict dominator of it and is dominated by every other one, although it *)
(* is found by dropping elements in an arbitrary order; again unless an    *)
(* erasing loop of the last round ended early.                             *)
IdomIsImmediate ==
    pc = "done" /\ ~ cut =>
        \A b \in Blocks \ {0} : Reachable(b) =>
            /\ b \in DOMAIN idom
            /\ idom[b] # b /\ Dominates(idom[b], b)
            /\ \A d \in Blocks \ {b} : Dominates(d, b) => Dominates(d, idom[b])

(* The pass ends, or crashes, on every graph whose blocks can all be       *)
(* reached, however many rounds had an erasing loop that ended early, as   *)
(* long as there are rounds without from some moment on: the rounds stop,  *)
(* and the search for the immediate dominator never sits on two dominators *)
(* of which neither dominates the other.                                   *)
Terminates ==
    (\A b \in Blocks : Reachable(b)) /\ <>[](~ cut) => <>(pc \in {"done", "crashed"})
=============================================================================
