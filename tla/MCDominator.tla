---------------------------- MODULE MCDominator -----------------------------
(***************************************************************************)
(* Instances of DominatorAnalysis: all graphs of a start block, Real real  *)
(* blocks with one or two successors each, and an end block, such that     *)
(* every block but the start has a predecessor.                            *)
(***************************************************************************)
EXTENDS DominatorAnalysis, SequencesExt

CONSTANT Real

End == Real + 1

Graph(succs) ==
    [count |-> Real + 2,
     preds |-> [b \in 1..End |->
                   SetToSortSeq({ p \in 0..Real : b \in succs[p] }, <)]]

Successors(b) ==
    IF b = 0 THEN {{1}}
    ELSE { {s, t} : s \in 1..End, t \in 1..End }

MCGraphs ==
    { Graph(succs) :
        succs \in { f \in [0..Real -> SUBSET (1..End)] :
                      /\ \A b \in 0..Real : f[b] \in Successors(b)
                      /\ \A b \in 1..End : \E p \in 0..Real : b \in f[p] } }
=============================================================================
