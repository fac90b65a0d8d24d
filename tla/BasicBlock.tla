----------------------------- MODULE BasicBlock -----------------------------
(***************************************************************************)
(* Class BasicBlock: the operations that passes edit the flow graph of a   *)
(* function with.  Each block keeps a list of its predecessors and one of  *)
(* its successors, and every operation has to change the lists of both     *)
(* ends of an edge.                                                        *)
(*                                                                         *)
(* A list of blocks is abstracted to how often each block is in it, and a  *)
(* list of instructions to the set of their offsets.  The operations are   *)
(* called in any order, as often as MaxCalls.                              *)
(***************************************************************************)
EXTENDS Integers

CONSTANTS
    Blocks,    \* the blocks of a function
    Offsets,   \* the offsets of its instructions
    Graphs,    \* the successor lists ControlFlowAnalysis may leave
    MaxCalls   \* bound on the number of operations

BlockList == [Blocks -> Nat]
Lists == [succs : [Blocks -> BlockList], preds : [Blocks -> BlockList]]

ASSUME BasicBlockAssumption ==
    Offsets \subseteq Nat /\ Graphs \subseteq [Blocks -> BlockList] /\ MaxCalls \in Nat

VARIABLES
    lists,   \* successors_ and predecessors_ of every block
    insns,   \* insts_ of every block
    bb,      \* Ins::bb() of every instruction
    calls,   \* operations so far
    broken   \* an operation used a pointer that was not set, or an iterator
             \* into a list it had changed

vars == <<lists, insns, bb, calls, broken>>

In(list, b) == list[b] > 0

-----------------------------------------------------------------------------
Init ==
    /\ \E g \in Graphs :
          lists = [succs |-> g, preds |-> [b \in Blocks |-> [a \in Blocks |-> g[a][b]]]]
    /\ bb \in [Offsets -> Blocks]
    /\ insns = [b \in Blocks |-> { i \in Offsets : bb[i] = b }]
    /\ calls = 0
    /\ broken = FALSE

Call == ~ broken /\ calls < MaxCalls /\ calls' = calls + 1

(* addSuccessor, n times over. *)
Connect(l, a, b, n) ==
    [succs |-> [l.succs EXCEPT ![a][b] = @ + n], preds |-> [l.preds EXCEPT ![b][a] = @ + n]]

(* Mutant: the list of the other block is left alone. *)
DisconnectOneSide(l, a, b) == [l EXCEPT !.succs[a][b] = 0]

(* Mutant: the two copies that split makes of an edge go, there or not.    *)
DisconnectTwo(l, a, b) == [l EXCEPT !.succs[a][b] = @ - 2, !.preds[b][a] = @ - 2]

(* What removeSuccessor and removePredecessor do to an edge there is: all  *)
(* of its copies go, in both lists.                                        *)
Disconnect(l, a, b) ==
    [succs |-> [l.succs EXCEPT ![a][b] = 0], preds |-> [l.preds EXCEPT ![b][a] = 0]]

AddSuccessor(a, b) ==
    /\ Call
    /\ lists' = Connect(lists, a, b, 1)
    /\ UNCHANGED <<insns, bb, broken>>

(* addPredecessor, called on b. *)
AddPredecessor(a, b) ==
    /\ Call
    /\ lists' = Connect(lists, a, b, 1)
    /\ UNCHANGED <<insns, bb, broken>>

(* A predecessor that there is not is not removed. *)
RemovePredecessor(b, id) ==
    /\ Call
    /\ lists' = IF In(lists.preds[b], id) THEN Disconnect(lists, id, b) ELSE lists
    /\ UNCHANGED <<insns, bb, broken>>

(* Without such a successor the pointer succ is not set before it is       *)
(* compared and used: some block may lose this one from its predecessors.  *)
RemoveSuccessor(b, id) ==
    /\ Call
    /\ IF In(lists.succs[b], id)
       THEN lists' = Disconnect(lists, b, id) /\ broken' = FALSE
       ELSE /\ \E succ \in Blocks : lists' = [lists EXCEPT !.preds[succ][b] = 0]
            /\ broken' = TRUE
    /\ UNCHANGED <<insns, bb>>

(* removeAllPredecessors and removeAllSuccessors: the loops begin again    *)
(* after each removal, until the list is empty.                            *)
WithoutPredecessors(l, b) ==
    [succs |-> [a \in Blocks |-> [l.succs[a] EXCEPT ![b] = 0]],
     preds |-> [l.preds EXCEPT ![b] = [a \in Blocks |-> 0]]]

WithoutSuccessors(l, b) ==
    [succs |-> [l.succs EXCEPT ![b] = [a \in Blocks |-> 0]],
     preds |-> [a \in Blocks |-> [l.preds[a] EXCEPT ![b] = 0]]]

Remove(b) ==
    /\ Call
    /\ lists' = WithoutSuccessors(WithoutPredecessors(lists, b), b)
    /\ UNCHANGED <<insns, bb, broken>>

RemoveInaccessible(b) ==
    /\ Call
    /\ \A a \in Blocks : ~ In(lists.preds[b], a)
    /\ lists' = WithoutSuccessors(lists, b)
    /\ UNCHANGED <<insns, bb, broken>>

(* Mutant: the block is taken out before its neighbours are connected. *)
BridgedNever(l, b) == l

(* Every predecessor is connected with every successor, once from either   *)
(* side, for each time they are in the lists.                              *)
Bridged(l, b) ==
    LET more(a, c) == 2 * l.preds[b][a] * l.succs[b][c]
    IN  [succs |-> [a \in Blocks |-> [c \in Blocks |-> l.succs[a][c] + more(a, c)]],
         preds |-> [c \in Blocks |-> [a \in Blocks |-> l.preds[c][a] + more(a, c)]]]

(* A block that is its own successor changes the lists it iterates over.   *)
RemoveEmpty(b) ==
    /\ Call
    /\ insns[b] = {}
    /\ IF In(lists.succs[b], b)
       THEN broken' = TRUE /\ UNCHANGED lists
       ELSE /\ lists' = LET l == Bridged(lists, b)
                        IN  WithoutSuccessors(WithoutPredecessors(l, b), b)
            /\ UNCHANGED broken
    /\ UNCHANGED <<insns, bb>>

(* The successors of from become those of into, and into that of from:     *)
(* each edge is added from either side.                                    *)
HandedOver(l, from, into) ==
    LET moved == [succs |-> [l.succs EXCEPT ![into] =
                                 [c \in Blocks |-> @[c] + 2 * l.succs[from][c]]],
                  preds |-> [c \in Blocks |->
                                 [l.preds[c] EXCEPT ![into] = @ + 2 * l.succs[from][c]]]]
    IN  Connect(WithoutSuccessors(moved, from), from, into, 2)

(* The instructions split leaves in the first block. *)
Kept(list, offset) == { i \in list : i < offset }

(* split: what begins at the offset or after it moves to the other block,  *)
(* and if anything moved, the edges do, too.  Given one block twice, the   *)
(* loop would never end.                                                   *)
Split(from, into, offset) ==
    LET moved == { i \in insns[from] : i >= offset }
    IN  /\ Call
        /\ from # into
        /\ insns' = [insns EXCEPT ![from] = Kept(@, offset), ![into] = @ \cup moved]
        /\ bb' = [i \in Offsets |-> IF i \in moved THEN into ELSE bb[i]]
        /\ lists' = IF moved = {} THEN lists ELSE HandedOver(lists, from, into)
        /\ UNCHANGED broken

Next ==
    \/ \E a, b \in Blocks :
          \/ AddSuccessor(a, b) \/ AddPredecessor(a, b)
          \/ RemovePredecessor(a, b) \/ RemoveSuccessor(a, b)
          \/ \E offset \in Offsets : Split(a, b, offset)
    \/ \E b \in Blocks : Remove(b) \/ RemoveInaccessible(b) \/ RemoveEmpty(b)

Spec == Init /\ [][Next]_vars

-----------------------------------------------------------------------------
(* The type invariant. *)
TypeOK ==
    /\ lists \in Lists
    /\ bb \in [Offsets -> Blocks]
    /\ insns = [b \in Blocks |-> { i \in Offsets : bb[i] = b }]
    /\ calls \in 0..MaxCalls
    /\ broken \in BOOLEAN

(* Every edge is in the lists of both of its ends, equally often. *)
Mirrored(l) == \A a, b \in Blocks : l.succs[a][b] = l.preds[b][a]

(* A block is in the successors of another one as often as that one is in  *)
(* its predecessors, after any sequence of operations that is defined: the *)
(* removals and DominatorAnalysis rely on finding every edge at both ends. *)
EdgesMirrored == ~ broken => Mirrored(lists)

(* The blocks that flow leads to from b, in one step or more.              *)
Follow(succs, S) == { c \in Blocks : \E a \in S : In(succs[a], c) }

ReachedFrom(succs, b) ==
    { c \in Blocks :
        \A S \in SUBSET Blocks :
            Follow(succs, {b}) \subseteq S /\ Follow(succs, S) \subseteq S => c \in S }

SameFlow(others) ==
    \A a \in others :
        ReachedFrom(lists.succs, a) \cap others = ReachedFrom(lists'.succs, a) \cap others

(* Taking out an empty block and splitting one off into a fresh block do   *)
(* not change which of the other blocks can follow which.                  *)
KeepsFlow ==
    /\ \A b \in Blocks : RemoveEmpty(b) /\ ~ broken' => SameFlow(Blocks \ {b})
    /\ \A from, into \in Blocks, offset \in Offsets :
          /\ Split(from, into, offset)
          /\ \A a \in Blocks : ~ In(lists.succs[into], a) /\ ~ In(lists.preds[into], a)
          => SameFlow(Blocks \ {into})

FlowKept == [][KeepsFlow]_vars
=============================================================================
