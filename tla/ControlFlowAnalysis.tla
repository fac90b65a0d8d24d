------------------------ MODULE ControlFlowAnalysis -------------------------
(***************************************************************************)
(* Pass ControlFlowAnalysis: it splits the instructions of a function into *)
(* basic blocks and connects the blocks.  findLeaders marks the first      *)
(* instruction of every block, buildBlocks walks the code and opens a      *)
(* block at each leader, connectBlocks adds the edges.                     *)
(*                                                                         *)
(* Instructions are numbered from 1 in code order; offsets are abstracted  *)
(* to these numbers, so nextInst is i + 1, prevInst is i - 1 and insAt is  *)
(* the identity on jump targets.                                           *)
(***************************************************************************)
EXTENDS Naturals, Sequences

(* exit: returns and throws, which the pass does not tell from plain ones; *)
(* jump, cond: branches; try, catch, finally: the try-context              *)
(* instructions, jumps as well.                                            *)
Kind == {"plain", "exit", "jump", "cond", "try", "catch", "finally"}

(* target is meant for jumps only. *)
Ins == [kind : Kind, target : Nat \ {0}]

IsJump(ins) == ins.kind \notin {"plain", "exit"}
IsTryContext(ins) == ins.kind \in {"try", "catch", "finally"}

(* What the decoder delivers: jumps lead to an instruction of the          *)
(* function, a try leads to a later catch, and the last instruction ends   *)
(* the function.                                                           *)
IsCode(c) ==
    /\ c \in Seq(Ins) /\ c # <<>>
    /\ ~ IsJump(c[Len(c)])
    /\ \A i \in 1..Len(c) :
          /\ IsJump(c[i]) => c[i].target \in 1..Len(c)
          /\ c[i].kind = "try" =>
                c[i].target > i /\ c[c[i].target].kind = "catch"

CONSTANT Codes  \* the functions analysed, each a sequence of instructions

ASSUME CodesAssumption == \A c \in Codes : IsCode(c)

VARIABLES
    pc,       \* the part of run() in progress
    code,     \* the function's instructions
    leaders,  \* the leader set
    pos,      \* the instruction or block the loop is at
    count,    \* bb_id_: blocks made so far; they are numbered from 0
    bb,       \* Ins::bb() of the instructions that were given a block
    dead,     \* the instructions with InstFlags::DEAD
    edges     \* the addSuccessor calls so far, in order

vars == <<pc, code, leaders, pos, count, bb, dead, edges>>

Insns == 1..Len(code)

BlockInsns(b) == { i \in DOMAIN bb : bb[i] = b }

Least(S) == CHOOSE i \in S : \A j \in S : i <= j
Greatest(S) == CHOOSE i \in S : \A j \in S : j <= i

-----------------------------------------------------------------------------
(* run() begins with empty lists; the first instruction is a leader. *)
Init ==
    /\ pc = "leaders"
    /\ code \in Codes
    /\ leaders = {1}
    /\ pos = 2
    /\ count = 0
    /\ bb = <<>>
    /\ dead = {}
    /\ edges = <<>>

(* findLeaders, one iteration.  The loop begins at the second instruction. *)
NewLeaders(i) ==
    IF ~ IsJump(code[i]) THEN {}
    ELSE {code[i].target} \cup
         (IF code[i].kind = "cond" THEN {i + 1}
          ELSE IF IsTryContext(code[i]) THEN {i}
          ELSE {})

FindLeader ==
    /\ pc = "leaders"
    /\ pos <= Len(code)
    /\ leaders' = leaders \cup NewLeaders(pos)
    /\ pos' = pos + 1
    /\ UNCHANGED <<pc, code, count, bb, dead, edges>>

(* Entry of buildBlocks: the start block 0 and the first real block 1. *)
BeginBlocks ==
    /\ pc = "leaders"
    /\ pos > Len(code)
    /\ pc' = "build"
    /\ count' = 2
    /\ edges' = <<<<0, 1>>>>
    /\ pos' = 1
    /\ UNCHANGED <<code, leaders, bb, dead>>

(* Mutant: the first leader opens a block, although there is one already. *)
OpensAny(i) == i \in leaders

Opens(i) == i \in leaders \ {1}

(* Mutant: a try ends the reachable part of its block. *)
HasJumpAny(b) == \E i \in BlockInsns(b) : IsJump(code[i])

HasJump(b) == \E i \in BlockInsns(b) : IsJump(code[i]) /\ ~ IsTryContext(code[i])

(* A leader other than the first opens a block; every instruction goes to  *)
(* the block opened last, and is dead if a jump came before it there.      *)
BuildBlock ==
    /\ pc = "build"
    /\ pos <= Len(code)
    /\ count' = IF Opens(pos) THEN count + 1 ELSE count
    /\ bb' = Append(bb, count' - 1)
    /\ dead' = IF HasJump(count' - 1) THEN dead \cup {pos} ELSE dead
    /\ pos' = pos + 1
    /\ UNCHANGED <<pc, code, leaders, edges>>

(* The end block follows the last real one. *)
EndBlocks ==
    /\ pc = "build"
    /\ pos > Len(code)
    /\ pc' = "connect"
    /\ count' = count + 1
    /\ edges' = Append(edges, <<count - 1, count>>)
    /\ pos' = 1
    /\ UNCHANGED <<code, leaders, bb, dead>>

JumpsIn(b) == { i \in BlockInsns(b) : IsJump(code[i]) }

(* Mutant: every jump may also fall through. *)
JumpEdgesBoth(b, i) == << <<b, bb[i + 1]>>, <<b, bb[code[i].target]>> >>

(* Mutant: a condition never falls through. *)
JumpEdgesTaken(b, i) == << <<b, bb[code[i].target]>> >>

(* The edges a block gets from its first jump ... *)
JumpEdges(b, i) ==
    LET target == code[i].target IN
    (CASE code[i].kind = "cond" -> << <<b, bb[i + 1]>> >>
       [] code[i].kind = "try"  -> << <<bb[target - 1], bb[code[target].target]>> >>
       [] OTHER -> <<>>)
    \o << <<b, bb[target]>> >>

(* Mutant: a block without a jump gets no edge. *)
FallThroughNever(b) == <<>>

(* ... or, without a jump, from its last instruction. *)
FallThrough(b) ==
    LET last == Greatest(BlockInsns(b)) IN
    IF last < Len(code) THEN << <<b, bb[last + 1]>> >> ELSE <<>>

(* connectBlocks, one valid block. *)
ConnectBlock ==
    /\ pc = "connect"
    /\ pos < count - 1
    /\ edges' = edges \o (IF JumpsIn(pos) # {}
                          THEN JumpEdges(pos, Least(JumpsIn(pos)))
                          ELSE FallThrough(pos))
    /\ pos' = pos + 1
    /\ UNCHANGED <<pc, code, leaders, count, bb, dead>>

Finish ==
    /\ pc = "connect"
    /\ pos = count - 1
    /\ pc' = "done"
    /\ UNCHANGED <<code, leaders, pos, count, bb, dead, edges>>

Next == FindLeader \/ BeginBlocks \/ BuildBlock \/ EndBlocks \/ ConnectBlock
        \/ Finish

Spec == Init /\ [][Next]_vars

-----------------------------------------------------------------------------
(* The type invariant. *)
TypeOK ==
    /\ pc \in {"leaders", "build", "connect", "done"}
    /\ IsCode(code)
    /\ leaders \subseteq Insns
    /\ pos \in 1..(Len(code) + 1)
    /\ count \in 0..(Len(code) + 2)
    /\ bb \in Seq(1..Len(code)) /\ Len(bb) <= Len(code)
    /\ dead \subseteq Insns
    /\ edges \in Seq((0..count) \X (0..count))

EdgeSet == { edges[k] : k \in 1..Len(edges) }

First(b) == Least(BlockInsns(b))

(* Where control goes from an instruction: to the next one, along a branch, *)
(* from a try or into a catch; a return or a throw goes nowhere in the     *)
(* function (what a throw in a try does is the flow of the try).           *)
Flow(i) ==
    CASE code[i].kind = "jump" -> {code[i].target}
      [] code[i].kind \in {"cond", "try", "catch", "finally"} -> {i + 1, code[i].target}
      [] code[i].kind = "exit" -> {}
      [] OTHER -> IF i < Len(code) THEN {i + 1} ELSE {}

Tries == { i \in Insns : code[i].kind = "try" }

(* The last instruction before the catch, and where the catch leads. *)
AroundCatch(i) == <<code[i].target - 1, code[code[i].target].target>>

(* The end of the try goes on to the catch, which leads behind its block. *)
GoesOn(i) == code[i].target \in Flow(code[i].target - 1)

Transfers ==
    { t \in Insns \X Insns : t[2] \in Flow(t[1]) }
    \cup { AroundCatch(i) : i \in { j \in Tries : GoesOn(j) } }

(* Where control goes nowhere and connectBlocks adds an edge all the same: *)
(* behind a return or a throw that ends a block, and from a try that does  *)
(* not go on to its catch.                                                 *)
Spurious ==
    { <<i, i + 1>> : i \in { j \in Insns : code[j].kind = "exit" /\ j < Len(code)
                                            /\ bb[j] # bb[j + 1] } }
    \cup { AroundCatch(i) : i \in { j \in Tries : ~ GoesOn(j) } }

(* The instructions connectBlocks looks at: those up to the first jump of  *)
(* their block.                                                            *)
Examined(i) == \A j \in JumpsIn(bb[i]) : i <= j

(* findLeaders does not look at the first instruction.  This is harmless   *)
(* if it is no jump, or if the leaders it would make are leaders anyway.   *)
FirstHarmless == NewLeaders(1) \subseteq leaders

(* No transfer of control is lost: a branch or fall-through out of an      *)
(* examined instruction stays in its block or is an edge to the block that *)
(* begins at the instruction it goes to.  Passes over blocks are wrong on  *)
(* every function where this fails.                                        *)
FlowCovered ==
    pc = "done" =>
        \A i \in Insns : \A j \in Flow(i) :
            /\ code[i].kind \in {"plain", "jump", "cond"}
            /\ Examined(i) /\ (i = 1 => FirstHarmless)
            => \/ j = i + 1 /\ bb[j] = bb[i]
               \/ <<bb[i], bb[j]>> \in EdgeSet /\ First(bb[j]) = j

(* The edges are transfers of control between blocks, and the two kinds of *)
(* edge that connectBlocks adds where no control goes are all there are    *)
(* besides (whether the instruction itself can be reached is not asked).   *)
EdgesAreFlow ==
    pc = "done" =>
        \A e \in EdgeSet :
            \/ e = <<0, 1>>
            \/ e = <<count - 2, count - 1>>
            \/ \E t \in Transfers \cup Spurious : e = <<bb[t[1]], bb[t[2]]>>

(* Every block but the start has a predecessor, which DominatorAnalysis    *)
(* relies on without a check, in functions without dead code and try.      *)
NoOrphanBlock ==
    pc = "done" /\ dead = {} /\ (\A i \in Insns : ~ IsTryContext(code[i])) =>
        \A b \in 1..(count - 1) : \E e \in EdgeSet : e[2] = b

(* Instructions flagged dead cannot be reached from the function's entry:  *)
(* some set of others holds the entry and everything that flow leads to    *)
(* from it.  A function that begins with a jump whose leaders no other     *)
(* jump makes is left out; there the flag is wrong (JumpTargetIsLeader).   *)
DeadIsUnreachable ==
    pc = "done" /\ FirstHarmless =>
        \E live \in SUBSET (Insns \ dead) :
            1 \in live /\ \A i \in live : Flow(i) \subseteq live

(* "The jump target is always a leader" (findLeaders). *)
JumpTargetIsLeader ==
    pc # "leaders" => \A i \in Insns : IsJump(code[i]) => code[i].target \in leaders

=============================================================================
