-------------------------- MODULE LivenessAnalysis --------------------------
(***************************************************************************)
(* Pass LivenessAnalysis.  Over the blocks ControlFlowAnalysis made it     *)
(* computes which registers a block kills and uses upward-exposed, iterates *)
(* the live-out sets to a fixpoint, and builds the live ranges register    *)
(* allocation works on, by the walk of module LiveRanges.                  *)
(*                                                                         *)
(* Every step is one iteration of the loop the pass is in.                 *)
(***************************************************************************)
EXTENDS LiveRanges, FiniteSets

CONSTANT Functions  \* the functions analysed, with their blocks

(* A function: what an instruction reads and writes are registers, see     *)
(* DecodeLiterals; block[i] is the block of instruction i; blocks 0        *)
(* (start) to count - 1 (end) are in code order, and succs is the set of   *)
(* successors of each.                                                     *)
IsFunction(f) ==
    /\ f.args \in Args
    /\ f.code \in Seq(Instruction)
    /\ \A i \in 1..Len(f.code) :
          f.code[i].reads \cup ({f.code[i].write} \ {NoReg}) \subseteq 0..(f.args.registerEnd - 1)
    /\ f.count \in Nat \ {0, 1}
    /\ f.block \in [1..Len(f.code) -> 1..(f.count - 2)]
    /\ \A i \in 2..Len(f.code) : f.block[i - 1] <= f.block[i]
    /\ f.succs \in [0..(f.count - 1) -> SUBSET (0..(f.count - 1))]

ASSUME FunctionsAssumption == \A f \in Functions : IsFunction(f)

(* The compiler keeps the formal arguments in the first registers.         *)
ASSUME ArgumentsAssumption ==
    \A f \in Functions : f.args.argumentEnd <= f.args.registerEnd

VARIABLES
    pc,       \* the part of run() in progress
    fn,       \* the function
    pos,      \* the instruction or block the loop is at
    kill,     \* BasicBlock::kill() of every block
    ue,       \* BasicBlock::ue()
    liveOut,  \* BasicBlock::liveOut()
    changed,  \* computeLiveOuts: a set changed in this round
    ranges    \* Bytecode::liveRanges()

vars == <<pc, fn, pos, kill, ue, liveOut, changed, ranges>>

Blocks == 0..(fn.count - 1)
Insns == 1..Len(fn.code)
Succs(b) == fn.succs[b]

Empty(f) == [b \in 0..(f.count - 1) |-> {}]

(* The first instruction of the block of i. *)
FirstOf(f, i) == CHOOSE j \in 1..i : /\ f.block[j] = f.block[i]
                                     /\ j = 1 \/ f.block[j - 1] # f.block[i]

-----------------------------------------------------------------------------
Init ==
    /\ pc = "begin"
    /\ fn \in Functions
    /\ pos = 1
    /\ kill = Empty(fn)
    /\ ue = Empty(fn)
    /\ liveOut = Empty(fn)
    /\ changed = FALSE
    /\ ranges = <<>>

(* run(): without registers there is nothing to do. *)
Begin ==
    /\ pc = "begin"
    /\ pc' = IF fn.args.registerEnd = 0 THEN "done" ELSE "killue"
    /\ UNCHANGED <<fn, pos, kill, ue, liveOut, changed, ranges>>

(* Mutant: the write counts before the reads. *)
ExposedAfterWrite(b, ins) == ins.reads \ (kill[b] \cup {ins.write})

Exposed(b, ins) == ins.reads \ kill[b]

(* Mutant: the flag WRITE_REG is not looked at. *)
KillAlways(b, ins) == [kill EXCEPT ![b] = @ \cup {ins.write}]

KillWritten(b, ins) ==
    IF ins.write = NoReg THEN kill ELSE [kill EXCEPT ![b] = @ \cup {ins.write}]

(* computeKillUe, one instruction: its reads count before its write. *)
KillUe ==
    /\ pc = "killue"
    /\ pos <= Len(fn.code)
    /\ LET ins == fn.code[pos]
           b == fn.block[pos]
       IN  /\ ue' = [ue EXCEPT ![b] = @ \cup Exposed(b, ins)]
           /\ kill' = KillWritten(b, ins)
    /\ pos' = pos + 1
    /\ UNCHANGED <<pc, fn, liveOut, changed, ranges>>

BeginLiveOut ==
    /\ pc = "killue"
    /\ pos > Len(fn.code)
    /\ pc' = "liveout"
    /\ pos' = 0
    /\ changed' = FALSE
    /\ UNCHANGED <<fn, kill, ue, liveOut, ranges>>

(* Mutant: a killed register stays live. *)
NewLiveOutUnkilled(b) == UNION { liveOut[s] \cup ue[b] : s \in Succs(b) }

(* computeLiveOut: what a successor has live at its end and does not kill, *)
(* and, if there is a successor, what the block itself uses.               *)
NewLiveOut(b) ==
    UNION { (liveOut[s] \ kill[s]) \cup ue[b] : s \in Succs(b) }

(* computeLiveOuts, one block of a round. *)
LiveOut ==
    /\ pc = "liveout"
    /\ pos < fn.count
    /\ liveOut' = [liveOut EXCEPT ![pos] = NewLiveOut(pos)]
    /\ changed' = (changed \/ NewLiveOut(pos) # liveOut[pos])
    /\ pos' = pos + 1
    /\ UNCHANGED <<pc, fn, kill, ue, ranges>>

(* Mutant: the flag is not reset. *)
NextRoundSticky ==
    /\ pc = "liveout"
    /\ pos = fn.count
    /\ changed
    /\ pos' = 0
    /\ UNCHANGED <<pc, fn, kill, ue, liveOut, changed, ranges>>

(* Another round, if the last one changed a set. *)
NextRound ==
    /\ pc = "liveout"
    /\ pos = fn.count
    /\ changed
    /\ pos' = 0
    /\ changed' = FALSE
    /\ UNCHANGED <<pc, fn, kill, ue, liveOut, ranges>>

BeginRanges ==
    /\ pc = "liveout"
    /\ pos = fn.count
    /\ ~ changed
    /\ pc' = "ranges"
    /\ pos' = 1
    /\ ranges' = ArgumentRanges(fn.args)
    /\ UNCHANGED <<fn, kill, ue, liveOut, changed>>

(* buildLiveRanges, one instruction. *)
ExtendRange ==
    /\ pc = "ranges"
    /\ pos <= Len(fn.code)
    /\ ranges' = ExtendRanges(ranges, fn.code[pos], Offset(FirstOf(fn, pos)),
                              Offset(pos))
    /\ pos' = pos + 1
    /\ UNCHANGED <<pc, fn, kill, ue, liveOut, changed>>

Finish ==
    /\ pc = "ranges"
    /\ pos > Len(fn.code)
    /\ pc' = "done"
    /\ UNCHANGED <<fn, pos, kill, ue, liveOut, changed, ranges>>

Next == Begin \/ KillUe \/ BeginLiveOut \/ LiveOut \/ NextRound \/ BeginRanges
        \/ ExtendRange \/ Finish

Spec == Init /\ [][Next]_vars

(* One thread, which does not stop in the middle. *)
FairSpec == Spec /\ WF_vars(Next)

-----------------------------------------------------------------------------
Regs == 0..(fn.args.registerEnd - 1)

(* The type invariant. *)
TypeOK ==
    /\ pc \in {"begin", "killue", "liveout", "ranges", "done"}
    /\ IsFunction(fn)
    /\ pos \in 0..(Len(fn.code) + fn.count)
    /\ kill \in [Blocks -> SUBSET Regs]
    /\ ue \in [Blocks -> SUBSET Regs]
    /\ liveOut \in [Blocks -> SUBSET Regs]
    /\ changed \in BOOLEAN
    /\ DOMAIN ranges \subseteq Nat
    /\ \A r \in DOMAIN ranges : ranges[r] \in Seq(LiveInterval)

(* What the instructions of b write, and what they read before any of them  *)
(* has written it.                                                         *)
InsnsOf(b) == { i \in Insns : fn.block[i] = b }

Killed(b) == { fn.code[i].write : i \in InsnsOf(b) } \ {NoReg}

UsedFirst(b) ==
    UNION { { r \in fn.code[i].reads : \A j \in InsnsOf(b) : j < i => fn.code[j].write # r } :
            i \in InsnsOf(b) }

(* S solves the equation computeLiveOut quotes, where the blocks of users  *)
(* use register r: it is live out of a block if a successor uses it, or    *)
(* has it live at its own end and does not kill it.                        *)
Solves(r, users, S) ==
    \A b \in Blocks :
        (\E s \in Succs(b) : s \in users \/ (s \in S /\ r \notin Killed(s))) => b \in S

(* Where r is live out: the least solution. *)
LiveFor(r, users) ==
    { b \in Blocks : \A S \in SUBSET Blocks : Solves(r, users, S) => b \in S }

Found(r) == { b \in Blocks : r \in liveOut[b] }

OwnUses(r) == { b \in Blocks : r \in UsedFirst(b) /\ Succs(b) # {} }

(* How far what the iteration ends in is liveness.  The code takes the     *)
(* uses of the block itself where the equation it quotes takes those of    *)
(* the successors (LiveOutAsCommented).  So a block has a register it uses *)
(* first itself, whatever follows; and otherwise it has one exactly if it  *)
(* is live for those users that do not write it as well.                   *)
LiveOutExplained ==
    pc = "ranges" =>
        \A r \in Regs :
            Found(r) = OwnUses(r) \cup LiveFor(r, { b \in OwnUses(r) : r \notin Killed(b) })

(* "out[n] <- ue[n] U (out[n] intersection comp(kill[n]))" (computeLiveOut) *)
(* for the successors n of a block: all of it is live out of the block.    *)
LiveOutAsCommented ==
    pc = "ranges" =>
        \A b \in Blocks : \A n \in Succs(b) :
            UsedFirst(n) \cup (liveOut[n] \ Killed(n)) \subseteq liveOut[b]

(* The intervals of a register follow one another without gap or overlap,  *)
(* in code order; only the last one may be open.                           *)
RangesAbut ==
    \A r \in DOMAIN ranges :
        /\ ranges[r] # <<>>
        /\ \A k \in 1..(Len(ranges[r]) - 1) :
              /\ ranges[r][k].start <= ranges[r][k].end
              /\ ranges[r][k].end = ranges[r][k + 1].start
        /\ LET last == ranges[r][Len(ranges[r])]
           IN  last.end = 0 \/ last.start <= last.end

(* A register read by an instruction that does not write lies in one of    *)
(* the register's intervals there, whatever came before in other blocks.   *)
ReadsCovered ==
    pc = "done" /\ fn.args.registerEnd > 0 =>
        \A i \in Insns :
            fn.code[i].write = NoReg =>
                \A r \in fn.code[i].reads :
                    /\ r \in DOMAIN ranges
                    /\ \E k \in 1..Len(ranges[r]) :
                          /\ ranges[r][k].start <= Offset(i)
                          /\ Offset(i) <= ranges[r][k].end

(* The ranges are what register allocation builds on: apart from each      *)
(* other, begun at every write, and without a gap between a write and the  *)
(* reads of what it wrote.  The allocator's early return, its count and    *)
(* the values it keeps apart all depend on this pass getting it right.     *)
RangesAsAssumed == pc = "done" => RangesFit(fn.args, fn.code, RangeEntries(ranges))

(* The analysis of every function comes to its end: the fixpoint is        *)
(* reached.                                                                *)
Terminates == <>(pc = "done")
=============================================================================
