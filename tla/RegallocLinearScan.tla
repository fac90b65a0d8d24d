------------------------- MODULE RegallocLinearScan -------------------------
(***************************************************************************)
(* The register allocator, pass RegallocLinearScan.  One pass object is    *)
(* run on one function after another.  A run sorts the live intervals of   *)
(* the function by their start, scans them handing out registers from a    *)
(* stack of free ones, and, if fewer registers than before are enough,     *)
(* renames the operands of every instruction and moves the non-register    *)
(* literals down to close the gap.                                         *)
(*                                                                         *)
(* The program is sequential: pc is the statement of run() that comes next *)
(* and every step is one iteration of the loop the pass is in.  What the   *)
(* code leaves open is nondeterministic here: the order std::sort gives to *)
(* intervals that compare equal.                                           *)
(***************************************************************************)
EXTENDS LiveRanges, FiniteSets

(* What the pass sees of a function: what decoding and LivenessAnalysis    *)
(* made of it.                                                             *)
Bytecode ==
    { f \in [args : Args, code : Seq(Instruction), ranges : SUBSET LiveRange] :
        Recorded(f.code, f.args) /\ RangesFit(f.args, f.code, f.ranges) }

CONSTANT Programs  \* the lists of functions the optimizer may be given

ASSUME ProgramsAssumption == Programs \subseteq Seq(Bytecode) \ {<<>>}

VARIABLES
    todo,            \* the functions the optimizer has still to hand over
    pc,              \* where run() is; "idle" between two runs
    bytecode,        \* the function of this run, as the pass received it
    code,            \* Bytecode::instructions() as rewritten so far
    args,            \* Bytecode::args() as rewritten so far
    regs_count,      \* regs_count_
    new_regs_count,  \* new_regs_count_
    pending,         \* the live ranges the sort has not placed yet
    intervals,       \* intervals_: from and to register, start and end
    cur,             \* iterator of the loop over intervals_
    active,          \* the local list active, as positions in intervals
    registers        \* the local stack of free registers

vars == <<todo, pc, bytecode, code, args, regs_count, new_regs_count, pending,
          intervals, cur, active, registers>>

RegLiveInterval == [from : Nat, to : Nat, start : Nat, end : Nat]

-----------------------------------------------------------------------------
(* The two comparison functions given to std::sort. *)
StartsBefore(a, b) ==
    \/ a.start < b.start
    \/ a.start = b.start /\ a.end < b.end

EndsBefore(a, b) ==
    \/ a.end < b.end
    \/ a.end = b.end /\ a.start < b.start

(* Mutant: the registers are counted from 1. *)
AllRegistersFromOne(n) == [i \in 1..n |-> n + 1 - i]

(* The free stack before the scan: register 0 is on top. *)
AllRegisters(n) == [i \in 1..n |-> n - i]

(* Renaming one register in one instruction. *)
RenameReg(r, it) == IF r = it.from THEN it.to ELSE r

(* Mutant: only the first operand is renamed. *)
RenameLitsFirst(ins, it) ==
    [i \in 1..Len(ins.lits) |->
        IF i = 1 THEN RenameReg(ins.lits[i], it) ELSE ins.lits[i]]

RenameLits(ins, it) ==
    IF ins.reads # {}
    THEN [i \in 1..Len(ins.lits) |-> RenameReg(ins.lits[i], it)]
    ELSE ins.lits

(* Mutant: the written register is forgotten. *)
RenameInsReads(ins, it) ==
    [lits  |-> RenameLits(ins, it),
     reads |-> { RenameReg(r, it) : r \in ins.reads },
     write |-> ins.write]

RenameIns(ins, it) ==
    [lits  |-> RenameLits(ins, it),
     reads |-> { RenameReg(r, it) : r \in ins.reads },
     write |-> IF ins.write = NoReg THEN NoReg ELSE RenameReg(ins.write, it)]

(* Mutant: the first literal after the registers stays where it was. *)
ShiftInsAfter(ins, regEnd, offset) ==
    [ins EXCEPT !.lits =
        [i \in 1..Len(@) |-> IF @[i] > regEnd THEN @[i] + offset ELSE @[i]]]

(* Moving the literals that do not name a register.                        *)
ShiftIns(ins, regEnd, offset) ==
    [ins EXCEPT !.lits =
        [i \in 1..Len(@) |-> IF @[i] >= regEnd THEN @[i] + offset ELSE @[i]]]

-----------------------------------------------------------------------------
Init ==
    /\ todo \in Programs
    /\ pc = "idle"
    /\ bytecode = Head(todo)
    /\ code = bytecode.code
    /\ args = bytecode.args
    /\ regs_count = 0
    /\ new_regs_count = 0
    /\ pending = {}
    /\ intervals = <<>>
    /\ cur = 1
    /\ active = {}
    /\ registers = <<>>

(* run() up to the sort: the state of the last run is dropped, and a       *)
(* function without registers is left alone.                               *)
Run ==
    /\ pc = "idle"
    /\ todo # <<>>
    /\ todo' = Tail(todo)
    /\ LET f == Head(todo) IN
          /\ bytecode' = f
          /\ code' = f.code
          /\ args' = f.args
          /\ regs_count' = f.args.registerEnd
          /\ pc' = IF f.args.registerEnd = 0 THEN "idle" ELSE "sort"
          /\ pending' = IF f.args.registerEnd = 0 THEN {} ELSE f.ranges
    /\ intervals' = <<>>
    /\ new_regs_count' = 0
    /\ cur' = 1
    /\ active' = {}
    /\ registers' = <<>>

(* The sort places a least interval of those left; which of several equal  *)
(* ones is up to std::sort.                                                *)
SortNext(range) ==
    /\ pc = "sort"
    /\ range \in pending
    /\ \A other \in pending : ~ StartsBefore(other, range)
    /\ intervals' = Append(intervals,
                           [from  |-> range.reg, to |-> range.reg,
                            start |-> range.start, end |-> range.end])
    /\ pending' = pending \ {range}
    /\ UNCHANGED <<todo, pc, bytecode, code, args, regs_count, new_regs_count, cur,
                   active, registers>>

(* Entry of computeRegisterMapping. *)
BeginScan ==
    /\ pc = "sort"
    /\ pending = {}
    /\ pc' = "scan"
    /\ registers' = AllRegisters(regs_count)
    /\ UNCHANGED <<todo, bytecode, code, args, regs_count, new_regs_count, pending,
                   intervals, cur, active>>

Scanning == pc = "scan" /\ cur <= Len(intervals)

(* Mutant: an interval expires one instruction too early. *)
ExpiredEarly(a) == intervals[a].end <= intervals[cur].start + 1

Expired(a) == intervals[a].end <= intervals[cur].start

(* Mutant: the register the interval came from is freed. *)
ReleasedFrom(a) == intervals[a].from

Released(a) == intervals[a].to

(* expireOldIntervals: the active interval that ends first gives its       *)
(* register back, as long as it ended before the current one starts.       *)
Expire(a) ==
    /\ Scanning
    /\ a \in active
    /\ Expired(a)
    /\ \A b \in active : ~ EndsBefore(intervals[b], intervals[a])
    /\ registers' = Append(registers, Released(a))
    /\ active' = active \ {a}
    /\ UNCHANGED <<todo, pc, bytecode, code, args, regs_count, new_regs_count,
                   pending, intervals, cur>>

(* Mutant: the loop waits for the active list to become empty. *)
PurgedEmpty == Scanning /\ active = {}

(* The state expireOldIntervals returns in. *)
Purged == Scanning /\ \A a \in active : ~ Expired(a)

(* Mutant: one register is kept back. *)
NoFreeRegisterButOne == Cardinality(active) >= regs_count - 1

NoFreeRegister == Cardinality(active) = regs_count

IsPoint(it) == it.start = it.end

(* An interval that ends where it starts keeps its register. *)
SkipPoint ==
    /\ Purged
    /\ ~ NoFreeRegister
    /\ IsPoint(intervals[cur])
    /\ cur' = cur + 1
    /\ UNCHANGED <<todo, pc, bytecode, code, args, regs_count, new_regs_count,
                   pending, intervals, active, registers>>

(* Mutant: the count follows the active list down again. *)
LastCount(count) == count

(* new_regs_count_ after the active list grew to count intervals. *)
PeakCount(count) == IF count > new_regs_count THEN count ELSE new_regs_count

(* Any other interval takes the register on top of the stack. *)
Allocate ==
    /\ Purged
    /\ ~ NoFreeRegister
    /\ ~ IsPoint(intervals[cur])
    /\ intervals' = [intervals EXCEPT ![cur].to = registers[Len(registers)]]
    /\ registers' = SubSeq(registers, 1, Len(registers) - 1)
    /\ active' = active \cup {cur}
    /\ new_regs_count' = PeakCount(Cardinality(active'))
    /\ cur' = cur + 1
    /\ UNCHANGED <<todo, pc, bytecode, code, args, regs_count, pending>>

(* computeRegisterMapping ends after the last interval, or early when no   *)
(* register is free.                                                       *)
ScanOver ==
    \/ pc = "scan" /\ cur > Len(intervals)
    \/ Purged /\ NoFreeRegister

EndScan ==
    /\ ScanOver
    /\ pc' = "update"
    /\ UNCHANGED <<todo, bytecode, code, args, regs_count, new_regs_count, pending,
                   intervals, cur, active, registers>>

(* updateInstructions returns at once when no register is saved. *)
KeepCode ==
    /\ pc = "update"
    /\ new_regs_count >= regs_count
    /\ pc' = "idle"
    /\ UNCHANGED <<todo, bytecode, code, args, regs_count, new_regs_count, pending,
                   intervals, cur, active, registers>>

BeginRename ==
    /\ pc = "update"
    /\ new_regs_count < regs_count
    /\ pc' = "rename"
    /\ cur' = 1
    /\ UNCHANGED <<todo, bytecode, code, args, regs_count, new_regs_count, pending,
                   intervals, active, registers>>

(* One interval is renamed in every instruction of the function. *)
Rename ==
    /\ pc = "rename"
    /\ cur <= Len(intervals)
    /\ code' = [i \in 1..Len(code) |-> RenameIns(code[i], intervals[cur])]
    /\ cur' = cur + 1
    /\ UNCHANGED <<todo, pc, bytecode, args, regs_count, new_regs_count, pending,
                   intervals, active, registers>>

(* After the last one the other literals and the header move; movePoolStart *)
(* works on a copy of the literal pool and changes nothing.                 *)
Shift ==
    /\ pc = "rename"
    /\ cur > Len(intervals)
    /\ code' = [i \in 1..Len(code) |->
                   ShiftIns(code[i], args.registerEnd,
                            new_regs_count - regs_count)]
    /\ args' = MoveRegIndex(args, new_regs_count - regs_count)
    /\ pc' = "idle"
    /\ UNCHANGED <<todo, bytecode, regs_count, new_regs_count, pending, intervals,
                   cur, active, registers>>

Next ==
    \/ Run
    \/ \E range \in pending : SortNext(range)
    \/ BeginScan
    \/ \E a \in active : Expire(a)
    \/ SkipPoint
    \/ Allocate
    \/ EndScan
    \/ KeepCode
    \/ BeginRename
    \/ Rename
    \/ Shift

Spec == Init /\ [][Next]_vars

(* The program has one thread, which does not stop in the middle.          *)
FairSpec == Spec /\ WF_vars(Next)

-----------------------------------------------------------------------------
(* The type invariant. *)
TypeOK ==
    /\ todo \in Seq(Bytecode)
    /\ pc \in {"idle", "sort", "scan", "update", "rename"}
    /\ bytecode \in Bytecode
    /\ code \in Seq(Instruction)
    /\ args \in Args
    /\ regs_count \in Nat
    /\ new_regs_count \in 0..regs_count
    /\ pending \subseteq bytecode.ranges
    /\ intervals \in Seq(RegLiveInterval)
    /\ cur \in 1..(Len(intervals) + 1)
    /\ active \subseteq 1..Len(intervals)
    /\ registers \in Seq(0..(regs_count - 1))

(* Positions of the intervals the scan has given a register to. *)
Mapped == { i \in 1..(cur - 1) : ~ IsPoint(intervals[i]) }

FreeRegisters == { registers[i] : i \in 1..Len(registers) }
HeldRegisters == { intervals[a].to : a \in active }

(* While the scan runs, every register of the function is either on the    *)
(* free stack, once, or held by exactly one active interval: expiring and  *)
(* allocating never lose a register and never hand one out twice.          *)
PoolPartition ==
    pc = "scan" =>
        /\ \A i, j \in 1..Len(registers) :
              registers[i] = registers[j] => i = j
        /\ \A a, b \in active : intervals[a].to = intervals[b].to => a = b
        /\ FreeRegisters \cap HeldRegisters = {}
        /\ FreeRegisters \cup HeldRegisters = 0..(regs_count - 1)

(* Two intervals that got registers and overlap got different ones.  This  *)
(* is what the scan is for, and it spans the sort, the expiry of whatever  *)
(* was active in between, and both allocations.                            *)
NoInterference ==
    pc \in {"scan", "update"} =>
        \A i, j \in Mapped :
            i < j /\ intervals[i].end > intervals[j].start
                => intervals[i].to # intervals[j].to

(* The early return for want of a register is never taken on ranges that   *)
(* buildLiveRanges made: the scan always reaches the last interval.        *)
NeverSpills == pc = "update" => cur > Len(intervals)

(* The ranges of f that hold a register when range is allocated: those     *)
(* that begin before it and end after its start, and range itself.         *)
LiveWith(f, range) ==
    { other \in f.ranges :
        /\ ~ IsPoint(other)
        /\ \/ other = range
           \/ ~ StartsBefore(range, other) /\ other.end > range.start }

(* n is the largest number of ranges of f live at once. *)
IsPressure(f, n) ==
    LET counts == { Cardinality(LiveWith(f, range)) :
                       range \in { r \in f.ranges : ~ IsPoint(r) } }
    IN  /\ \A c \in counts : c <= n
        /\ n \in counts \cup {0}

(* new_regs_count_ is exactly the register pressure of the ranges: the     *)
(* header the pass writes asks for no register more than it must.          *)
NewCountIsPressure == pc = "update" => IsPressure(bytecode, new_regs_count)

(* A run that did something is over. *)
Finished == pc = "idle" /\ regs_count > 0

(* Every literal operand of the function. *)
Operands ==
    UNION { {i} \X (1..Len(bytecode.code[i].lits)) : i \in 1..Len(bytecode.code) }

OldLiteral(p) == bytecode.code[p[1]].lits[p[2]]
NewLiteral(p) == code[p[1]].lits[p[2]]

(* A literal that is not a register keeps its slot in the literal pool,    *)
(* counted from the end of the registers, and the pool keeps its size,     *)
(* however many registers went away below it.                              *)
LiteralSlotPreserved ==
    Finished =>
        /\ args.literalEnd - args.registerEnd
              = bytecode.args.literalEnd - bytecode.args.registerEnd
        /\ \A p \in Operands :
              OldLiteral(p) >= bytecode.args.registerEnd =>
                  NewLiteral(p) - args.registerEnd
                      = OldLiteral(p) - bytecode.args.registerEnd

(* Every operand that named a register with an interval the scan mapped    *)
(* names a register of the smaller frame afterwards, although the renaming *)
(* of one interval is applied on top of that of those before it.           *)
MappedOperandInFrame ==
    Finished =>
        \A p \in Operands :
            (\E i \in 1..Len(intervals) :
                intervals[i].from = OldLiteral(p) /\ ~ IsPoint(intervals[i]))
            => NewLiteral(p) < args.registerEnd

(* The renaming takes every register with an interval to the home of each  *)
(* of its intervals: they all got the same one, and no later rule renames  *)
(* that home to another.  Registers may well be merged into one that has   *)
(* intervals of its own, in particular one whose rule came before.         *)
Separable ==
    \A i, j \in { k \in 1..Len(intervals) : ~ IsPoint(intervals[k]) } :
        /\ intervals[i].from = intervals[j].from => intervals[i].to = intervals[j].to
        /\ i < j /\ intervals[i].to = intervals[j].from
              => intervals[j].to = intervals[i].to

(* The instruction of the path that last wrote the register before one is  *)
(* reached; 0 if none did.                                                 *)
LastWriter(insns, path, reg, reached) ==
    LET writers == { i \in path : i < reached /\ insns[i].write = reg }
    IN  CHOOSE i \in writers \cup {0} : \A other \in writers : other <= i

(* Every value is still read where it was read: whichever instructions run, *)
(* in the order of the code, an operand gets its value from the instruction *)
(* it got it from before the registers were renamed, in every function in   *)
(* which each interval gets the home it was given (Separable).  Stated of   *)
(* the reads buildLiveRanges looks at, which are those of instructions that *)
(* write none, of values written in the function, and of runs that jump     *)
(* forward only.                                                            *)
DefUseKept ==
    Finished /\ Separable =>
        \A path \in SUBSET (1..Len(code)), p \in Operands :
            LET reader == p[1]
                old == LastWriter(bytecode.code, path, OldLiteral(p), reader)
            IN  /\ reader \in path
                /\ bytecode.code[reader].write = NoReg
                /\ OldLiteral(p) < bytecode.args.registerEnd
                /\ old # 0
                => LastWriter(code, path, NewLiteral(p), reader) = old

(* The assertions of Literal::toValueRef for the operands that are          *)
(* registers: the index of an argument is below argumentEnd, that of any    *)
(* other register below registerEnd.  Stated of the functions handed on.    *)
OperandsInFrame ==
    Finished =>
        \A p \in Operands :
            /\ OldLiteral(p) < bytecode.args.argumentEnd
                  => NewLiteral(p) < args.argumentEnd
            /\ OldLiteral(p) < bytecode.args.registerEnd
                  => NewLiteral(p) < args.registerEnd

(* Positions of the intervals with a register as FrameAllocation sees them: *)
(* the renaming loop starts over with cur but takes none of them back.      *)
Allocated ==
    IF pc = "rename"
    THEN { i \in 1..Len(intervals) : ~ IsPoint(intervals[i]) }
    ELSE Mapped

spansBar == [i \in 1..Len(intervals) |->
                [start |-> intervals[i].start, end |-> intervals[i].end]]
homeBar  == [i \in Allocated |-> intervals[i].to]

Frame == INSTANCE FrameAllocation
            WITH spans <- spansBar, home <- homeBar, size <- args.registerEnd

(* The pass implements an allocator: sorting, expiring and counting up to  *)
(* the peak are ways to hand out homes no clashing value has, and the      *)
(* header is lowered only past registers that were never handed out.       *)
Implements == Frame!Spec

(* Every function of the program is processed to the end: no loop of the   *)
(* pass goes on for ever.                                                  *)
AllProcessed == <>(pc = "idle" /\ todo = <<>>)
=============================================================================
