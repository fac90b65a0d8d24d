--------------------- MODULE RegallocLinearScan_proofs ---------------------
(***************************************************************************)
(* Theorems about RegallocLinearScan, for every list of functions and      *)
(* every order std::sort may give to equal intervals.                      *)
(*                                                                         *)
(* The argument.  The sort leaves the intervals ordered by start (Sorted,  *)
(* Placed).  The scan keeps count: a register is held by an active         *)
(* interval or is on the free stack (Counted, PoolPartition), and only     *)
(* intervals already passed, and not points, are active (ActiveMapped).    *)
(* A mapped interval that is no longer active ended before the current one *)
(* starts (Retired).  Type correctness needs the count, since Allocate     *)
(* takes the top of a stack that must not be empty, and NoInterference     *)
(* needs all of them.                                                      *)
(*                                                                         *)
(* That the scan never runs out of registers, and that its count is the    *)
(* pressure, rest on what the ranges are: the intervals are their copies,  *)
(* in the order of both keys, and those of one register follow each other  *)
(* (Order).  So the active intervals and the current one come from as many *)
(* different registers, of which there are regs_count; and once the        *)
(* expired ones are purged, they are exactly the ranges passed that are    *)
(* live with the current one, so that the count of the largest such set,   *)
(* which a later interval can only add to if it has the same keys, is the  *)
(* count the scan keeps (PeakReached).                                     *)
(*                                                                         *)
(* It implements FrameAllocation, and rewrites the code faithfully.        *)
(*                                                                         *)
(* The argument.  The free stack begins with register 0 on top and is used *)
(* last in, first out, so the registers that were never handed out are the *)
(* highest ones and lie, untouched, at its bottom (Untouched).  The count  *)
(* of used registers is the peak of the active list (PeakHolds), so every  *)
(* register handed out is below it (HomesBelow), and lowering the header   *)
(* to it cuts off no home.  It is only lowered after the scan has seen all *)
(* intervals (FullyScanned), so that the renaming, which walks over the    *)
(* intervals again, finds all of them with a home.                         *)
(*                                                                         *)
(* And the rewritten code means what the code meant.  The argument: at any *)
(* time there is one map of registers by which all of the code has been    *)
(* renamed so far (Follows).  It keeps what is no register where it was    *)
(* (NamesInFrame), and takes a register with a home into the smaller frame *)
(* or else to a register whose interval is still to come (NamesHome); no   *)
(* more is true of it, as a new name may be renamed again.  If no later    *)
(* rule takes away the home of an interval (Separable), it takes every     *)
(* register to the home of its intervals (NamesOnce).  Then a value waiting to be read cannot be   *)
(* overwritten: its interval spans the write, which begins one of its own, *)
(* and the scan has put the two apart.                                     *)
(***************************************************************************)
EXTENDS RegallocLinearScan, FiniteSetTheorems, SequenceTheorems,
        WellFoundedInduction, TLAPS

(* The registers of the function are those its header counts.              *)
HeaderCount == pc # "idle" => args.registerEnd = regs_count

(* The sort has placed a least prefix of the ranges, in order of start.    *)
Placed ==
    pc = "sort" =>
        /\ active = {} /\ cur = 1
        /\ \A i \in 1..Len(intervals) :
              \A range \in pending : intervals[i].start <= range.start

Sorted ==
    \A i, j \in 1..Len(intervals) :
        i < j => intervals[i].start <= intervals[j].start

(* Active intervals have been passed and hold a register of their own.     *)
ActiveMapped == pc = "scan" => active \subseteq Mapped

(* No register is lost. *)
Counted == pc = "scan" => Cardinality(active) + Len(registers) = regs_count

(* What the scan has passed and expired ended before the current interval. *)
Retired ==
    Scanning => \A i \in Mapped \ active : intervals[i].end <= intervals[cur].start

(* The inductive invariant. *)
Shape == TypeOK /\ HeaderCount /\ Placed /\ Sorted
Pool  == ActiveMapped /\ Counted /\ PoolPartition
IInv  == Shape /\ Pool /\ Retired /\ NoInterference

-----------------------------------------------------------------------------
(* The active list is finite. *)
LEMMA ActiveFinite ==
    ASSUME TypeOK
    PROVE  IsFiniteSet(active) /\ Cardinality(active) \in Nat
<1>1. Len(intervals) \in Nat
  BY DEF TypeOK
<1>2. IsFiniteSet(1..Len(intervals))
  BY <1>1, FS_Interval
<1>3. IsFiniteSet(active)
  BY <1>2, FS_Subset DEF TypeOK
<1>4. QED
  BY <1>3, FS_CardinalityType

(* While registers are counted, one is free unless all are held.           *)
LEMMA FreeIsThere ==
    ASSUME TypeOK, Counted, pc = "scan", ~ NoFreeRegister
    PROVE  /\ Len(registers) \in Nat \ {0}
           /\ registers[Len(registers)] \in 0..(regs_count - 1)
<1>1. Len(registers) \in Nat /\ regs_count \in Nat
  BY DEF TypeOK
<1>2. Len(registers) # 0
  BY <1>1, ActiveFinite DEF Counted, NoFreeRegister
<1>3. Len(registers) \in 1..Len(registers)
  BY <1>1, <1>2
<1>4. QED
  BY <1>1, <1>2, <1>3 DEF TypeOK

(* Popping the free stack. *)
LEMMA Popped ==
    ASSUME NEW T, NEW s \in Seq(T), s # <<>>
    PROVE  LET popped == SubSeq(s, 1, Len(s) - 1)
           IN  /\ popped \in Seq(T)
               /\ Len(popped) = Len(s) - 1
               /\ \A i \in 1..(Len(s) - 1) : popped[i] = s[i]
<1>1. Len(s) \in Nat \ {0}
  OBVIOUS
<1>2. Len(s) - 1 \in Nat /\ Len(s) - 1 + 1 - 1 = Len(s) - 1 /\ Len(s) - 1 <= Len(s)
  BY <1>1
<1>3. QED
  BY <1>1, <1>2, SubSeqProperties

(* Renaming keeps a list of literals a list of literals. *)
LEMMA RenamedSeq ==
    ASSUME NEW s \in Seq(Nat), NEW it \in RegLiveInterval
    PROVE  [i \in 1..Len(s) |-> RenameReg(s[i], it)] \in Seq(Nat)
<1> DEFINE renamed == [i \in 1..Len(s) |-> RenameReg(s[i], it)]
<1>1. \A i \in 1..Len(s) : renamed[i] \in Nat
  BY DEF RenameReg, RegLiveInterval
<1>2. DOMAIN renamed = 1..Len(s) /\ Len(s) \in Nat
  OBVIOUS
<1>3. renamed \in [1..Len(s) -> Nat]
  BY <1>1
<1>4. QED
  BY <1>2, <1>3

(* Renaming and moving keep an instruction an instruction.                 *)
LEMMA RenameInsType ==
    ASSUME NEW ins \in Instruction, NEW it \in RegLiveInterval
    PROVE  RenameIns(ins, it) \in Instruction
<1>1. \A r \in Nat : RenameReg(r, it) \in Nat
  BY DEF RenameReg, RegLiveInterval
<1>2. ins.lits \in Seq(Nat) /\ ins.reads \subseteq Nat /\ ins.write \in Nat \cup {NoReg}
  BY DEF Instruction
<1>3. RenameLits(ins, it) \in Seq(Nat)
  BY <1>2, RenamedSeq DEF RenameLits
<1>4. { RenameReg(r, it) : r \in ins.reads } \subseteq Nat
  BY <1>1, <1>2
<1>5. (IF ins.write = NoReg THEN NoReg ELSE RenameReg(ins.write, it)) \in Nat \cup {NoReg}
  BY <1>1, <1>2
<1>6. QED
  BY <1>3, <1>4, <1>5 DEF RenameIns, Instruction

LEMMA ShiftInsType ==
    ASSUME NEW ins \in Instruction, NEW regEnd \in Nat, NEW offset \in Int,
           0 <= regEnd + offset
    PROVE  ShiftIns(ins, regEnd, offset) \in Instruction
<1>1. ins.lits \in Seq(Nat)
  BY DEF Instruction
<1> DEFINE moved == [i \in 1..Len(ins.lits) |->
                        IF ins.lits[i] >= regEnd THEN ins.lits[i] + offset ELSE ins.lits[i]]
<1>2. \A i \in 1..Len(ins.lits) : moved[i] \in Nat
  BY <1>1
<1>3. moved \in Seq(Nat)
  BY <1>1, <1>2
<1>4. ShiftIns(ins, regEnd, offset) = [ins EXCEPT !.lits = moved]
  BY DEF ShiftIns
<1>5. QED
  BY <1>3, <1>4 DEF Instruction

(* The moved header is a header as long as its registers do not go below 0. *)
LEMMA MoveRegIndexType ==
    ASSUME NEW a \in Args, NEW offset \in Int, 0 <= a.registerEnd + offset
    PROVE  MoveRegIndex(a, offset) \in Args
<1>1. /\ a \in [argumentEnd : Nat, registerEnd : Nat, literalEnd : Nat]
      /\ a.registerEnd \in Nat /\ a.literalEnd \in Nat /\ a.registerEnd <= a.literalEnd
  BY DEF Args
<1>2. /\ a.registerEnd + offset \in Nat /\ a.literalEnd + offset \in Nat
      /\ a.registerEnd + offset <= a.literalEnd + offset
  BY <1>1
<1> DEFINE m == MoveRegIndex(a, offset)
<1>3. m \in [argumentEnd : Nat, registerEnd : Nat, literalEnd : Nat]
  BY <1>1, <1>2 DEF MoveRegIndex
<1>4. m.registerEnd = a.registerEnd + offset /\ m.literalEnd = a.literalEnd + offset
  BY <1>1 DEF MoveRegIndex
<1>5. QED
  BY <1>2, <1>3, <1>4 DEF Args

-----------------------------------------------------------------------------
(* Each action keeps the types, the header count and the order. *)
LEMMA ShapeInit == Init => Shape
<1> SUFFICES ASSUME Init PROVE Shape
  OBVIOUS
<1>1. todo \in Seq(Bytecode) /\ todo # <<>>
  BY ProgramsAssumption DEF Init
<1>2. bytecode \in Bytecode
  BY <1>1 DEF Init
<1>3. code \in Seq(Instruction) /\ args \in Args
  BY <1>2 DEF Init, Bytecode
<1>4. TypeOK
  BY <1>1, <1>2, <1>3 DEF Init, TypeOK
<1>5. HeaderCount /\ Placed /\ Sorted
  BY DEF Init, HeaderCount, Placed, Sorted
<1>6. QED
  BY <1>4, <1>5 DEF Shape

LEMMA ShapeRun ==
    ASSUME Shape, Run
    PROVE  Shape'
<1> DEFINE f == Head(todo)
<1>1. f \in Bytecode /\ Tail(todo) \in Seq(Bytecode)
  BY DEF Shape, TypeOK, Run
<1>2. /\ f.args \in Args /\ f.args.registerEnd \in Nat
      /\ f.code \in Seq(Instruction) /\ f.ranges \subseteq LiveRange
  BY <1>1 DEF Bytecode, Args
<1>3. TypeOK'
  BY <1>1, <1>2 DEF Run, TypeOK
<1>4. (HeaderCount /\ Placed /\ Sorted)'
  BY DEF Run, HeaderCount, Placed, Sorted
<1>5. QED
  BY <1>3, <1>4 DEF Shape

LEMMA ShapeSortNext ==
    ASSUME Shape, NEW range \in pending, SortNext(range)
    PROVE  Shape'
<1> DEFINE n  == Len(intervals)
           it == [from  |-> range.reg, to |-> range.reg,
                  start |-> range.start, end |-> range.end]
<1>1. pending \subseteq LiveRange /\ range \in LiveRange
  BY DEF Shape, TypeOK, Bytecode
<1>2. it \in RegLiveInterval
  BY <1>1 DEF LiveRange, RegLiveInterval
<1>3. /\ intervals \in Seq(RegLiveInterval)
      /\ n \in Nat
      /\ intervals' = Append(intervals, it)
      /\ pc = "sort" /\ active = {} /\ cur = 1
  BY DEF Shape, TypeOK, SortNext, Placed
<1>3a. n \in Nat
  BY <1>3
<1>4. /\ intervals' \in Seq(RegLiveInterval)
      /\ Len(intervals') = n + 1
      /\ \A i \in 1..n : intervals'[i] = intervals[i]
      /\ intervals'[n + 1] = it
  BY <1>2, <1>3
<1>5. TypeOK'
  BY <1>3, <1>4 DEF Shape, TypeOK, SortNext
<1>6. HeaderCount'
  BY DEF Shape, HeaderCount, SortNext
<1>7. \A other \in pending : range.start <= other.start
  <2> TAKE other \in pending
  <2>1. ~ StartsBefore(other, range)
    BY DEF SortNext
  <2>2. other.start \in Nat /\ range.start \in Nat
    BY <1>1 DEF LiveRange
  <2>3. QED
    BY <2>1, <2>2 DEF StartsBefore
<1>8. \A i \in 1..n : \A other \in pending : intervals[i].start <= other.start
  BY <1>3 DEF Shape, Placed
<1>9. Placed'
  <2> SUFFICES ASSUME NEW i \in 1..(n + 1), NEW other \in pending'
               PROVE  intervals'[i].start <= other.start
    BY <1>3, <1>4 DEF Placed, SortNext
  <2>1. other \in pending
    BY DEF SortNext
  <2>2. CASE i \in 1..n
    BY <1>4, <1>8, <2>1, <2>2
  <2>3. CASE i = n + 1
    BY <1>4, <1>7, <2>1, <2>3
  <2>4. i \in 1..n \/ i = n + 1
    BY <1>3a
  <2>5. QED
    BY <2>2, <2>3, <2>4
<1>10. Sorted'
  <2> SUFFICES ASSUME NEW i \in 1..(n + 1), NEW j \in 1..(n + 1), i < j
               PROVE  intervals'[i].start <= intervals'[j].start
    BY <1>3, <1>4 DEF Sorted
  <2>1. i \in 1..n
    BY <1>3a
  <2>2. CASE j \in 1..n
    BY <1>4, <2>1, <2>2 DEF Shape, Sorted
  <2>3. CASE j = n + 1
    BY <1>4, <1>8, <2>1, <2>3
  <2>4. j \in 1..n \/ j = n + 1
    BY <1>3a
  <2>5. QED
    BY <2>2, <2>3, <2>4
<1>11. QED
  BY <1>5, <1>6, <1>9, <1>10 DEF Shape

LEMMA ShapeBeginScan ==
    ASSUME Shape, BeginScan
    PROVE  Shape'
<1>1. regs_count \in Nat
  BY DEF Shape, TypeOK
<1>2. \A i \in 1..regs_count : AllRegisters(regs_count)[i] \in 0..(regs_count - 1)
  BY <1>1 DEF AllRegisters
<1>3. AllRegisters(regs_count) \in Seq(0..(regs_count - 1))
  BY <1>1, <1>2 DEF AllRegisters
<1>4. TypeOK'
  BY <1>3 DEF BeginScan, Shape, TypeOK
<1>5. (HeaderCount /\ Placed /\ Sorted)'
  BY DEF BeginScan, Shape, HeaderCount, Placed, Sorted
<1>6. QED
  BY <1>4, <1>5 DEF Shape

(* The scan's own actions.  Expire returns the register of an active       *)
(* interval, Allocate takes one from a stack that is not empty.            *)
LEMMA ShapeExpire ==
    ASSUME Shape, Pool, NEW a \in active, Expire(a)
    PROVE  Shape'
<1>1. a \in 1..Len(intervals) /\ intervals[a].to \in 0..(regs_count - 1)
  BY DEF Shape, TypeOK, Pool, PoolPartition, HeldRegisters, Expire, Scanning
<1>2. registers' \in Seq(0..(regs_count - 1))
  BY <1>1 DEF Shape, TypeOK, Expire, Released
<1>3. TypeOK'
  BY <1>2 DEF Shape, TypeOK, Expire
<1>4. (HeaderCount /\ Placed /\ Sorted)'
  BY DEF Shape, HeaderCount, Placed, Sorted, Expire, Scanning
<1>5. QED
  BY <1>3, <1>4 DEF Shape

LEMMA ShapeAllocate ==
    ASSUME Shape, Pool, Allocate
    PROVE  Shape'
<1> DEFINE reg == registers[Len(registers)]
<1>1. /\ pc = "scan" /\ cur \in 1..Len(intervals)
      /\ ~ NoFreeRegister
      /\ intervals \in Seq(RegLiveInterval)
  BY DEF Allocate, Purged, Scanning, Shape, TypeOK
<1>2. Len(registers) \in Nat \ {0} /\ reg \in 0..(regs_count - 1)
  BY <1>1, FreeIsThere DEF Shape, Pool
<1>3. regs_count \in Nat /\ reg \in Nat
  BY <1>2 DEF Shape, TypeOK
<1>4. [intervals[cur] EXCEPT !.to = reg] \in RegLiveInterval
  <2>1. intervals[cur] \in RegLiveInterval
    BY <1>1
  <2>2. \A it \in RegLiveInterval, n \in Nat : [it EXCEPT !.to = n] \in RegLiveInterval
    BY DEF RegLiveInterval
  <2>3. QED
    BY <1>3, <2>1, <2>2
<1>5. /\ intervals' \in Seq(RegLiveInterval)
      /\ Len(intervals') = Len(intervals)
      /\ \A i \in 1..Len(intervals) : intervals'[i].start = intervals[i].start
  <2>1. intervals' = [intervals EXCEPT ![cur] = [intervals[cur] EXCEPT !.to = reg]]
    BY DEF Allocate
  <2>2. intervals' \in Seq(RegLiveInterval) /\ Len(intervals') = Len(intervals)
    BY <1>1, <1>4, <2>1
  <2>3. \A i \in 1..Len(intervals) : intervals'[i].start = intervals[i].start
    BY <1>1, <2>1 DEF RegLiveInterval
  <2>4. QED
    BY <2>2, <2>3
<1>6. registers' \in Seq(0..(regs_count - 1))
  <2>1. registers' = SubSeq(registers, 1, Len(registers) - 1)
    BY DEF Allocate
  <2>2. \A i \in 1..(Len(registers) - 1) : registers[i] \in 0..(regs_count - 1)
    BY <1>2 DEF Shape, TypeOK
  <2>3. QED
    BY <1>2, <2>1, <2>2 DEF Shape, TypeOK
<1>7. active' = active \cup {cur} /\ cur' = cur + 1
  BY DEF Allocate
<1>8. Cardinality(active') \in 0..regs_count
  <2>1. Cardinality(active) + Len(registers) = regs_count
    BY <1>1 DEF Pool, Counted
  <2>2. IsFiniteSet(active) /\ Cardinality(active) \in Nat
    BY ActiveFinite DEF Shape
  <2>3. Cardinality(active') \in {Cardinality(active), Cardinality(active) + 1}
    BY <1>7, <2>2, FS_AddElement
  <2>4. QED
    BY <1>2, <1>3, <2>1, <2>2, <2>3
<1>9. new_regs_count' \in 0..regs_count
  BY <1>8 DEF Allocate, PeakCount, Shape, TypeOK
<1>10. TypeOK'
  <2>1. /\ UNCHANGED <<todo, pc, bytecode, code, args, regs_count, pending>>
        /\ TypeOK
    BY DEF Allocate, Shape
  <2>2. cur' \in 1..(Len(intervals') + 1) /\ active' \subseteq 1..Len(intervals')
    <3>1. Len(intervals) \in Nat /\ active \subseteq 1..Len(intervals)
      BY <1>1, <2>1 DEF TypeOK
    <3>2. QED
      BY <1>1, <1>5, <1>7, <3>1
  <2>3. registers' \in Seq(0..(regs_count' - 1)) /\ new_regs_count' \in 0..regs_count'
    BY <1>6, <1>9, <2>1
  <2>4. QED
    BY <1>5, <2>1, <2>2, <2>3 DEF TypeOK
<1>11. (HeaderCount /\ Placed /\ Sorted)'
  BY <1>1, <1>5 DEF Allocate, Shape, HeaderCount, Placed, Sorted
<1>12. QED
  BY <1>10, <1>11 DEF Shape

(* The second half of a run renames and moves what is left. *)
LEMMA ShapeRename ==
    ASSUME Shape, Rename
    PROVE  Shape'
<1>1. /\ cur \in 1..Len(intervals)
      /\ intervals \in Seq(RegLiveInterval) /\ code \in Seq(Instruction)
  BY DEF Shape, TypeOK, Rename
<1>2. intervals[cur] \in RegLiveInterval
  BY <1>1
<1>3. \A i \in 1..Len(code) : RenameIns(code[i], intervals[cur]) \in Instruction
  BY <1>1, <1>2, RenameInsType
<1>4. code' \in Seq(Instruction)
  BY <1>1, <1>3 DEF Rename
<1>5. TypeOK'
  BY <1>1, <1>4 DEF Shape, TypeOK, Rename
<1>6. (HeaderCount /\ Placed /\ Sorted)'
  BY DEF Shape, HeaderCount, Placed, Sorted, Rename
<1>7. QED
  BY <1>5, <1>6 DEF Shape

LEMMA ShapeShift ==
    ASSUME Shape, Shift
    PROVE  Shape'
<1> DEFINE offset == new_regs_count - regs_count
<1>1. /\ args \in Args /\ code \in Seq(Instruction)
      /\ new_regs_count \in 0..regs_count /\ regs_count \in Nat
      /\ args.registerEnd = regs_count
  BY DEF Shape, TypeOK, HeaderCount, Shift
<1>2. /\ args.registerEnd \in Nat /\ args.literalEnd \in Nat
      /\ args.registerEnd <= args.literalEnd
  BY <1>1 DEF Args
<1>3. offset \in Int /\ 0 <= args.registerEnd + offset
  BY <1>1, <1>2
<1>4. \A i \in 1..Len(code) :
         ShiftIns(code[i], args.registerEnd, offset) \in Instruction
  BY <1>1, <1>2, <1>3, ShiftInsType
<1>5. code' \in Seq(Instruction)
  BY <1>1, <1>4 DEF Shift
<1>6. args' \in Args
  BY <1>1, <1>3, MoveRegIndexType DEF Shift
<1>7. TypeOK'
  BY <1>5, <1>6 DEF Shape, TypeOK, Shift
<1>8. (HeaderCount /\ Placed /\ Sorted)'
  BY DEF Shape, HeaderCount, Placed, Sorted, Shift
<1>9. QED
  BY <1>7, <1>8 DEF Shape

LEMMA ShapeStep ==
    ASSUME Shape, Pool, [Next]_vars
    PROVE  Shape'
<1>1. CASE SkipPoint
  BY <1>1 DEF SkipPoint, Purged, Scanning, Shape, TypeOK, HeaderCount, Placed, Sorted
<1>2. CASE EndScan
  BY <1>2 DEF EndScan, ScanOver, Purged, Scanning, Shape, TypeOK, HeaderCount, Placed, Sorted
<1>3. CASE KeepCode
  BY <1>3 DEF KeepCode, Shape, TypeOK, HeaderCount, Placed, Sorted
<1>4. CASE BeginRename
  BY <1>4 DEF BeginRename, Shape, TypeOK, HeaderCount, Placed, Sorted
<1>5. CASE UNCHANGED vars
  BY <1>5 DEF vars, Shape, TypeOK, HeaderCount, Placed, Sorted
<1>6. QED
  BY <1>1, <1>2, <1>3, <1>4, <1>5, ShapeRun, ShapeSortNext, ShapeBeginScan,
     ShapeExpire, ShapeAllocate, ShapeRename, ShapeShift DEF Next
-----------------------------------------------------------------------------
(* Each action keeps the registers accounted for. *)
LEMMA PoolBeginScan ==
    ASSUME Shape, BeginScan
    PROVE  Pool'
<1>1. /\ active' = {} /\ registers' = AllRegisters(regs_count)
      /\ regs_count' = regs_count /\ regs_count \in Nat
  BY DEF BeginScan, Shape, TypeOK, Placed
<1>2. /\ Len(registers') = regs_count
      /\ \A i \in 1..regs_count : registers'[i] = regs_count - i
  BY <1>1 DEF AllRegisters
<1>3. Counted'
  BY <1>1, <1>2, FS_EmptySet DEF Counted
<1>4. \A r \in 0..(regs_count - 1) :
         regs_count - r \in 1..regs_count /\ registers'[regs_count - r] = r
  BY <1>1, <1>2
<1>5. FreeRegisters' = 0..(regs_count - 1)
  BY <1>1, <1>2, <1>4 DEF FreeRegisters
<1>6. HeldRegisters' = {}
  BY <1>1 DEF HeldRegisters
<1>7. \A i, j \in 1..regs_count : registers'[i] = registers'[j] => i = j
  BY <1>1, <1>2
<1>8. PoolPartition'
  BY <1>1, <1>2, <1>5, <1>6, <1>7 DEF PoolPartition
<1>9. ActiveMapped'
  BY <1>1 DEF ActiveMapped
<1>10. QED
  BY <1>3, <1>8, <1>9 DEF Pool

LEMMA PoolExpire ==
    ASSUME Shape, Pool, NEW a \in active, Expire(a)
    PROVE  Pool'
<1> DEFINE n   == Len(registers)
           reg == intervals[a].to
<1>1. /\ pc = "scan" /\ pc' = "scan"
      /\ active' = active \ {a} /\ registers' = Append(registers, reg)
      /\ UNCHANGED <<intervals, cur, regs_count>>
  BY DEF Expire, Released, Scanning
<1>2. /\ n \in Nat
      /\ reg \in HeldRegisters /\ reg \in 0..(regs_count - 1)
      /\ registers \in Seq(0..(regs_count - 1))
  BY <1>1 DEF HeldRegisters, Pool, PoolPartition, Shape, TypeOK
<1>3. /\ Len(registers') = n + 1
      /\ \A i \in 1..n : registers'[i] = registers[i]
      /\ registers'[n + 1] = reg
  BY <1>1, <1>2
<1>4. Counted'
  <2>1. Cardinality(active) + n = regs_count /\ regs_count \in Nat
    BY <1>1 DEF Pool, Counted, Shape, TypeOK
  <2>2. IsFiniteSet(active) /\ Cardinality(active) \in Nat
    BY ActiveFinite DEF Shape
  <2>3. Cardinality(active') = Cardinality(active) - 1
    BY <1>1, <2>2, FS_RemoveElement
  <2>4. QED
    BY <1>1, <1>2, <1>3, <2>1, <2>2, <2>3 DEF Counted
<1>5. \A i \in 1..n : registers[i] # reg
  BY <1>1, <1>2 DEF Pool, PoolPartition, FreeRegisters
<1>6. \A i, j \in 1..n : registers[i] = registers[j] => i = j
  BY <1>1 DEF Pool, PoolPartition
<1>7. \A i, j \in 1..(n + 1) : registers'[i] = registers'[j] => i = j
  <2> SUFFICES ASSUME NEW i \in 1..(n + 1), NEW j \in 1..(n + 1),
                      registers'[i] = registers'[j]
               PROVE  i = j
    OBVIOUS
  <2>1. i \in 1..n \/ i = n + 1
    BY <1>2
  <2>2. j \in 1..n \/ j = n + 1
    BY <1>2
  <2>3. QED
    BY <1>3, <1>5, <1>6, <2>1, <2>2
<1>8. FreeRegisters' = FreeRegisters \cup {reg}
  <2>1. 1..(n + 1) = (1..n) \cup {n + 1}
    BY <1>2
  <2>2. FreeRegisters' = { registers'[i] : i \in 1..(n + 1) }
    BY <1>3 DEF FreeRegisters
  <2>3. QED
    BY <1>3, <2>1, <2>2 DEF FreeRegisters
<1>9. \A b, c \in active : intervals[b].to = intervals[c].to => b = c
  BY <1>1 DEF Pool, PoolPartition
<1>10. HeldRegisters' = HeldRegisters \ {reg}
  BY <1>1, <1>9 DEF HeldRegisters
<1>11. /\ FreeRegisters \cap HeldRegisters = {}
       /\ FreeRegisters \cup HeldRegisters = 0..(regs_count - 1)
  BY <1>1 DEF Pool, PoolPartition
<1>12. PoolPartition'
  BY <1>1, <1>2, <1>3, <1>7, <1>8, <1>9, <1>10, <1>11 DEF PoolPartition
<1>13. ActiveMapped'
  BY <1>1 DEF ActiveMapped, Mapped, IsPoint, Pool
<1>14. QED
  BY <1>4, <1>12, <1>13 DEF Pool

(* What Allocate does, in terms of the pool. *)
LEMMA AllocateEffect ==
    ASSUME Shape, Pool, Allocate
    PROVE  LET n   == Len(registers)
               reg == registers[n]
           IN  /\ n \in Nat \ {0}
               /\ reg \in FreeRegisters
               /\ cur \in 1..Len(intervals) /\ cur \notin active
               /\ Len(intervals') = Len(intervals)
               /\ intervals'[cur].to = reg
               /\ \A i \in 1..Len(intervals) :
                     /\ intervals'[i].from = intervals[i].from
                     /\ intervals'[i].start = intervals[i].start
                     /\ intervals'[i].end = intervals[i].end
                     /\ i # cur => intervals'[i] = intervals[i]
<1> DEFINE n   == Len(registers)
           reg == registers[n]
<1>1. /\ pc = "scan" /\ cur \in 1..Len(intervals) /\ ~ NoFreeRegister
      /\ intervals \in Seq(RegLiveInterval)
      /\ intervals' = [intervals EXCEPT ![cur] = [intervals[cur] EXCEPT !.to = reg]]
  BY DEF Allocate, Purged, Scanning, Shape, TypeOK
<1>2. n \in Nat \ {0}
  BY <1>1, FreeIsThere DEF Shape, Pool
<1>3. reg \in FreeRegisters
  BY <1>2 DEF FreeRegisters
<1>4. cur \notin active
  BY <1>1 DEF Pool, ActiveMapped, Mapped
<1>a. intervals[cur] \in RegLiveInterval
  BY <1>1
<1>5. intervals[cur] \in [from : Nat, to : Nat, start : Nat, end : Nat]
  BY <1>a DEF RegLiveInterval
<1>6. /\ [intervals[cur] EXCEPT !.to = reg].to = reg
      /\ [intervals[cur] EXCEPT !.to = reg].from = intervals[cur].from
      /\ [intervals[cur] EXCEPT !.to = reg].start = intervals[cur].start
      /\ [intervals[cur] EXCEPT !.to = reg].end = intervals[cur].end
  BY <1>5
<1>7. QED
  BY <1>1, <1>2, <1>3, <1>4, <1>6

LEMMA PoolAllocate ==
    ASSUME Shape, Pool, Allocate
    PROVE  Pool'
<1> DEFINE n   == Len(registers)
           reg == registers[n]
<1>1. /\ pc = "scan" /\ pc' = "scan" /\ cur' = cur + 1
      /\ active' = active \cup {cur} /\ registers' = SubSeq(registers, 1, n - 1)
      /\ regs_count' = regs_count
      /\ ~ IsPoint(intervals[cur])
  BY DEF Allocate, Purged, Scanning
<1>2. /\ n \in Nat \ {0} /\ reg \in FreeRegisters
      /\ cur \in 1..Len(intervals) /\ cur \notin active
      /\ intervals'[cur].to = reg
      /\ \A i \in 1..Len(intervals) :
            /\ intervals'[i].start = intervals[i].start
            /\ intervals'[i].end = intervals[i].end
            /\ i # cur => intervals'[i] = intervals[i]
  BY AllocateEffect
<1>a. registers \in Seq(0..(regs_count - 1)) /\ registers # <<>>
  BY <1>2 DEF Shape, TypeOK
<1>3. /\ Len(registers') = n - 1
      /\ \A i \in 1..(n - 1) : registers'[i] = registers[i]
  BY <1>1, <1>a, Popped
<1>4. Counted'
  <2>1. Cardinality(active) + n = regs_count /\ regs_count \in Nat
    BY <1>1 DEF Pool, Counted, Shape, TypeOK
  <2>2. IsFiniteSet(active) /\ Cardinality(active) \in Nat
    BY ActiveFinite DEF Shape
  <2>3. Cardinality(active') = Cardinality(active) + 1
    BY <1>1, <1>2, <2>2, FS_AddElement
  <2>4. Cardinality(active') + Len(registers') = regs_count
    BY <1>2, <1>3, <2>1, <2>2, <2>3
  <2>5. QED
    BY <1>1, <2>4 DEF Counted
<1>5. active \subseteq 1..(cur - 1) /\ \A a \in active : ~ IsPoint(intervals[a])
  BY <1>1 DEF Pool, ActiveMapped, Mapped
<1>6. \A i, j \in 1..n : registers[i] = registers[j] => i = j
  BY <1>1 DEF Pool, PoolPartition
<1>7. FreeRegisters' = FreeRegisters \ {reg}
  <2>1. FreeRegisters' = { registers[i] : i \in 1..(n - 1) }
    BY <1>3 DEF FreeRegisters
  <2>2. 1..n = (1..(n - 1)) \cup {n} /\ n \in 1..n /\ n \notin 1..(n - 1)
    BY <1>2
  <2>3. FreeRegisters = { registers[i] : i \in 1..(n - 1) } \cup {reg}
    BY <2>2 DEF FreeRegisters
  <2>4. reg \notin { registers[i] : i \in 1..(n - 1) }
    BY <1>6, <2>2
  <2>5. QED
    BY <2>1, <2>3, <2>4
<1>8. \A a \in active : intervals'[a] = intervals[a]
  BY <1>2 DEF Shape, TypeOK
<1>9. HeldRegisters' = HeldRegisters \cup {reg}
  BY <1>1, <1>2, <1>8 DEF HeldRegisters
<1>10. /\ FreeRegisters \cap HeldRegisters = {}
       /\ FreeRegisters \cup HeldRegisters = 0..(regs_count - 1)
       /\ \A b, c \in active : intervals[b].to = intervals[c].to => b = c
  BY <1>1 DEF Pool, PoolPartition
<1>11. \A a \in active : intervals[a].to # reg
  BY <1>2, <1>10 DEF HeldRegisters
<1>12. \A b, c \in active' : intervals'[b].to = intervals'[c].to => b = c
  BY <1>1, <1>2, <1>8, <1>10, <1>11
<1>13. \A i, j \in 1..(n - 1) : registers'[i] = registers'[j] => i = j
  BY <1>2, <1>3, <1>6
<1>14. PoolPartition'
  BY <1>1, <1>2, <1>3, <1>7, <1>9, <1>10, <1>12, <1>13 DEF PoolPartition
<1>15. ActiveMapped'
  <2>1. cur \in Nat /\ 1..(cur' - 1) = (1..(cur - 1)) \cup {cur}
    BY <1>1, <1>2 DEF Shape, TypeOK
  <2>2. \A a \in active' : a \in 1..(cur' - 1)
    BY <1>1, <1>5, <2>1
  <2>3. \A a \in active' : a \in 1..Len(intervals) /\ ~ IsPoint(intervals[a])
    BY <1>1, <1>2, <1>5 DEF Shape, TypeOK
  <2>4. \A a \in active' : ~ IsPoint(intervals'[a])
    BY <1>2, <2>3 DEF IsPoint
  <2>5. QED
    BY <2>2, <2>4 DEF ActiveMapped, Mapped, IsPoint
<1>16. QED
  BY <1>4, <1>14, <1>15 DEF Pool

LEMMA PoolStep ==
    ASSUME Shape, Pool, [Next]_vars
    PROVE  Pool'
<1>1. CASE pc' # "scan"
  BY <1>1 DEF Pool, ActiveMapped, Counted, PoolPartition
<1>2. CASE SkipPoint
  <2>1. UNCHANGED <<pc, intervals, active, registers, regs_count>> /\ cur' = cur + 1
    BY <1>2 DEF SkipPoint
  <2>2. cur \in Nat
    BY DEF Shape, TypeOK
  <2>3. 1..(cur - 1) \subseteq 1..(cur' - 1)
    BY <2>1, <2>2
  <2>4. ActiveMapped'
    BY <2>1, <2>3 DEF Pool, ActiveMapped, Mapped, IsPoint
  <2>5. Counted'
    BY <2>1 DEF Pool, Counted
  <2>6. FreeRegisters' = FreeRegisters /\ HeldRegisters' = HeldRegisters
    BY <2>1 DEF FreeRegisters, HeldRegisters
  <2>7. PoolPartition'
    BY <2>1, <2>6 DEF Pool, PoolPartition
  <2>8. QED
    BY <2>4, <2>5, <2>7 DEF Pool
<1>3. CASE UNCHANGED vars
  BY <1>3 DEF vars, Pool, ActiveMapped, Mapped, IsPoint, Counted, PoolPartition,
              FreeRegisters, HeldRegisters
<1>4. CASE Run \/ EndScan \/ KeepCode \/ BeginRename \/ Rename \/ Shift
             \/ \E range \in pending : SortNext(range)
  BY <1>1, <1>4 DEF Run, EndScan, KeepCode, BeginRename, Rename, Shift, SortNext
<1>5. QED
  BY <1>2, <1>3, <1>4, PoolBeginScan, PoolExpire, PoolAllocate DEF Next
-----------------------------------------------------------------------------
(* What the scan has passed is over, and the passed intervals are apart.   *)
Apart == Retired /\ NoInterference

(* Passing the current interval makes it mapped unless it is a point.      *)
LEMMA PassCurrent ==
    ASSUME Shape, Scanning, cur' = cur + 1, Len(intervals') = Len(intervals),
           \A i \in 1..Len(intervals) :
              intervals'[i].start = intervals[i].start /\ intervals'[i].end = intervals[i].end
    PROVE  /\ cur \in 1..Len(intervals)
           /\ Mapped \subseteq 1..(cur - 1)
           /\ Mapped' = Mapped \cup (IF IsPoint(intervals[cur]) THEN {} ELSE {cur})
<1>1. cur \in 1..Len(intervals) /\ Len(intervals) \in Nat
  BY DEF Shape, TypeOK, Scanning
<1>2. 1..(cur' - 1) = (1..(cur - 1)) \cup {cur} /\ 1..(cur - 1) \subseteq 1..Len(intervals)
  BY <1>1
<1>3. \A i \in 1..Len(intervals) : IsPoint(intervals'[i]) <=> IsPoint(intervals[i])
  BY DEF IsPoint
<1>4. Mapped' = { i \in 1..(cur' - 1) : ~ IsPoint(intervals'[i]) }
  BY DEF Mapped, IsPoint
<1>5. Mapped' = { i \in (1..(cur - 1)) \cup {cur} : ~ IsPoint(intervals[i]) }
  BY <1>1, <1>2, <1>3, <1>4
<1>6. QED
  BY <1>1, <1>5 DEF Mapped

(* What was over when the scan stood at cur is over at cur + 1. *)
LEMMA RetiredPass ==
    ASSUME Shape, Retired, Scanning, cur + 1 <= Len(intervals)
    PROVE  \A i \in Mapped \ active : intervals[i].end <= intervals[cur + 1].start
<1>1. /\ cur \in 1..Len(intervals) /\ cur + 1 \in 1..Len(intervals) /\ cur < cur + 1
      /\ Len(intervals) \in Nat
  BY DEF Shape, TypeOK, Scanning
<1>2. intervals[cur].start <= intervals[cur + 1].start
  BY <1>1 DEF Shape, Sorted
<1>3. \A i \in 1..Len(intervals) : intervals[i].start \in Nat /\ intervals[i].end \in Nat
  <2> TAKE i \in 1..Len(intervals)
  <2>1. intervals[i] \in RegLiveInterval
    BY DEF Shape, TypeOK
  <2>2. QED
    BY <2>1 DEF RegLiveInterval
<1>4. TAKE i \in Mapped \ active
<1>5. i \in 1..Len(intervals) /\ intervals[i].end <= intervals[cur].start
  BY <1>1 DEF Retired, Mapped
<1>6. intervals[i].end \in Nat /\ intervals[cur].start \in Nat
      /\ intervals[cur + 1].start \in Nat
  BY <1>1, <1>3, <1>5
<1>7. QED
  BY <1>2, <1>5, <1>6

LEMMA ApartExpire ==
    ASSUME Shape, Pool, Apart, NEW a \in active, Expire(a)
    PROVE  Apart'
<1>1. /\ UNCHANGED <<pc, intervals, cur>> /\ active' = active \ {a} /\ Scanning
      /\ intervals[a].end <= intervals[cur].start
  BY DEF Expire, Expired
<1>2. Mapped' = Mapped
  BY <1>1 DEF Mapped, IsPoint
<1>3. Retired'
  BY <1>1, <1>2 DEF Apart, Retired, Scanning
<1>4. NoInterference'
  BY <1>1, <1>2 DEF Apart, NoInterference
<1>5. QED
  BY <1>3, <1>4 DEF Apart

LEMMA ApartSkipPoint ==
    ASSUME Shape, Pool, Apart, SkipPoint
    PROVE  Apart'
<1>1. /\ UNCHANGED <<pc, intervals, active>> /\ cur' = cur + 1 /\ Scanning
      /\ IsPoint(intervals[cur])
  BY DEF SkipPoint, Purged
<1>2. Mapped' = Mapped
  BY <1>1, PassCurrent
<1>3. Retired'
  BY <1>1, <1>2, RetiredPass DEF Apart, Retired, Scanning
<1>4. NoInterference'
  BY <1>1, <1>2 DEF Apart, NoInterference
<1>5. QED
  BY <1>3, <1>4 DEF Apart

LEMMA ApartAllocate ==
    ASSUME Shape, Pool, Apart, Allocate
    PROVE  Apart'
<1> DEFINE n   == Len(registers)
           reg == registers[n]
<1>1. /\ pc = "scan" /\ pc' = "scan" /\ Scanning /\ cur' = cur + 1
      /\ active' = active \cup {cur} /\ ~ IsPoint(intervals[cur])
  BY DEF Allocate, Purged, Scanning
<1>2. /\ reg \in FreeRegisters /\ cur \notin active
      /\ Len(intervals') = Len(intervals) /\ intervals'[cur].to = reg
      /\ \A i \in 1..Len(intervals) :
            /\ intervals'[i].start = intervals[i].start
            /\ intervals'[i].end = intervals[i].end
            /\ i # cur => intervals'[i] = intervals[i]
  BY AllocateEffect
<1>3. /\ cur \in 1..Len(intervals) /\ Mapped \subseteq 1..(cur - 1)
      /\ Mapped' = Mapped \cup {cur}
  BY <1>1, <1>2, PassCurrent
<1>a. cur \in Nat /\ Len(intervals) \in Nat
  BY DEF Shape, TypeOK
<1>4. \A i \in Mapped : i \in 1..Len(intervals) /\ i < cur
  BY <1>3, <1>a
<1>5. Retired'
  <2> SUFFICES ASSUME cur + 1 <= Len(intervals), NEW i \in Mapped' \ active'
               PROVE  intervals'[i].end <= intervals'[cur + 1].start
    BY <1>1, <1>2 DEF Retired, Scanning
  <2>1. i \in Mapped \ active
    BY <1>1, <1>3
  <2>2. intervals[i].end <= intervals[cur + 1].start
    BY <1>1, <2>1, RetiredPass DEF Apart
  <2>3. i \in 1..Len(intervals) /\ cur + 1 \in 1..Len(intervals)
    BY <1>4, <1>a, <2>1
  <2>4. QED
    BY <1>2, <2>2, <2>3
<1>6. NoInterference'
  <2> SUFFICES ASSUME NEW i \in Mapped', NEW j \in Mapped', i < j,
                      intervals'[i].end > intervals'[j].start
               PROVE  intervals'[i].to # intervals'[j].to
    BY DEF NoInterference
  <2>1. i \in Mapped /\ i # cur
    BY <1>3, <1>4, <1>a
  <2>2. i \in 1..Len(intervals) /\ j \in 1..Len(intervals)
    BY <1>3, <1>4, <2>1
  <2>3. intervals'[i] = intervals[i] /\ intervals[i].end > intervals[j].start
    BY <1>2, <2>1, <2>2
  <2>4. CASE j = cur
    <3>1. intervals[i] \in RegLiveInterval /\ intervals[cur] \in RegLiveInterval
      BY <1>3, <2>2 DEF Shape, TypeOK
    <3>2. intervals[i].end \in Nat /\ intervals[cur].start \in Nat
      BY <3>1 DEF RegLiveInterval
    <3>3. i \in active
      BY <1>1, <2>1, <2>3, <2>4, <3>2 DEF Apart, Retired
    <3>4. intervals[i].to \in HeldRegisters
      BY <3>3 DEF HeldRegisters
    <3>5. intervals[i].to # reg
      BY <1>1, <1>2, <3>4 DEF Pool, PoolPartition
    <3>6. QED
      BY <1>2, <2>3, <2>4, <3>5
  <2>5. CASE j # cur
    <3>1. j \in Mapped /\ intervals'[j] = intervals[j]
      BY <1>2, <1>3, <2>2, <2>5
    <3>2. intervals[i].to # intervals[j].to
      BY <1>1, <2>1, <2>3, <3>1 DEF Apart, NoInterference
    <3>3. QED
      BY <2>3, <3>1, <3>2
  <2>6. QED
    BY <2>4, <2>5
<1>7. QED
  BY <1>5, <1>6 DEF Apart

LEMMA ApartStep ==
    ASSUME Shape, Pool, Apart, [Next]_vars
    PROVE  Apart'
<1>1. CASE pc' \notin {"scan", "update"}
  BY <1>1 DEF Apart, Retired, Scanning, NoInterference
<1>2. CASE BeginScan
  <2>1. cur' = 1 /\ active' = {}
    BY <1>2 DEF BeginScan, Shape, Placed
  <2>2. Mapped' = {}
    BY <2>1 DEF Mapped
  <2>3. QED
    BY <2>2 DEF Apart, Retired, NoInterference
<1>3. CASE EndScan
  <2>1. pc = "scan" /\ pc' = "update" /\ UNCHANGED <<intervals, cur>>
    BY <1>3 DEF EndScan, ScanOver, Purged, Scanning
  <2>2. Mapped' = Mapped
    BY <2>1 DEF Mapped, IsPoint
  <2>3. NoInterference'
    BY <2>1, <2>2 DEF Apart, NoInterference
  <2>4. QED
    BY <2>1, <2>3 DEF Apart, Retired, Scanning
<1>4. CASE UNCHANGED vars
  BY <1>4 DEF vars, Apart, Retired, Scanning, NoInterference, Mapped, IsPoint
<1>5. CASE Run \/ KeepCode \/ BeginRename \/ Rename \/ Shift
             \/ \E range \in pending : SortNext(range)
  BY <1>1, <1>5 DEF Run, KeepCode, BeginRename, Rename, Shift, SortNext
<1>6. QED
  BY <1>2, <1>3, <1>4, <1>5, ApartExpire, ApartSkipPoint, ApartAllocate DEF Next

-----------------------------------------------------------------------------
(* The inductive invariant holds. *)
LEMMA Invariance == Spec => []IInv
<1>1. Init => IInv
  BY ShapeInit DEF Init, IInv, Pool, ActiveMapped, Counted, PoolPartition, Retired,
                   Scanning, NoInterference
<1>2. IInv /\ [Next]_vars => IInv'
  BY ShapeStep, PoolStep, ApartStep DEF IInv, Apart
<1>3. QED
  BY <1>1, <1>2, PTL DEF Spec

(* The pass stays within its data: it never pops an empty free stack, never *)
(* indexes past the intervals, and what it writes back is a header and a    *)
(* code again.                                                              *)
THEOREM TypeCorrect == Spec => []TypeOK
<1>1. IInv => TypeOK
  BY DEF IInv, Shape
<1>2. QED
  BY <1>1, Invariance, PTL

(* Throughout the scan every register is free once or held by one active    *)
(* interval, whatever the ranges.                                           *)
THEOREM RegistersConserved == Spec => []PoolPartition
<1>1. IInv => PoolPartition
  BY DEF IInv, Pool
<1>2. QED
  BY <1>1, Invariance, PTL

(* Intervals that overlap never share a register, whatever the function.    *)
THEOREM AllocationSound == Spec => []NoInterference
<1>1. IInv => NoInterference
  BY DEF IInv
<1>2. QED
  BY <1>1, Invariance, PTL

-----------------------------------------------------------------------------
(* What the sort leaves behind, in full: the intervals are the ranges, one  *)
(* for one, in the order of both keys.                                      *)
(* A function with registers has been taken up. *)
Begun == pc # "idle" \/ regs_count > 0

SameFunction ==
    /\ pc # "idle" => args = bytecode.args
    /\ Begun => bytecode.args.registerEnd = regs_count

CopyOf(it, range) ==
    it.from = range.reg /\ it.start = range.start /\ it.end = range.end

Placement ==
    Begun =>
        /\ \A i \in 1..Len(intervals) :
              \E range \in bytecode.ranges \ pending : CopyOf(intervals[i], range)
        /\ \A range \in bytecode.ranges \ pending :
              \E i \in 1..Len(intervals) : CopyOf(intervals[i], range)
        /\ pc # "sort" => pending = {}

KeySorted ==
    /\ \A i, j \in 1..Len(intervals) : i < j => ~ StartsBefore(intervals[j], intervals[i])
    /\ pc = "sort" =>
          \A i \in 1..Len(intervals), range \in pending : ~ StartsBefore(range, intervals[i])

(* Two intervals of one register come one after the other. *)
FromsApart ==
    \A i, j \in 1..Len(intervals) :
        i # j /\ intervals[i].from = intervals[j].from =>
            Precedes(intervals[i], intervals[j]) \/ Precedes(intervals[j], intervals[i])

Order == SameFunction /\ Placement /\ KeySorted /\ FromsApart

(* LiveWith by positions. *)
LivePositions(i) ==
    { j \in 1..Len(intervals) :
        /\ ~ IsPoint(intervals[j])
        /\ \/ j = i
           \/ /\ ~ StartsBefore(intervals[i], intervals[j])
              /\ intervals[j].end > intervals[i].start }

(* Those of them the scan has passed. *)
LivePassed(i) == LivePositions(i) \cap (1..(cur - 1))

(* new_regs_count is the largest number of them at any interval passed.    *)
PeakReached ==
    /\ pc = "sort" => new_regs_count = 0
    /\ pc \in {"scan", "update"} =>
          /\ \A i \in Mapped : Cardinality(LivePassed(i)) <= new_regs_count
          /\ \/ new_regs_count = 0
             \/ \E i \in Mapped : Cardinality(LivePassed(i)) >= new_regs_count

-----------------------------------------------------------------------------
LEMMA IntervalNats ==
    ASSUME TypeOK
    PROVE  /\ Len(intervals) \in Nat
           /\ \A i \in 1..Len(intervals) :
                 /\ intervals[i].from \in Nat /\ intervals[i].to \in Nat
                 /\ intervals[i].start \in Nat /\ intervals[i].end \in Nat
<1>1. \A i \in 1..Len(intervals) : intervals[i] \in RegLiveInterval
  BY DEF TypeOK
<1>2. \A it \in RegLiveInterval :
         it.from \in Nat /\ it.to \in Nat /\ it.start \in Nat /\ it.end \in Nat
  BY DEF RegLiveInterval
<1>3. QED
  BY <1>1, <1>2 DEF TypeOK

LEMMA RangeFacts ==
    ASSUME TypeOK
    PROVE  /\ RegistersOnly(bytecode.args, bytecode.ranges) /\ InOrder(bytecode.ranges)
           /\ \A range \in bytecode.ranges :
                 /\ range.reg \in Nat /\ range.start \in Nat /\ range.end \in Nat
                 /\ range \in LiveRange
           /\ pending \subseteq bytecode.ranges
<1>1. bytecode.ranges \subseteq LiveRange /\ pending \subseteq bytecode.ranges
  BY DEF TypeOK, Bytecode
<1>2. RangesFit(bytecode.args, bytecode.code, bytecode.ranges)
  BY DEF TypeOK, Bytecode
<1>3. \A range \in LiveRange : range.reg \in Nat /\ range.start \in Nat /\ range.end \in Nat
  BY DEF LiveRange
<1>4. QED
  BY <1>1, <1>2, <1>3 DEF RangesFit

(* All steps but the first of a run and the sort keep what the sort did.   *)
SameKeys ==
    /\ Len(intervals') = Len(intervals)
    /\ \A i \in 1..Len(intervals) :
          /\ intervals'[i].from = intervals[i].from
          /\ intervals'[i].start = intervals[i].start
          /\ intervals'[i].end = intervals[i].end

LEMMA KeysKept ==
    ASSUME Shape, Pool, [Next]_vars, ~ Run, ~ \E range \in pending : SortNext(range)
    PROVE  /\ SameKeys /\ bytecode' = bytecode /\ pending' = pending
           /\ regs_count' = regs_count
           /\ pc' # "idle" => args' = args /\ pc # "idle"
           /\ pc' = "sort" => pc = "sort"
           /\ pc' # "sort" => pc # "sort" \/ pending = {}
<1>1. CASE Allocate
  BY <1>1, AllocateEffect DEF Allocate, Purged, Scanning, SameKeys
<1>2. CASE BeginScan
  BY <1>2 DEF BeginScan, SameKeys
<1>3. CASE \E a \in active : Expire(a)
  BY <1>3 DEF Expire, Scanning, SameKeys
<1>4. CASE SkipPoint
  BY <1>4 DEF SkipPoint, Purged, Scanning, SameKeys
<1>5. CASE EndScan
  BY <1>5 DEF EndScan, ScanOver, Purged, Scanning, SameKeys
<1>6. CASE KeepCode \/ BeginRename \/ Rename \/ Shift
  BY <1>6 DEF KeepCode, BeginRename, Rename, Shift, SameKeys
<1>7. CASE UNCHANGED vars
  BY <1>7 DEF vars, SameKeys
<1>8. QED
  BY <1>1, <1>2, <1>3, <1>4, <1>5, <1>6, <1>7 DEF Next

LEMMA OrderKept ==
    ASSUME Shape, Pool, Order, [Next]_vars, ~ Run, ~ \E range \in pending : SortNext(range)
    PROVE  Order'
<1>1. /\ SameKeys /\ bytecode' = bytecode /\ pending' = pending
      /\ regs_count' = regs_count
      /\ pc' # "idle" => args' = args /\ pc # "idle"
      /\ pc' = "sort" => pc = "sort"
      /\ pc' # "sort" => pc # "sort" \/ pending = {}
  BY KeysKept
<1>2. \A i \in 1..Len(intervals) :
         /\ intervals'[i].from = intervals[i].from
         /\ intervals'[i].start = intervals[i].start
         /\ intervals'[i].end = intervals[i].end
  BY <1>1 DEF SameKeys
<1>3. Len(intervals') = Len(intervals)
  BY <1>1 DEF SameKeys
<1>4. SameFunction'
  BY <1>1 DEF Order, SameFunction, Begun
<1>5. Placement'
  <2>1. \A i \in 1..Len(intervals) : \A range :
           CopyOf(intervals'[i], range) <=> CopyOf(intervals[i], range)
    BY <1>2 DEF CopyOf
  <2>2. QED
    BY <1>1, <1>3, <2>1 DEF Order, Placement, Begun
<1>6. KeySorted'
  BY <1>1, <1>2, <1>3 DEF Order, KeySorted, StartsBefore
<1>7. FromsApart'
  BY <1>2, <1>3 DEF Order, FromsApart, Precedes
<1>8. QED
  BY <1>4, <1>5, <1>6, <1>7 DEF Order

LEMMA OrderRun ==
    ASSUME Shape, Run
    PROVE  Order'
<1>1. intervals' = <<>> /\ Len(intervals') = 0
  BY DEF Run
<1>2. /\ bytecode' = Head(todo) /\ args' = Head(todo).args
      /\ regs_count' = Head(todo).args.registerEnd
      /\ pc' # "idle" => pc' = "sort" /\ pending' = Head(todo).ranges
      /\ pc' = "idle" => regs_count' = 0
  BY DEF Run
<1>3. QED
  BY <1>1, <1>2 DEF Order, SameFunction, Placement, Begun, KeySorted, FromsApart

(* The sort places a range that is behind all placed ones. *)
LEMMA OrderSortNext ==
    ASSUME Shape, Order, NEW range \in pending, SortNext(range)
    PROVE  Order'
<1> DEFINE n  == Len(intervals)
           it == [from  |-> range.reg, to |-> range.reg,
                  start |-> range.start, end |-> range.end]
<1>1. /\ pc = "sort" /\ pc' = "sort" /\ bytecode' = bytecode /\ args' = args
      /\ regs_count' = regs_count /\ pending' = pending \ {range}
      /\ intervals' = Append(intervals, it)
      /\ \A other \in pending : ~ StartsBefore(other, range)
  BY DEF SortNext
<1>2. /\ RegistersOnly(bytecode.args, bytecode.ranges) /\ InOrder(bytecode.ranges)
      /\ range \in LiveRange /\ pending \subseteq bytecode.ranges
  BY RangeFacts DEF Shape
<1>3. it \in RegLiveInterval /\ intervals \in Seq(RegLiveInterval) /\ n \in Nat
  BY <1>2 DEF LiveRange, RegLiveInterval, Shape, TypeOK
<1>4. /\ Len(intervals') = n + 1 /\ intervals'[n + 1] = it
      /\ \A i \in 1..n : intervals'[i] = intervals[i]
  BY <1>1, <1>3
<1>5. /\ it.from = range.reg /\ it.start = range.start /\ it.end = range.end
      /\ CopyOf(it, range)
  BY DEF CopyOf
<1> HIDE DEF it
<1>6. \A i \in 1..(n + 1) : i \in 1..n \/ i = n + 1
  BY <1>3
<1>7. SameFunction'
  BY <1>1 DEF Order, SameFunction, Begun
<1>8. Placement'
  <2>1. /\ \A i \in 1..n : \E r \in bytecode.ranges \ pending : CopyOf(intervals[i], r)
        /\ \A r \in bytecode.ranges \ pending : \E i \in 1..n : CopyOf(intervals[i], r)
    BY <1>1 DEF Order, Placement, Begun
  <2>2. bytecode.ranges \ pending' = (bytecode.ranges \ pending) \cup {range}
    BY <1>1, <1>2
  <2>3. \A i \in 1..(n + 1) : \E r \in bytecode.ranges \ pending' : CopyOf(intervals'[i], r)
    BY <1>4, <1>5, <1>6, <2>1, <2>2
  <2>4. \A r \in bytecode.ranges \ pending' : \E i \in 1..(n + 1) : CopyOf(intervals'[i], r)
    <3> TAKE r \in bytecode.ranges \ pending'
    <3>1. CASE r = range
      <4>1. n + 1 \in 1..(n + 1)
        BY <1>3
      <4>2. QED
        BY <1>4, <1>5, <3>1, <4>1
    <3>2. CASE r # range
      <4>1. PICK i \in 1..n : CopyOf(intervals[i], r)
        BY <2>1, <2>2, <3>2
      <4>2. i \in 1..(n + 1)
        BY <1>3
      <4>3. QED
        BY <1>4, <4>1, <4>2
    <3>3. QED
      BY <3>1, <3>2
  <2>5. QED
    BY <1>1, <1>4, <2>3, <2>4 DEF Placement, Begun
<1>9. KeySorted'
  <2>1. \A x : StartsBefore(it, x) <=> StartsBefore(range, x)
    BY <1>5 DEF StartsBefore
  <2>2. \A x : StartsBefore(x, it) <=> StartsBefore(x, range)
    BY <1>5 DEF StartsBefore
  <2>3. \A i \in 1..n, r \in pending : ~ StartsBefore(r, intervals[i])
    BY <1>1 DEF Order, KeySorted
  <2>4. ASSUME NEW i \in 1..(n + 1), NEW j \in 1..(n + 1), i < j
        PROVE  ~ StartsBefore(intervals'[j], intervals'[i])
    <3>1. i \in 1..n
      BY <1>3, <2>4
    <3>2. CASE j \in 1..n
      BY <1>4, <2>4, <3>1, <3>2 DEF Order, KeySorted
    <3>3. CASE j = n + 1
      BY <1>4, <2>1, <2>3, <3>1, <3>3
    <3>4. QED
      BY <1>6, <3>2, <3>3
  <2>5. ASSUME NEW i \in 1..(n + 1), NEW r \in pending'
        PROVE  ~ StartsBefore(r, intervals'[i])
    <3>1. r \in pending
      BY <1>1
    <3>2. CASE i \in 1..n
      BY <1>4, <2>3, <3>1, <3>2
    <3>3. CASE i = n + 1
      BY <1>1, <1>4, <2>2, <3>1, <3>3
    <3>4. QED
      BY <1>6, <3>2, <3>3
  <2>6. QED
    BY <1>4, <2>4, <2>5 DEF KeySorted
<1>10. FromsApart'
  <2>1. ASSUME NEW j \in 1..n, intervals[j].from = range.reg
        PROVE  Precedes(intervals[j], it) \/ Precedes(it, intervals[j])
    <3>1. PICK r \in bytecode.ranges \ pending : CopyOf(intervals[j], r)
      BY <1>1 DEF Order, Placement, Begun
    <3>2. r.reg = range.reg /\ r # range
      BY <2>1, <3>1 DEF CopyOf
    <3>3. Precedes(r, range) \/ Precedes(range, r)
      BY <1>2, <3>2 DEF InOrder
    <3>4. QED
      BY <1>5, <3>1, <3>3 DEF CopyOf, Precedes
  <2> SUFFICES ASSUME NEW i \in 1..(n + 1), NEW j \in 1..(n + 1), i # j,
                      intervals'[i].from = intervals'[j].from
               PROVE  \/ Precedes(intervals'[i], intervals'[j])
                      \/ Precedes(intervals'[j], intervals'[i])
    BY <1>4 DEF FromsApart
  <2>2. CASE i \in 1..n /\ j \in 1..n
    BY <1>4, <2>2 DEF Order, FromsApart
  <2>3. CASE i \in 1..n /\ j = n + 1
    BY <1>4, <1>5, <2>1, <2>3
  <2>4. CASE i = n + 1 /\ j \in 1..n
    BY <1>4, <1>5, <2>1, <2>4
  <2>5. QED
    BY <1>6, <2>2, <2>3, <2>4
<1>11. QED
  BY <1>7, <1>8, <1>9, <1>10 DEF Order

LEMMA OrderStep ==
    ASSUME Shape, Pool, Order, [Next]_vars
    PROVE  Order'
  BY OrderKept, OrderRun, OrderSortNext

-----------------------------------------------------------------------------
(* At most one interval of each register is active, and none beside the    *)
(* current one: there is always a register left for it.                    *)
LEMMA EnoughRegisters ==
    ASSUME Shape, Pool, Order, Purged
    PROVE  ~ NoFreeRegister
<1> DEFINE S == active \cup {cur}
           T == 0..(regs_count - 1)
           from == [i \in S |-> intervals[i].from]
<1>1. /\ pc = "scan" /\ cur \in 1..Len(intervals) /\ active \subseteq 1..(cur - 1)
      /\ \A a \in active : ~ (intervals[a].end <= intervals[cur].start)
      /\ regs_count = bytecode.args.registerEnd /\ regs_count \in Nat
  BY DEF Purged, Scanning, Expired, Pool, ActiveMapped, Mapped, Shape, TypeOK,
         HeaderCount, Order, SameFunction, Begun
<1>2. /\ Len(intervals) \in Nat
      /\ \A i \in 1..Len(intervals) :
            /\ intervals[i].from \in Nat
            /\ intervals[i].start \in Nat /\ intervals[i].end \in Nat
  BY IntervalNats DEF Shape
<1>3. /\ S \subseteq 1..Len(intervals) /\ cur \notin active
      /\ \A a \in active : a \in 1..Len(intervals) /\ a < cur
  BY <1>1, <1>2
<1>4. \A i \in 1..Len(intervals) : intervals[i].from \in T
  <2> TAKE i \in 1..Len(intervals)
  <2>1. PICK r \in bytecode.ranges : CopyOf(intervals[i], r)
    BY <1>1 DEF Order, Placement, Begun
  <2>2. r.reg < regs_count
    BY <1>1, <2>1, RangeFacts DEF Shape, RegistersOnly
  <2>3. QED
    BY <1>1, <1>2, <2>1, <2>2 DEF CopyOf
<1>5. ASSUME NEW a \in active, NEW b \in active, a < b,
             intervals[a].from = intervals[b].from
      PROVE  FALSE
  <2>1. a \in 1..Len(intervals) /\ b \in 1..Len(intervals) /\ b < cur
    BY <1>3
  <2>2. Precedes(intervals[a], intervals[b]) \/ Precedes(intervals[b], intervals[a])
    BY <1>2, <1>5, <2>1 DEF Order, FromsApart
  <2>3. intervals[a].start <= intervals[cur].start /\ intervals[b].start <= intervals[cur].start
    BY <1>1, <1>3 DEF Shape, Sorted
  <2>4. intervals[a].end > intervals[cur].start /\ intervals[b].end > intervals[cur].start
    BY <1>1, <1>2, <2>1
  <2>5. QED
    BY <1>1, <1>2, <2>1, <2>2, <2>3, <2>4 DEF Precedes
<1>6. ASSUME NEW a \in active, intervals[a].from = intervals[cur].from
      PROVE  FALSE
  <2>1. a \in 1..Len(intervals) /\ a < cur
    BY <1>3
  <2>2. Precedes(intervals[a], intervals[cur]) \/ Precedes(intervals[cur], intervals[a])
    BY <1>1, <1>2, <1>6, <2>1 DEF Order, FromsApart
  <2>3. intervals[a].start <= intervals[cur].start /\ intervals[a].end > intervals[cur].start
    BY <1>1, <1>2, <2>1 DEF Shape, Sorted
  <2>4. ~ StartsBefore(intervals[cur], intervals[a])
    BY <1>1, <2>1 DEF Order, KeySorted
  <2>5. QED
    BY <1>1, <1>2, <2>1, <2>2, <2>3, <2>4 DEF Precedes, StartsBefore
<1>7. \A i, j \in S : from[i] = from[j] => i = j
  <2> SUFFICES ASSUME NEW i \in S, NEW j \in S, intervals[i].from = intervals[j].from, i # j
               PROVE  FALSE
    OBVIOUS
  <2>1. i \in Int /\ j \in Int
    BY <1>3
  <2>2. CASE i \in active /\ j \in active
    <3>1. i < j \/ j < i
      BY <2>1
    <3>2. QED
      BY <1>5, <2>2, <3>1
  <2>3. CASE i = cur \/ j = cur
    BY <1>6, <2>3
  <2>4. QED
    BY <2>2, <2>3
<1>8. from \in Injection(S, T)
  <2>1. from \in [S -> T]
    BY <1>3, <1>4
  <2>2. QED
    BY <1>7, <2>1 DEF Injection, IsInjective
<1>9. IsFiniteSet(T) /\ Cardinality(T) = regs_count
  <2>1. 0 \in Int /\ regs_count - 1 \in Int
    BY <1>1
  <2>2. IsFiniteSet(T) /\ Cardinality(T) = IF 0 > regs_count - 1 THEN 0
                                           ELSE regs_count - 1 - 0 + 1
    BY <2>1, FS_Interval
  <2>3. QED
    BY <1>1, <2>2
<1>10. IsFiniteSet(S) /\ Cardinality(S) <= regs_count
  BY <1>8, <1>9, FS_Injection
<1>11. Cardinality(S) = Cardinality(active) + 1 /\ Cardinality(active) \in Nat
  BY <1>3, ActiveFinite, FS_AddElement DEF Shape
<1>12. QED
  BY <1>1, <1>10, <1>11 DEF NoFreeRegister

Sound == Order /\ NeverSpills

LEMMA SoundInvariance == Spec => []Sound
<1>1. Init => Sound
  BY DEF Init, Sound, Order, SameFunction, Placement, Begun, KeySorted, FromsApart, NeverSpills
<1>2. ASSUME IInv, Sound, [Next]_vars PROVE Sound'
  <2>1. Order'
    BY <1>2, OrderStep DEF IInv, Sound
  <2>2. CASE EndScan
    <3>1. cur > Len(intervals) /\ cur' = cur /\ intervals' = intervals
      BY <1>2, <2>2, EnoughRegisters DEF EndScan, ScanOver, IInv, Sound
    <3>2. QED
      BY <2>1, <3>1 DEF Sound, NeverSpills
  <2>3. CASE UNCHANGED vars
    BY <1>2, <2>1, <2>3 DEF vars, Sound, NeverSpills
  <2>4. CASE pc' # "update"
    BY <2>1, <2>4 DEF Sound, NeverSpills
  <2>5. pc' = "update" => EndScan \/ UNCHANGED vars
    BY <1>2 DEF Next, Run, SortNext, BeginScan, Expire, SkipPoint, Allocate, Purged,
       Scanning, KeepCode, BeginRename, Rename, Shift
  <2>6. QED
    BY <2>2, <2>3, <2>4, <2>5
<1>3. QED
  BY <1>1, <1>2, Invariance, PTL DEF Spec

(* The scan never takes its early return: on ranges as LivenessAnalysis    *)
(* makes them it always finds a free register and reaches the last         *)
(* interval.                                                               *)
THEOREM ScanCompletes == Spec => []NeverSpills
<1>1. Sound => NeverSpills
  BY DEF Sound
<1>2. QED
  BY <1>1, SoundInvariance, PTL

-----------------------------------------------------------------------------
(* Counting what is live. *)
LEMMA LivePassedFinite ==
    ASSUME TypeOK, NEW i
    PROVE  IsFiniteSet(LivePassed(i)) /\ Cardinality(LivePassed(i)) \in Nat
<1>1. IsFiniteSet(1..Len(intervals))
  BY FS_Interval DEF TypeOK
<1>2. LivePassed(i) \subseteq 1..Len(intervals)
  BY DEF LivePassed, LivePositions
<1>3. QED
  BY <1>1, <1>2, FS_Subset, FS_CardinalityType

LEMMA LivePositionsKept ==
    ASSUME SameKeys, NEW i \in 1..Len(intervals)
    PROVE  LivePositions(i)' = LivePositions(i)
<1>1. /\ Len(intervals') = Len(intervals)
      /\ \A j \in 1..Len(intervals) : /\ intervals'[j].start = intervals[j].start
                                      /\ intervals'[j].end = intervals[j].end
  BY DEF SameKeys
<1>2. \A j \in 1..Len(intervals) :
         /\ IsPoint(intervals'[j]) <=> IsPoint(intervals[j])
         /\ StartsBefore(intervals'[i], intervals'[j])
               <=> StartsBefore(intervals[i], intervals[j])
  BY <1>1 DEF IsPoint, StartsBefore
<1>3. LivePositions(i)' =
         { j \in 1..Len(intervals') :
             /\ ~ IsPoint(intervals'[j])
             /\ \/ j = i
                \/ /\ ~ StartsBefore(intervals'[i], intervals'[j])
                   /\ intervals'[j].end > intervals'[i].start }
  BY DEF LivePositions, IsPoint, StartsBefore
<1>4. QED
  BY <1>1, <1>2, <1>3 DEF LivePositions

(* Once the expired intervals are purged, the active ones are those passed *)
(* that end after the current one starts.                                  *)
LEMMA ActiveAreLive ==
    ASSUME Shape, Pool, Retired, Order, Purged, ~ IsPoint(intervals[cur])
    PROVE  active \cup {cur} = LivePositions(cur) \cap (1..cur)
<1>1. /\ Scanning /\ cur \in 1..Len(intervals) /\ active \subseteq Mapped
      /\ \A a \in active : ~ (intervals[a].end <= intervals[cur].start)
      /\ \A i \in Mapped \ active : intervals[i].end <= intervals[cur].start
      /\ Len(intervals) \in Nat
  BY DEF Purged, Scanning, Expired, Pool, ActiveMapped, Shape, TypeOK, Retired
<1>2. \A i \in 1..Len(intervals) : intervals[i].start \in Nat /\ intervals[i].end \in Nat
  BY IntervalNats DEF Shape
<1>3. \A j : j \in Mapped <=> j \in 1..(cur - 1) /\ ~ IsPoint(intervals[j])
  BY DEF Mapped
<1>4. \A j \in 1..(cur - 1) : /\ j \in 1..Len(intervals) /\ j \in 1..cur /\ j < cur
                              /\ j # cur
  BY <1>1
<1>5. \A j \in 1..cur : j \in 1..(cur - 1) \/ j = cur
  BY <1>1
<1>6. ASSUME NEW j \in active PROVE j \in LivePositions(cur) /\ j \in 1..cur
  <2>1. j \in 1..(cur - 1) /\ ~ IsPoint(intervals[j]) /\ j \in 1..Len(intervals)
    BY <1>1, <1>3, <1>4
  <2>2. intervals[j].end > intervals[cur].start
    BY <1>1, <1>2, <2>1
  <2>3. ~ StartsBefore(intervals[cur], intervals[j])
    BY <1>1, <1>4, <2>1 DEF Order, KeySorted
  <2>4. QED
    BY <1>4, <2>1, <2>2, <2>3 DEF LivePositions
<1>7. cur \in LivePositions(cur) /\ cur \in 1..cur
  BY <1>1 DEF LivePositions
<1>8. ASSUME NEW j \in LivePositions(cur) \cap (1..cur), j # cur PROVE j \in active
  <2>1. j \in Mapped /\ j \in 1..Len(intervals) /\ intervals[j].end > intervals[cur].start
    BY <1>3, <1>5, <1>8 DEF LivePositions
  <2>2. QED
    BY <1>1, <1>2, <2>1
<1>9. QED
  BY <1>6, <1>7, <1>8

(* Another interval passed adds to the count of an earlier one only if     *)
(* both have the same keys, and then no more than are active are counted.  *)
LEMMA CountedEarlier ==
    ASSUME Shape, Pool, Retired, Order, Purged, ~ IsPoint(intervals[cur]), NEW i \in Mapped
    PROVE  \/ LivePositions(i) \cap (1..cur) = LivePassed(i)
           \/ LivePositions(i) \cap (1..cur) \subseteq active \cup {cur}
<1>1. /\ cur \in 1..Len(intervals) /\ i \in 1..(cur - 1) /\ i \in 1..Len(intervals) /\ i < cur
      /\ Len(intervals) \in Nat
  BY DEF Purged, Scanning, Shape, TypeOK, Mapped
<1>2. 1..cur = (1..(cur - 1)) \cup {cur}
  BY <1>1
<1>3. CASE cur \notin LivePositions(i)
  BY <1>2, <1>3 DEF LivePassed
<1>4. CASE cur \in LivePositions(i)
  <2>1. /\ ~ StartsBefore(intervals[i], intervals[cur])
        /\ intervals[cur].end > intervals[i].start
    BY <1>1, <1>4 DEF LivePositions
  <2>2. ~ StartsBefore(intervals[cur], intervals[i])
    BY <1>1 DEF Order, KeySorted
  <2>3. /\ intervals[i].start \in Nat /\ intervals[i].end \in Nat
        /\ intervals[cur].start \in Nat /\ intervals[cur].end \in Nat
    BY <1>1, IntervalNats DEF Shape
  <2>4. intervals[i].start = intervals[cur].start /\ intervals[i].end = intervals[cur].end
    BY <2>1, <2>2, <2>3 DEF StartsBefore
  <2>5. ASSUME NEW j \in LivePositions(i), j \in 1..cur
        PROVE  j \in LivePositions(cur)
    <3>1. j \in 1..Len(intervals) /\ ~ IsPoint(intervals[j])
      BY DEF LivePositions
    <3>2. intervals[j].end > intervals[i].start
      BY <2>1, <2>4 DEF LivePositions
    <3>3. CASE j = cur
      BY <3>1, <3>3 DEF LivePositions
    <3>4. CASE j # cur
      <4>1. j < cur
        BY <1>1, <2>5, <3>4
      <4>2. ~ StartsBefore(intervals[cur], intervals[j])
        BY <1>1, <3>1, <4>1 DEF Order, KeySorted
      <4>3. QED
        BY <2>4, <3>1, <3>2, <4>2 DEF LivePositions
    <3>5. QED
      BY <3>3, <3>4
  <2>6. LivePositions(i) \cap (1..cur) \subseteq active \cup {cur}
    BY <2>5, ActiveAreLive
  <2>7. QED
    BY <2>6
<1>5. QED
  BY <1>3, <1>4

LEMMA PeakReachedAllocate ==
    ASSUME Shape, Pool, Retired, Order, PeakReached, Allocate
    PROVE  PeakReached'
<1>1. /\ Purged /\ pc = "scan" /\ pc' = "scan" /\ Scanning /\ cur' = cur + 1
      /\ active' = active \cup {cur} /\ ~ IsPoint(intervals[cur])
      /\ new_regs_count' = PeakCount(Cardinality(active'))
  BY DEF Allocate, Purged, Scanning
<1>2. SameKeys /\ cur \in 1..Len(intervals) /\ Len(intervals) \in Nat
  BY AllocateEffect DEF SameKeys, Shape, TypeOK
<1>3. Mapped' = Mapped \cup {cur} /\ Mapped \subseteq 1..(cur - 1)
  BY <1>1, <1>2, PassCurrent DEF SameKeys
<1>4. \A i \in Mapped \cup {cur} : i \in 1..Len(intervals)
  BY <1>2, <1>3
<1>5. \A i \in Mapped \cup {cur} : LivePassed(i)' = LivePositions(i) \cap (1..cur)
  <2> TAKE i \in Mapped \cup {cur}
  <2>1. LivePositions(i)' = LivePositions(i)
    BY <1>2, <1>4, LivePositionsKept
  <2>2. cur' - 1 = cur
    BY <1>1, <1>2
  <2>3. QED
    BY <2>1, <2>2 DEF LivePassed
<1>6. /\ IsFiniteSet(active') /\ Cardinality(active') \in Nat
      /\ new_regs_count \in Nat
  <2>1. IsFiniteSet(active) /\ Cardinality(active) \in Nat
    BY ActiveFinite DEF Shape
  <2>2. IsFiniteSet(active \cup {cur})
    BY <2>1, FS_AddElement
  <2>3. Cardinality(active \cup {cur}) \in Nat
    BY <2>2, FS_CardinalityType
  <2>4. new_regs_count \in Nat
    BY DEF Shape, TypeOK
  <2>5. QED
    BY <1>1, <2>2, <2>3, <2>4
<1>7. /\ Cardinality(active') <= new_regs_count' /\ new_regs_count <= new_regs_count'
      /\ new_regs_count' \in {Cardinality(active'), new_regs_count}
      /\ new_regs_count' \in Nat
  BY <1>1, <1>6 DEF PeakCount
<1>8. \A i \in {cur} : LivePassed(i)' = active'
  <2> TAKE i \in {cur}
  <2>1. LivePassed(i)' = LivePositions(i) \cap (1..cur)
    BY <1>5
  <2>2. active \cup {cur} = LivePositions(cur) \cap (1..cur)
    BY <1>1, ActiveAreLive
  <2>3. i = cur
    OBVIOUS
  <2>4. QED
    BY <1>1, <2>1, <2>2, <2>3
<1>9. ASSUME NEW i \in Mapped
      PROVE  /\ Cardinality(LivePassed(i)') <= new_regs_count'
             /\ Cardinality(LivePassed(i)) <= Cardinality(LivePassed(i)')
             /\ Cardinality(LivePassed(i)') \in Nat
             /\ Cardinality(LivePassed(i)) \in Nat
  <2>1. LivePassed(i)' = LivePositions(i) \cap (1..cur)
    BY <1>5
  <2>2. IsFiniteSet(LivePassed(i)') /\ Cardinality(LivePassed(i)') \in Nat
    <3>1. IsFiniteSet(1..cur)
      BY <1>2, FS_Interval
    <3>2. QED
      BY <2>1, <3>1, FS_Subset, FS_CardinalityType
  <2>3. LivePassed(i) \subseteq LivePassed(i)'
    BY <1>2, <2>1 DEF LivePassed
  <2>4. Cardinality(LivePassed(i)) <= Cardinality(LivePassed(i)')
        /\ Cardinality(LivePassed(i)) \in Nat
    BY <2>2, <2>3, FS_Subset, FS_CardinalityType
  <2>5. CASE LivePassed(i)' = LivePassed(i)
    <3>1. Cardinality(LivePassed(i)) <= new_regs_count
      BY <1>1 DEF PeakReached
    <3>2. QED
      BY <1>6, <1>7, <2>2, <2>4, <2>5, <3>1
  <2>6. CASE LivePassed(i)' \subseteq active'
    <3>1. Cardinality(LivePassed(i)') <= Cardinality(active')
      BY <1>6, <2>6, FS_Subset
    <3>2. QED
      BY <1>6, <1>7, <2>2, <2>4, <3>1
  <2>7. \/ LivePositions(i) \cap (1..cur) = LivePassed(i)
        \/ LivePositions(i) \cap (1..cur) \subseteq active \cup {cur}
    BY <1>1, CountedEarlier
  <2>8. LivePassed(i)' = LivePassed(i) \/ LivePassed(i)' \subseteq active'
    BY <1>1, <2>1, <2>7
  <2>9. QED
    BY <2>5, <2>6, <2>8
<1>10. \A i \in Mapped' : Cardinality(LivePassed(i)') <= new_regs_count'
  <2> TAKE i \in Mapped'
  <2>1. CASE i \in Mapped
    BY <1>9, <2>1
  <2>2. CASE i \in {cur}
    BY <1>7, <1>8, <2>2
  <2>3. QED
    BY <1>3, <2>1, <2>2
<1>11. new_regs_count' = 0 \/ \E i \in Mapped' : Cardinality(LivePassed(i)') >= new_regs_count'
  <2>1. CASE new_regs_count' = Cardinality(active')
    <3>1. \A i \in {cur} : i \in Mapped' /\ Cardinality(LivePassed(i)') >= new_regs_count'
      BY <1>3, <1>6, <1>8, <2>1
    <3>2. QED
      BY <3>1
  <2>2. CASE new_regs_count' = new_regs_count /\ new_regs_count # 0
    <3>1. PICK i \in Mapped : Cardinality(LivePassed(i)) >= new_regs_count
      BY <1>1, <2>2 DEF PeakReached
    <3>2. Cardinality(LivePassed(i)') >= new_regs_count
      BY <1>6, <1>9, <3>1
    <3>3. QED
      BY <1>3, <2>2, <3>1, <3>2
  <2>3. QED
    BY <1>7, <2>1, <2>2
<1>12. QED
  BY <1>1, <1>10, <1>11 DEF PeakReached

LEMMA PeakReachedStep ==
    ASSUME Shape, Pool, Retired, Order, PeakReached, [Next]_vars
    PROVE  PeakReached'
<1>1. CASE Allocate
  BY <1>1, PeakReachedAllocate
<1>2. CASE BeginScan
  <2>1. /\ pc' = "scan" /\ new_regs_count' = 0 /\ cur' = 1
    BY <1>2 DEF BeginScan, PeakReached, Shape, Placed
  <2>2. Mapped' = {}
    BY <2>1 DEF Mapped
  <2>3. QED
    BY <2>1, <2>2 DEF PeakReached
<1>3. CASE (\E a \in active : Expire(a)) \/ EndScan \/ UNCHANGED vars
  <2>1. /\ intervals' = intervals /\ cur' = cur /\ new_regs_count' = new_regs_count
        /\ pc' = "sort" => pc = "sort"
        /\ pc' \in {"scan", "update"} => pc \in {"scan", "update"}
    BY <1>3 DEF Expire, Scanning, EndScan, ScanOver, Purged, vars
  <2>2. Mapped' = Mapped
    BY <2>1 DEF Mapped
  <2>3. \A i : LivePassed(i)' = LivePassed(i)
    BY <2>1 DEF LivePassed, LivePositions
  <2>4. QED
    BY <2>1, <2>2, <2>3 DEF PeakReached
<1>4. CASE SkipPoint
  <2>1. /\ intervals' = intervals /\ cur' = cur + 1 /\ new_regs_count' = new_regs_count
        /\ pc = "scan" /\ pc' = "scan" /\ Scanning /\ IsPoint(intervals[cur])
    BY <1>4 DEF SkipPoint, Purged, Scanning
  <2>2. Mapped' = Mapped /\ cur \in 1..Len(intervals) /\ Len(intervals) \in Nat
    <3>1. Len(intervals') = Len(intervals)
      BY <2>1
    <3>2. \A i \in 1..Len(intervals) : /\ intervals'[i].start = intervals[i].start
                                        /\ intervals'[i].end = intervals[i].end
      BY <2>1
    <3>3. /\ Mapped' = Mapped \cup (IF IsPoint(intervals[cur]) THEN {} ELSE {cur})
          /\ cur \in 1..Len(intervals)
      BY <2>1, <3>1, <3>2, PassCurrent
    <3>4. Len(intervals) \in Nat
      BY DEF Shape, TypeOK
    <3>5. QED
      BY <2>1, <3>3, <3>4
  <2>3. cur' - 1 = cur /\ 1..cur = (1..(cur - 1)) \cup {cur}
    BY <2>1, <2>2
  <2>4. \A i : LivePositions(i)' = LivePositions(i)
    BY <2>1 DEF LivePositions
  <2>5. \A i : cur \notin LivePositions(i)
    BY <2>1 DEF LivePositions
  <2>6. \A i : LivePassed(i)' = LivePassed(i)
    <3> TAKE i
    <3>1. LivePassed(i)' = LivePositions(i)' \cap (1..(cur' - 1))
      BY DEF LivePassed
    <3>2. LivePassed(i)' = LivePositions(i) \cap (1..cur)
      BY <2>3, <2>4, <3>1
    <3>3. QED
      BY <2>3, <2>5, <3>2 DEF LivePassed
  <2>7. QED
    BY <2>1, <2>2, <2>6 DEF PeakReached
<1>5. CASE Run
  BY <1>5 DEF Run, PeakReached
<1>6. CASE \E range \in pending : SortNext(range)
  BY <1>6 DEF SortNext, PeakReached
<1>7. CASE KeepCode \/ BeginRename \/ Rename \/ Shift
  BY <1>7 DEF KeepCode, BeginRename, Rename, Shift, PeakReached
<1>8. QED
  BY <1>1, <1>2, <1>3, <1>4, <1>5, <1>6, <1>7 DEF Next

LEMMA PeakReachedInvariance == Spec => []PeakReached
<1>1. Init => PeakReached
  BY DEF Init, PeakReached
<1>2. IInv /\ Sound /\ PeakReached /\ [Next]_vars => PeakReached'
  BY PeakReachedStep DEF IInv, Sound
<1>3. QED
  BY <1>1, <1>2, Invariance, SoundInvariance, PTL DEF Spec

(* A range longer than a point has one copy among the intervals.           *)
LEMMA CopyUnique ==
    ASSUME Shape, Order, pc \in {"scan", "update"}
    PROVE  /\ \A i \in 1..Len(intervals) :
                 \E range \in bytecode.ranges : CopyOf(intervals[i], range)
           /\ \A range \in bytecode.ranges :
                 \E i \in 1..Len(intervals) : CopyOf(intervals[i], range)
           /\ \A i \in 1..Len(intervals), p, q \in bytecode.ranges :
                 ~ IsPoint(intervals[i]) /\ CopyOf(intervals[i], p) /\ CopyOf(intervals[i], q)
                     => p = q
           /\ \A i, j \in 1..Len(intervals), p \in bytecode.ranges :
                 ~ IsPoint(intervals[i]) /\ CopyOf(intervals[i], p) /\ CopyOf(intervals[j], p)
                     => i = j
<1>1. /\ \A i \in 1..Len(intervals) : \E r \in bytecode.ranges : CopyOf(intervals[i], r)
      /\ \A r \in bytecode.ranges : \E i \in 1..Len(intervals) : CopyOf(intervals[i], r)
  BY DEF Order, Placement, Begun
<1>2. \A i \in 1..Len(intervals) :
         intervals[i].start \in Nat /\ intervals[i].end \in Nat
  BY IntervalNats DEF Shape
<1>3. ASSUME NEW i \in 1..Len(intervals), NEW p \in bytecode.ranges,
             NEW q \in bytecode.ranges, ~ IsPoint(intervals[i]),
             CopyOf(intervals[i], p), CopyOf(intervals[i], q), p # q
      PROVE  FALSE
  <2>1. Precedes(p, q) \/ Precedes(q, p)
    BY <1>3, RangeFacts DEF Shape, InOrder, CopyOf
  <2>2. QED
    BY <1>2, <1>3, <2>1 DEF CopyOf, Precedes, IsPoint
<1>4. ASSUME NEW i \in 1..Len(intervals), NEW j \in 1..Len(intervals),
             NEW p \in bytecode.ranges, ~ IsPoint(intervals[i]),
             CopyOf(intervals[i], p), CopyOf(intervals[j], p), i # j
      PROVE  FALSE
  <2>1. intervals[i].from = intervals[j].from
    BY <1>4 DEF CopyOf
  <2>2. \/ Precedes(intervals[i], intervals[j])
        \/ Precedes(intervals[j], intervals[i])
    BY <1>4, <2>1 DEF Order, FromsApart
  <2>3. QED
    BY <1>2, <1>4, <2>2 DEF CopyOf, Precedes, IsPoint
<1>5. QED
  BY <1>1, <1>3, <1>4

(* Counting ranges is counting the positions of their copies.              *)
LEMMA SameCount ==
    ASSUME Shape, Order, pc \in {"scan", "update"}, NEW i \in 1..Len(intervals),
           ~ IsPoint(intervals[i]), NEW range \in bytecode.ranges,
           CopyOf(intervals[i], range)
    PROVE  Cardinality(LiveWith(bytecode, range)) = Cardinality(LivePositions(i))
<1> DEFINE S == LivePositions(i)
           T == LiveWith(bytecode, range)
           copied == [j \in S |-> CHOOSE p \in bytecode.ranges : CopyOf(intervals[j], p)]
<1>1. \A j \in S : j \in 1..Len(intervals) /\ ~ IsPoint(intervals[j])
  BY DEF LivePositions
<1>2. \A j \in S : copied[j] \in bytecode.ranges /\ CopyOf(intervals[j], copied[j])
  BY <1>1, CopyUnique
<1>3. ASSUME NEW j \in 1..Len(intervals), NEW p \in bytecode.ranges, CopyOf(intervals[j], p)
      PROVE  j \in S <=> p \in T
  <2>1. /\ IsPoint(intervals[j]) <=> IsPoint(p)
        /\ StartsBefore(intervals[i], intervals[j]) <=> StartsBefore(range, p)
        /\ intervals[j].end > intervals[i].start <=> p.end > range.start
    BY <1>3 DEF CopyOf, IsPoint, StartsBefore
  <2>2. ~ IsPoint(intervals[j]) => (j = i <=> p = range)
    BY <1>3, CopyUnique
  <2>3. QED
    BY <2>1, <2>2 DEF LivePositions, LiveWith
<1>4. copied \in [S -> T]
  BY <1>1, <1>2, <1>3
<1>5. \A j, k \in S : copied[j] = copied[k] => j = k
  <2> TAKE j, k \in S
  <2>1. /\ j \in 1..Len(intervals) /\ k \in 1..Len(intervals) /\ ~ IsPoint(intervals[j])
        /\ copied[j] \in bytecode.ranges /\ CopyOf(intervals[j], copied[j])
        /\ CopyOf(intervals[k], copied[k])
    BY <1>1, <1>2
  <2> HIDE DEF copied, S
  <2>2. QED
    BY <2>1, CopyUnique
<1>6. \A p \in T : \E j \in S : copied[j] = p
  <2> TAKE p \in T
  <2>1. p \in bytecode.ranges
    BY DEF LiveWith
  <2>2. PICK j \in 1..Len(intervals) : CopyOf(intervals[j], p)
    BY <2>1, CopyUnique
  <2>3. j \in S
    BY <1>3, <2>1, <2>2
  <2>4. ~ IsPoint(intervals[j]) /\ copied[j] \in bytecode.ranges
        /\ CopyOf(intervals[j], copied[j])
    BY <1>1, <1>2, <2>3
  <2> HIDE DEF copied, S
  <2>5. QED
    BY <2>1, <2>2, <2>3, <2>4, CopyUnique
<1> HIDE DEF copied
<1>7. copied \in Bijection(S, T)
  <2>1. copied \in Injection(S, T)
    BY <1>4, <1>5 DEF Injection, IsInjective
  <2>2. copied \in Surjection(S, T)
    BY <1>4, <1>6 DEF Surjection
  <2>3. QED
    BY <2>1, <2>2 DEF Bijection
<1>8. IsFiniteSet(S)
  <2>1. IsFiniteSet(1..Len(intervals))
    BY FS_Interval DEF Shape, TypeOK
  <2>2. QED
    BY <1>1, <2>1, FS_Subset
<1>9. Cardinality(T) = Cardinality(S)
  BY <1>7, <1>8, FS_Bijection DEF ExistsBijection
<1>10. QED
  BY <1>9

(* The count of registers the scan ends with is the register pressure: no  *)
(* range is live with more others, and the count was reached.              *)
THEOREM PressureExact == Spec => []NewCountIsPressure
<1>1. ASSUME IInv, Sound, PeakReached PROVE NewCountIsPressure
  <2> SUFFICES ASSUME pc = "update"
               PROVE  IsPressure(bytecode, new_regs_count)
    BY DEF NewCountIsPressure
  <2> DEFINE f == bytecode
             n == new_regs_count
             long == { r \in f.ranges : ~ IsPoint(r) }
             counts == { Cardinality(LiveWith(f, range)) : range \in long }
  <2>1. /\ Shape /\ Order /\ cur = Len(intervals) + 1 /\ Len(intervals) \in Nat
        /\ n \in Nat
    <3>1. /\ cur \in 1..(Len(intervals) + 1) /\ cur > Len(intervals)
          /\ Len(intervals) \in Nat
      BY <1>1 DEF IInv, Shape, TypeOK, Sound, NeverSpills
    <3>2. QED
      BY <1>1, <3>1 DEF IInv, Shape, TypeOK, Sound
  <2>2. /\ \A i : LivePassed(i) = LivePositions(i)
        /\ \A i : i \in Mapped <=> i \in 1..Len(intervals) /\ ~ IsPoint(intervals[i])
    <3>1. cur - 1 = Len(intervals)
      BY <2>1
    <3>2. QED
      BY <3>1 DEF LivePassed, LivePositions, Mapped
  <2>3. /\ \A i \in Mapped : Cardinality(LivePositions(i)) <= n
        /\ n = 0 \/ \E i \in Mapped : Cardinality(LivePositions(i)) >= n
    BY <1>1, <2>2 DEF PeakReached
  <2>4. \A i \in Mapped, range \in f.ranges :
           CopyOf(intervals[i], range) =>
              /\ Cardinality(LiveWith(f, range)) = Cardinality(LivePositions(i))
              /\ range \in long
    <3> TAKE i \in Mapped, range \in f.ranges
    <3> HAVE CopyOf(intervals[i], range)
    <3>1. i \in 1..Len(intervals) /\ ~ IsPoint(intervals[i])
      BY <2>2
    <3>2. range \in long
      BY <3>1 DEF CopyOf, IsPoint
    <3>3. QED
      BY <2>1, <3>1, <3>2, SameCount
  <2>5. \A c \in counts : c <= n
    <3> TAKE c \in counts
    <3>1. PICK range \in long : c = Cardinality(LiveWith(f, range))
      OBVIOUS
    <3>2. PICK i \in 1..Len(intervals) : CopyOf(intervals[i], range)
      BY <2>1, CopyUnique
    <3>3. i \in Mapped
      BY <2>2, <3>2 DEF CopyOf, IsPoint
    <3>4. QED
      BY <2>3, <2>4, <3>1, <3>2, <3>3
  <2>6. n \in counts \cup {0}
    <3>1. CASE n = 0
      BY <3>1
    <3>2. CASE n # 0
      <4>1. PICK i \in Mapped : Cardinality(LivePositions(i)) >= n
        BY <2>3, <3>2
      <4>2. Cardinality(LivePositions(i)) <= n
        BY <2>3
      <4>3. Cardinality(LivePositions(i)) = n
        <5>1. Cardinality(LivePositions(i)) \in Nat
          BY <1>1, <2>2, LivePassedFinite DEF IInv, Shape
        <5>2. QED
          BY <2>1, <4>1, <4>2, <5>1
      <4>4. PICK range \in f.ranges : CopyOf(intervals[i], range)
        BY <2>1, <2>2, CopyUnique
      <4>5. QED
        BY <2>4, <4>3, <4>4
    <3>3. QED
      BY <3>1, <3>2
  <2>7. QED
    BY <2>5, <2>6 DEF IsPressure
<1>2. QED
  BY <1>1, Invariance, SoundInvariance, PeakReachedInvariance, PTL

-----------------------------------------------------------------------------
(* That the scan implements FrameAllocation, and that the code keeps its   *)
(* meaning.                                                                *)
NotCounted == pc = "sort" => new_regs_count = 0

PeakHolds == pc = "scan" => Cardinality(active) <= new_regs_count

(* Registers from new_regs_count on, in order, are the bottom of the stack *)
(* and only those below it are above them.                                 *)
Untouched ==
    pc = "scan" =>
        \A k \in 1..Len(registers) :
            IF k <= regs_count - new_regs_count
            THEN registers[k] = regs_count - k
            ELSE registers[k] < new_regs_count

HomesBelow ==
    pc \in {"scan", "update", "rename"} =>
        \A i \in Allocated : intervals[i].to < new_regs_count

FullyScanned ==
    pc = "update" /\ new_regs_count < regs_count => cur = Len(intervals) + 1

Saving == pc = "rename" => new_regs_count < regs_count

Peak == NotCounted /\ PeakHolds /\ Untouched /\ HomesBelow /\ FullyScanned /\ Saving

-----------------------------------------------------------------------------
(* While the scan runs, what is allocated is what has been mapped.         *)
LEMMA AllocatedIsMapped ==
    ASSUME pc # "rename"
    PROVE  Allocated = Mapped
  BY DEF Allocated

(* Nothing is allocated before the scan.                                   *)
LEMMA PeakBeginScan ==
    ASSUME Shape, Peak, BeginScan
    PROVE  Peak'
<1>1. /\ pc = "sort" /\ pc' = "scan" /\ cur' = 1 /\ active' = {}
      /\ new_regs_count' = 0 /\ regs_count' = regs_count /\ regs_count \in Nat
      /\ registers' = AllRegisters(regs_count)
  BY DEF BeginScan, Shape, TypeOK, Placed, Peak, NotCounted
<1>2. Cardinality(active') = 0
  BY <1>1, FS_EmptySet
<1>3. Untouched'
  BY <1>1 DEF Untouched, AllRegisters
<1>4. Allocated' = {}
  BY <1>1 DEF Allocated, Mapped
<1>5. QED
  BY <1>1, <1>2, <1>3, <1>4 DEF Peak, NotCounted, PeakHolds, HomesBelow,
     FullyScanned, Saving

(* A register that comes back is one that was handed out, and it goes on   *)
(* top of those that were not.                                             *)
LEMMA PeakExpire ==
    ASSUME Shape, Pool, Peak, NEW a \in active, Expire(a)
    PROVE  Peak'
<1> DEFINE n   == Len(registers)
           reg == intervals[a].to
<1>1. /\ pc = "scan" /\ pc' = "scan"
      /\ active' = active \ {a} /\ registers' = Append(registers, reg)
      /\ UNCHANGED <<intervals, cur, regs_count, new_regs_count>>
  BY DEF Expire, Released, Scanning
<1>2. /\ n \in Nat /\ registers \in Seq(0..(regs_count - 1))
      /\ regs_count \in Nat /\ new_regs_count \in 0..regs_count
  BY DEF Shape, TypeOK
<1>3. a \in Mapped /\ Allocated = Mapped
  BY <1>1 DEF Pool, ActiveMapped, Allocated
<1>4. reg < new_regs_count
  BY <1>1, <1>3 DEF Peak, HomesBelow
<1>5. /\ IsFiniteSet(active) /\ Cardinality(active) \in Nat
      /\ Cardinality(active') = Cardinality(active) - 1
  BY <1>1, ActiveFinite, FS_RemoveElement DEF Shape
<1>6. /\ Cardinality(active) + n = regs_count /\ Cardinality(active) <= new_regs_count
  BY <1>1 DEF Pool, Counted, Peak, PeakHolds
<1>7. /\ Len(registers') = n + 1 /\ registers'[n + 1] = reg
      /\ \A k \in 1..n : registers'[k] = registers[k]
  <2>1. reg \in 0..(regs_count - 1)
    BY <1>1 DEF HeldRegisters, Pool, PoolPartition, Shape, TypeOK
  <2>2. QED
    BY <1>1, <1>2, <2>1
<1>8. n + 1 > regs_count - new_regs_count
  BY <1>2, <1>5, <1>6
<1>9. Untouched'
  <2> SUFFICES ASSUME NEW k \in 1..(n + 1)
               PROVE  IF k <= regs_count - new_regs_count
                      THEN registers'[k] = regs_count - k
                      ELSE registers'[k] < new_regs_count
    BY <1>1, <1>7 DEF Untouched
  <2>1. CASE k \in 1..n
    BY <1>1, <1>7, <2>1 DEF Peak, Untouched
  <2>2. CASE k = n + 1
    BY <1>2, <1>4, <1>7, <1>8, <2>2
  <2>3. QED
    BY <1>2, <2>1, <2>2
<1>10. Allocated' = Allocated
  BY <1>1 DEF Allocated, Mapped, IsPoint
<1>11. HomesBelow'
  BY <1>1, <1>10 DEF Peak, HomesBelow
<1>12. PeakHolds'
  BY <1>1, <1>2, <1>5, <1>6 DEF PeakHolds
<1>13. QED
  BY <1>1, <1>9, <1>11, <1>12 DEF Peak, NotCounted, FullyScanned, Saving

(* A new register is the next one never handed out exactly if the active   *)
(* list is at its peak.                                                    *)
LEMMA PeakAllocate ==
    ASSUME Shape, Pool, Peak, Allocate
    PROVE  Peak'
<1> DEFINE n     == Len(registers)
           reg   == registers[n]
           fresh == regs_count - new_regs_count
<1>1. /\ pc = "scan" /\ pc' = "scan" /\ cur' = cur + 1 /\ Scanning
      /\ active' = active \cup {cur} /\ registers' = SubSeq(registers, 1, n - 1)
      /\ regs_count' = regs_count
      /\ new_regs_count' = PeakCount(Cardinality(active'))
      /\ ~ IsPoint(intervals[cur])
  BY DEF Allocate, Purged, Scanning
<1>2. /\ n \in Nat \ {0} /\ cur \in 1..Len(intervals) /\ cur \notin active
      /\ Len(intervals') = Len(intervals) /\ intervals'[cur].to = reg
      /\ \A i \in 1..Len(intervals) :
            /\ intervals'[i].start = intervals[i].start
            /\ intervals'[i].end = intervals[i].end
            /\ i # cur => intervals'[i] = intervals[i]
  BY AllocateEffect
<1>3. /\ registers \in Seq(0..(regs_count - 1)) /\ registers # <<>>
      /\ regs_count \in Nat /\ new_regs_count \in 0..regs_count
  BY <1>2 DEF Shape, TypeOK
<1>4. /\ Len(registers') = n - 1
      /\ \A k \in 1..(n - 1) : registers'[k] = registers[k]
  BY <1>1, <1>3, Popped
<1>5. /\ Cardinality(active) \in Nat /\ Cardinality(active') = Cardinality(active) + 1
  BY <1>1, <1>2, ActiveFinite, FS_AddElement DEF Shape
<1>6. Cardinality(active) + n = regs_count /\ Cardinality(active) <= new_regs_count
  BY <1>1 DEF Pool, Counted, Peak, PeakHolds
<1>7. \A k \in 1..n : IF k <= fresh THEN registers[k] = regs_count - k
                                    ELSE registers[k] < new_regs_count
  BY <1>1 DEF Peak, Untouched
<1>8. /\ reg < new_regs_count' /\ new_regs_count' \in Nat
      /\ new_regs_count <= new_regs_count'
      /\ PeakHolds' /\ Untouched'
  <2>a. n \in 1..n /\ fresh \in Nat /\ n >= fresh
    BY <1>2, <1>3, <1>5, <1>6
  <2>1. CASE n = fresh
    <3>1. Cardinality(active) = new_regs_count /\ reg = new_regs_count
      BY <1>2, <1>3, <1>5, <1>6, <1>7, <2>a, <2>1
    <3>2. new_regs_count' = new_regs_count + 1
      BY <1>1, <1>3, <1>5, <3>1 DEF PeakCount
    <3>3. Untouched'
      BY <1>1, <1>2, <1>3, <1>4, <1>7, <2>1, <3>2 DEF Untouched
    <3>4. QED
      BY <1>3, <1>5, <3>1, <3>2, <3>3 DEF PeakHolds
  <2>2. CASE n > fresh
    <3>1. Cardinality(active) + 1 <= new_regs_count /\ reg < new_regs_count
      BY <1>2, <1>3, <1>5, <1>6, <1>7, <2>a, <2>2
    <3>2. new_regs_count' = new_regs_count
      BY <1>1, <1>3, <1>5, <3>1 DEF PeakCount
    <3>3. Untouched'
      <4> SUFFICES ASSUME NEW k \in 1..(n - 1)
                   PROVE  IF k <= fresh THEN registers'[k] = regs_count - k
                                        ELSE registers'[k] < new_regs_count
        BY <1>1, <1>4, <3>2 DEF Untouched
      <4>1. k \in 1..n
        BY <1>2
      <4>2. QED
        BY <1>4, <1>7, <4>1
    <3>4. QED
      BY <1>3, <1>5, <3>1, <3>2, <3>3 DEF PeakHolds
  <2>3. QED
    BY <1>2, <2>a, <2>1, <2>2
<1>9. Mapped \subseteq 1..(cur - 1) /\ Mapped' = Mapped \cup {cur}
  BY <1>1, <1>2, PassCurrent
<1>10. HomesBelow'
  <2>1. Allocated = Mapped /\ Allocated' = Mapped'
    BY <1>1 DEF Allocated
  <2>2. \A i \in Mapped : i \in 1..Len(intervals) /\ i # cur /\ intervals[i].to \in Nat
    <3> TAKE i \in Mapped
    <3>1. cur \in Nat /\ Len(intervals) \in Nat
      BY DEF Shape, TypeOK
    <3>2. i \in 1..Len(intervals) /\ i # cur
      BY <1>2, <1>9, <3>1
    <3>3. intervals[i] \in RegLiveInterval
      BY <3>2 DEF Shape, TypeOK
    <3>4. QED
      BY <3>2, <3>3 DEF RegLiveInterval
  <2>3. \A i \in Mapped : intervals'[i] = intervals[i] /\ intervals[i].to < new_regs_count
    BY <1>1, <1>2, <2>1, <2>2 DEF Peak, HomesBelow
  <2>4. \A i \in Mapped : intervals'[i].to < new_regs_count'
    BY <1>3, <1>8, <2>2, <2>3
  <2>5. QED
    BY <1>2, <1>8, <1>9, <2>1, <2>4 DEF HomesBelow
<1>11. QED
  BY <1>1, <1>8, <1>10 DEF Peak, NotCounted, FullyScanned, Saving

(* The scan ends with a home for every interval, or with a full frame.     *)
LEMMA PeakEndScan ==
    ASSUME Shape, Pool, Peak, EndScan
    PROVE  Peak'
<1>1. /\ pc = "scan" /\ pc' = "update"
      /\ UNCHANGED <<intervals, cur, active, regs_count, new_regs_count>>
  BY DEF EndScan, ScanOver, Purged, Scanning
<1>2. Allocated' = Allocated
  BY <1>1 DEF Allocated, Mapped, IsPoint
<1>3. FullyScanned'
  <2>1. cur \in Nat /\ Len(intervals) \in Nat /\ cur <= Len(intervals) + 1
        /\ regs_count \in Nat /\ new_regs_count \in Nat
    BY DEF Shape, TypeOK
  <2>2. CASE cur > Len(intervals)
    BY <1>1, <2>1, <2>2 DEF FullyScanned
  <2>3. CASE NoFreeRegister
    BY <1>1, <2>1, <2>3 DEF NoFreeRegister, Peak, PeakHolds, FullyScanned
  <2>4. QED
    BY <2>2, <2>3 DEF EndScan, ScanOver
<1>4. QED
  BY <1>1, <1>2, <1>3 DEF Peak, NotCounted, PeakHolds, Untouched, HomesBelow, Saving

(* Starting over with cur for the renaming forgets no home.                *)
LEMMA RenameKeepsHomes ==
    ASSUME Shape, Peak, BeginRename
    PROVE  Allocated' = Allocated
<1>1. /\ pc = "update" /\ pc' = "rename" /\ UNCHANGED intervals
      /\ cur = Len(intervals) + 1 /\ Len(intervals) \in Nat
  BY DEF BeginRename, Peak, FullyScanned, Shape, TypeOK
<1>2. 1..(cur - 1) = 1..Len(intervals)
  BY <1>1
<1>3. QED
  BY <1>1, <1>2 DEF Allocated, Mapped, IsPoint

LEMMA PeakStep ==
    ASSUME Shape, Pool, Peak, [Next]_vars
    PROVE  Peak'
<1>1. CASE Run \/ KeepCode \/ Shift
  BY <1>1 DEF Run, KeepCode, Shift, Peak, NotCounted, PeakHolds, Untouched,
     HomesBelow, FullyScanned, Saving
<1>2. CASE \E range \in pending : SortNext(range)
  BY <1>2 DEF SortNext, Peak, NotCounted, PeakHolds, Untouched,
     HomesBelow, FullyScanned, Saving
<1>3. CASE SkipPoint
  <2>1. /\ UNCHANGED <<pc, intervals, active, registers, regs_count, new_regs_count>>
        /\ pc = "scan" /\ cur' = cur + 1 /\ Scanning /\ IsPoint(intervals[cur])
    BY <1>3 DEF SkipPoint, Purged, Scanning
  <2>2. Allocated' = Allocated
    BY <2>1, PassCurrent DEF Allocated
  <2>3. QED
    BY <2>1, <2>2 DEF Peak, NotCounted, PeakHolds, Untouched, HomesBelow,
       FullyScanned, Saving
<1>4. CASE BeginRename
  <2>1. /\ pc = "update" /\ pc' = "rename" /\ new_regs_count < regs_count
        /\ UNCHANGED <<intervals, regs_count, new_regs_count>>
    BY <1>4 DEF BeginRename
  <2>2. HomesBelow'
    BY <1>4, <2>1, RenameKeepsHomes DEF Peak, HomesBelow
  <2>3. QED
    BY <2>1, <2>2 DEF Peak, NotCounted, PeakHolds, Untouched, FullyScanned, Saving
<1>5. CASE Rename
  <2>1. pc = "rename" /\ UNCHANGED <<pc, intervals, regs_count, new_regs_count>>
    BY <1>5 DEF Rename
  <2>2. Allocated' = Allocated
    BY <2>1 DEF Allocated, IsPoint
  <2>3. QED
    BY <2>1, <2>2 DEF Peak, NotCounted, PeakHolds, Untouched, HomesBelow,
       FullyScanned, Saving
<1>6. CASE UNCHANGED vars
  <2>1. Allocated' = Allocated
    BY <1>6 DEF vars, Allocated, Mapped, IsPoint
  <2>2. QED
    BY <1>6, <2>1 DEF vars, Peak, NotCounted, PeakHolds, Untouched, HomesBelow,
       FullyScanned, Saving
<1>7. QED
  BY <1>1, <1>2, <1>3, <1>4, <1>5, <1>6, PeakBeginScan, PeakExpire, PeakAllocate,
     PeakEndScan DEF Next

LEMMA PeakInvariance == Spec => []Peak
<1>1. Init => Peak
  BY DEF Init, Peak, NotCounted, PeakHolds, Untouched, HomesBelow, FullyScanned, Saving
<1>2. IInv /\ Peak /\ [Next]_vars => Peak'
  BY PeakStep DEF IInv
<1>3. QED
  BY <1>1, <1>2, Invariance, PTL DEF Spec

-----------------------------------------------------------------------------
(* What the abstract allocator sees does not change unless one of these    *)
(* does.                                                                   *)
LEMMA Stutter ==
    ASSUME UNCHANGED <<intervals, args>>, Allocated' = Allocated
    PROVE  UNCHANGED Frame!vars
  BY DEF Frame!vars, spansBar, homeBar

(* Another function: nothing collected, nothing allocated.                 *)
LEMMA RunBegins ==
    ASSUME Shape, Run
    PROVE  Frame!Begin
<1>1. Head(todo) \in Bytecode
  BY DEF Run, Shape, TypeOK
<1>2. args'.registerEnd \in Nat
  BY <1>1 DEF Run, Bytecode, Args
<1>3. intervals' = <<>> /\ cur' = 1 /\ pc' # "rename"
  BY DEF Run
<1>4. Allocated' = {}
  BY <1>3 DEF Allocated, Mapped
<1>5. spansBar' = <<>>
  BY <1>3 DEF spansBar
<1>6. homeBar' = [i \in {} |-> 0]
  BY <1>4 DEF homeBar
<1>7. QED
  BY <1>2, <1>5, <1>6 DEF Frame!Begin

(* Sorting collects. *)
LEMMA SortCollects ==
    ASSUME Shape, NEW range \in pending, SortNext(range)
    PROVE  Frame!Collect
<1> DEFINE n    == Len(intervals)
           it   == [from  |-> range.reg, to |-> range.reg,
                    start |-> range.start, end |-> range.end]
           span == [start |-> range.start, end |-> range.end]
<1>1. /\ intervals \in Seq(RegLiveInterval) /\ intervals' = Append(intervals, it)
      /\ pc = "sort" /\ UNCHANGED <<pc, cur, args>> /\ cur = 1 /\ n \in Nat
  BY DEF SortNext, Shape, TypeOK, Placed
<1>2. range \in LiveRange
  BY DEF Shape, TypeOK, Bytecode
<1>3. it \in RegLiveInterval /\ span \in Frame!Span
  BY <1>2 DEF LiveRange, RegLiveInterval, Frame!Span
<1>4. /\ Len(intervals') = n + 1 /\ intervals'[n + 1] = it
      /\ \A i \in 1..n : intervals'[i] = intervals[i]
  BY <1>1, <1>3
<1>5. Allocated = {} /\ Allocated' = {}
  BY <1>1 DEF Allocated, Mapped
<1>6. spansBar \in Seq(Frame!Span) /\ Len(spansBar) = n
  <2>1. \A i \in 1..n : intervals[i].start \in Nat /\ intervals[i].end \in Nat
    <3> TAKE i \in 1..n
    <3>1. intervals[i] \in RegLiveInterval
      BY <1>1
    <3>2. QED
      BY <3>1 DEF RegLiveInterval
  <2>2. \A i \in 1..n : spansBar[i] \in Frame!Span
    BY <2>1 DEF spansBar, Frame!Span
  <2>3. DOMAIN spansBar = 1..n /\ spansBar \in [1..n -> Frame!Span]
    BY <2>2 DEF spansBar
  <2>4. QED
    BY <1>1, <2>3
<1>7. spansBar' = Append(spansBar, span)
  <2>1. spansBar' = [i \in 1..(n + 1) |->
                        [start |-> intervals'[i].start, end |-> intervals'[i].end]]
    BY <1>4 DEF spansBar
  <2>2. \A i \in 1..n : spansBar'[i] = spansBar[i]
    BY <1>1, <1>4, <2>1 DEF spansBar
  <2>3. spansBar'[n + 1] = span
    BY <1>1, <1>4, <2>1
  <2>4. Append(spansBar, span) = [i \in 1..(n + 1) |-> IF i = n + 1 THEN span ELSE spansBar[i]]
    BY <1>3, <1>6
  <2>5. \A i \in 1..(n + 1) : spansBar'[i] = Append(spansBar, span)[i]
    BY <1>1, <2>2, <2>3, <2>4
  <2>6. QED
    BY <2>1, <2>4, <2>5
<1>8. span \in { spansBar'[i] : i \in DOMAIN spansBar' }
  <2>1. n + 1 \in DOMAIN spansBar' /\ spansBar'[n + 1] = span
    BY <1>1, <1>3, <1>6, <1>7
  <2>2. QED
    BY <2>1
<1>9. homeBar' = homeBar /\ DOMAIN homeBar = {}
  BY <1>5 DEF homeBar
<1>10. QED
  BY <1>1, <1>3, <1>7, <1>8, <1>9 DEF Frame!Collect

(* Allocating assigns: whatever clashes with the current interval and has  *)
(* a home is active, and so holds another register.                        *)
LEMMA AllocateAssigns ==
    ASSUME IInv, Peak, Allocate
    PROVE  \E i \in DOMAIN spansBar, r \in 0..(args.registerEnd - 1) : Frame!Assign(i, r)
<1> DEFINE n   == Len(registers)
           reg == registers[n]
<1>1. /\ pc = "scan" /\ pc' = "scan" /\ Scanning /\ cur' = cur + 1
      /\ ~ IsPoint(intervals[cur]) /\ args' = args /\ args.registerEnd = regs_count
  BY DEF Allocate, Purged, Scanning, IInv, Shape, HeaderCount
<1>2. /\ reg \in FreeRegisters /\ cur \notin active
      /\ cur \in 1..Len(intervals)
      /\ Len(intervals') = Len(intervals) /\ intervals'[cur].to = reg
      /\ \A i \in 1..Len(intervals) :
            /\ intervals'[i].start = intervals[i].start
            /\ intervals'[i].end = intervals[i].end
            /\ i # cur => intervals'[i] = intervals[i]
  BY AllocateEffect DEF IInv
<1>3. /\ Mapped \subseteq 1..(cur - 1) /\ Mapped' = Mapped \cup {cur}
  BY <1>1, <1>2, PassCurrent DEF IInv
<1>a. cur \in Nat /\ Len(intervals) \in Nat
  BY DEF IInv, Shape, TypeOK
<1>4. Allocated = Mapped /\ Allocated' = Mapped'
  BY <1>1 DEF Allocated
<1>5. \A i \in Mapped : i \in 1..Len(intervals) /\ i < cur
  BY <1>2, <1>3, <1>a
<1>6. reg \in 0..(args.registerEnd - 1)
  BY <1>1, <1>2 DEF IInv, Pool, PoolPartition
<1>7. spansBar' = spansBar /\ DOMAIN spansBar = 1..Len(intervals)
  BY <1>2 DEF spansBar
<1>8. \A j \in Mapped : Frame!Clash(spansBar[j], spansBar[cur]) => intervals[j].to # reg
  <2> SUFFICES ASSUME NEW j \in Mapped, Frame!Clash(spansBar[j], spansBar[cur])
               PROVE  intervals[j].to # reg
    OBVIOUS
  <2>1. intervals[j] \in RegLiveInterval /\ intervals[cur] \in RegLiveInterval
    BY <1>2, <1>5 DEF IInv, Shape, TypeOK
  <2>2. /\ intervals[j].start \in Nat /\ intervals[j].end \in Nat
        /\ intervals[cur].start \in Nat /\ intervals[cur].end \in Nat
    BY <2>1 DEF RegLiveInterval
  <2>3. intervals[j].end > intervals[cur].start
    <3>1. j \in 1..Len(intervals)
      BY <1>5
    <3>2. /\ spansBar[j] = [start |-> intervals[j].start, end |-> intervals[j].end]
          /\ spansBar[cur] = [start |-> intervals[cur].start, end |-> intervals[cur].end]
      BY <1>2, <3>1 DEF spansBar
    <3>3. PICK x \in Frame!LiveAt(spansBar[cur]) : x \in Frame!LiveAt(spansBar[j])
      BY DEF Frame!Clash
    <3>4. x >= intervals[cur].start /\ x <= intervals[j].end - 1 /\ x \in Int
      BY <2>2, <3>2, <3>3 DEF Frame!LiveAt
    <3>5. QED
      BY <2>2, <3>4
  <2>4. j \in active
    BY <1>1, <2>2, <2>3 DEF IInv, Retired
  <2>5. intervals[j].to \in HeldRegisters
    BY <2>4 DEF HeldRegisters
  <2>6. QED
    BY <1>1, <1>2, <2>5 DEF IInv, Pool, PoolPartition
<1>9. DOMAIN homeBar = Mapped /\ \A j \in Mapped : homeBar[j] = intervals[j].to
  BY <1>4 DEF homeBar
<1>10. homeBar' = [j \in Mapped \cup {cur} |-> IF j = cur THEN reg ELSE homeBar[j]]
  <2>1. homeBar' = [j \in Mapped \cup {cur} |-> intervals'[j].to]
    BY <1>3, <1>4 DEF homeBar
  <2>2. \A j \in Mapped \cup {cur} :
           intervals'[j].to = IF j = cur THEN reg ELSE homeBar[j]
    BY <1>2, <1>5, <1>9, <1>a
  <2>3. QED
    BY <2>1, <2>2
<1>11. cur \notin Mapped
  BY <1>5, <1>a
<1>12. Frame!Assign(cur, reg)
  BY <1>1, <1>7, <1>8, <1>9, <1>10, <1>11 DEF Frame!Assign
<1>13. QED
  BY <1>2, <1>6, <1>7, <1>12

(* Lowering the header shrinks the frame and cuts off no home. *)
LEMMA ShiftShrinks ==
    ASSUME Shape, Peak, Shift
    PROVE  \E n \in 0..(args.registerEnd - 1) : Frame!Shrink(n)
<1>1. /\ pc = "rename" /\ pc' = "idle" /\ cur > Len(intervals)
      /\ UNCHANGED <<intervals, cur>>
      /\ args' = MoveRegIndex(args, new_regs_count - regs_count)
  BY DEF Shift
<1>2. /\ args \in Args /\ args.registerEnd = regs_count /\ regs_count \in Nat
      /\ new_regs_count \in Nat /\ new_regs_count < regs_count
      /\ cur \in Nat /\ Len(intervals) \in Nat /\ cur <= Len(intervals) + 1
  BY <1>1 DEF Shape, TypeOK, HeaderCount, Peak, Saving
<1>3. args'.registerEnd = new_regs_count
  BY <1>1, <1>2 DEF MoveRegIndex, Args
<1>4. 1..(cur' - 1) = 1..Len(intervals)
  BY <1>1, <1>2
<1>5. Allocated' = Allocated
  BY <1>1, <1>4 DEF Allocated, Mapped, IsPoint
<1>6. spansBar' = spansBar /\ homeBar' = homeBar
  BY <1>1, <1>5 DEF spansBar, homeBar
<1>7. \A i \in DOMAIN homeBar : homeBar[i] < new_regs_count
  BY <1>1 DEF homeBar, Peak, HomesBelow
<1>8. Frame!Shrink(new_regs_count)
  BY <1>3, <1>6, <1>7 DEF Frame!Shrink
<1>9. new_regs_count \in 0..(args.registerEnd - 1)
  BY <1>2
<1>10. QED
  BY <1>8, <1>9

LEMMA StepImplements ==
    ASSUME IInv, Peak, [Next]_vars
    PROVE  [Frame!Next]_Frame!vars
<1>1. CASE Run
  BY <1>1, RunBegins DEF IInv, Frame!Next
<1>2. CASE \E range \in pending : SortNext(range)
  BY <1>2, SortCollects DEF IInv, Frame!Next
<1>3. CASE Allocate
  BY <1>3, AllocateAssigns DEF Frame!Next
<1>4. CASE Shift
  BY <1>4, ShiftShrinks DEF IInv, Frame!Next
<1>5. CASE SkipPoint
  <2>1. /\ UNCHANGED <<pc, intervals, args>> /\ pc = "scan" /\ cur' = cur + 1
        /\ Scanning /\ IsPoint(intervals[cur])
    BY <1>5 DEF SkipPoint, Purged, Scanning
  <2>2. Allocated' = Allocated
    BY <2>1, PassCurrent DEF Allocated, IInv
  <2>3. QED
    BY <2>1, <2>2, Stutter
<1>6. CASE BeginRename
  <2>1. UNCHANGED <<intervals, args>>
    BY <1>6 DEF BeginRename
  <2>2. QED
    BY <1>6, <2>1, RenameKeepsHomes, Stutter DEF IInv
<1>7. CASE Rename
  <2>1. UNCHANGED <<intervals, args>> /\ Allocated' = Allocated
    BY <1>7 DEF Rename, Allocated, IsPoint
  <2>2. QED
    BY <2>1, Stutter
<1>8. CASE BeginScan
  <2>1. UNCHANGED <<intervals, args, cur>> /\ pc = "sort" /\ pc' = "scan"
    BY <1>8 DEF BeginScan
  <2>2. Allocated' = Allocated
    BY <2>1 DEF Allocated, Mapped, IsPoint
  <2>3. QED
    BY <2>1, <2>2, Stutter
<1>9. CASE EndScan \/ KeepCode \/ UNCHANGED vars \/ \E a \in active : Expire(a)
  <2>1. /\ UNCHANGED <<intervals, args, cur>>
        /\ pc' = pc \/ (pc # "rename" /\ pc' # "rename")
    BY <1>9 DEF EndScan, ScanOver, Purged, Scanning, KeepCode, vars, Expire
  <2>2. Allocated' = Allocated
    BY <2>1 DEF Allocated, Mapped, IsPoint
  <2>3. QED
    BY <2>1, <2>2, Stutter
<1>10. QED
  BY <1>1, <1>2, <1>3, <1>4, <1>5, <1>6, <1>7, <1>8, <1>9 DEF Next

LEMMA InitImplements == Init => Frame!Init
<1> SUFFICES ASSUME Init PROVE Frame!Init
  OBVIOUS
<1>1. todo \in Seq(Bytecode) /\ todo # <<>>
  BY ProgramsAssumption DEF Init
<1>2. Head(todo) \in Bytecode
  BY <1>1
<1>3. args.registerEnd \in Nat
  BY <1>2 DEF Init, Bytecode, Args
<1>4. spansBar = <<>>
  BY DEF Init, spansBar
<1>5. Allocated = {}
  BY DEF Init, Allocated, Mapped
<1>6. homeBar = [i \in {} |-> 0]
  BY <1>5 DEF homeBar
<1>7. QED
  BY <1>3, <1>4, <1>6 DEF Frame!Init

(* The pass is an allocator in the sense of FrameAllocation: for all lists *)
(* of functions, live values are never put together, and the header is     *)
(* never lowered past a register that was handed out.                      *)
THEOREM Implementation == Spec => Implements
<1>1. IInv /\ Peak /\ [Next]_vars => [Frame!Next]_Frame!vars
  BY StepImplements
<1>2. QED
  BY <1>1, InitImplements, Invariance, PeakInvariance, PTL DEF Spec, Implements, Frame!Spec

-----------------------------------------------------------------------------
(* The rewriting.  A point keeps its register.                             *)
PointsStay ==
    \A i \in 1..Len(intervals) : IsPoint(intervals[i]) => intervals[i].to = intervals[i].from

CodeKept == pc \in {"sort", "scan", "update"} => code = bytecode.code

(* NoInterference, of all intervals at once. *)
AllApart ==
    \A i, j \in 1..Len(intervals) :
        /\ ~ IsPoint(intervals[i]) /\ ~ IsPoint(intervals[j])
        /\ i < j /\ intervals[i].end > intervals[j].start
        => intervals[i].to # intervals[j].to

(* What the intervals before n make of a register.  All of a function is   *)
(* renamed by one and the same map.                                        *)
NamesInFrame(rho) ==
    \A r \in Nat : IF r >= regs_count THEN rho[r] = r ELSE rho[r] < regs_count

NamesHome(rho, n) ==
    \A i \in 1..Len(intervals) :
        ~ IsPoint(intervals[i]) =>
            \/ rho[intervals[i].from] < new_regs_count
            \/ \E k \in n..Len(intervals) :
                  ~ IsPoint(intervals[k]) /\ intervals[k].from = rho[intervals[i].from]

Homes(i, r) == ~ IsPoint(intervals[i]) /\ intervals[i].from = r

NamesOnce(rho, n) ==
    \A r \in Nat :
        /\ (\A i \in 1..(n - 1) : ~ Homes(i, r)) => rho[r] = r
        /\ \A i \in 1..(n - 1) : Homes(i, r) => rho[r] = intervals[i].to

Renaming(rho, n) ==
    /\ \A r \in Nat : rho[r] \in Nat
    /\ NamesInFrame(rho) /\ NamesHome(rho, n)
    /\ Separable => NamesOnce(rho, n)

(* An instruction is another one with its registers renamed.               *)
IsRenamed(ins, was, rho) ==
    /\ Len(ins.lits) = Len(was.lits)
    /\ \A j \in 1..Len(was.lits) : ins.lits[j] = rho[was.lits[j]]
    /\ ins.reads = {} <=> was.reads = {}
    /\ ins.write = IF was.write = NoReg THEN NoReg ELSE rho[was.write]

Follows(insns, rho) ==
    /\ insns \in Seq(Instruction)
    /\ Len(insns) = Len(bytecode.code)
    /\ \A i \in 1..Len(insns) : IsRenamed(insns[i], bytecode.code[i], rho)

Unchanged == code = bytecode.code /\ args = bytecode.args

Rewritten ==
    /\ AllApart
    /\ args = MoveRegIndex(bytecode.args, new_regs_count - regs_count)
    /\ \E rho, renamed :
          /\ Renaming(rho, Len(intervals) + 1)
          /\ Follows(renamed, rho)
          /\ code = [i \in 1..Len(renamed) |->
                        ShiftIns(renamed[i], regs_count, new_regs_count - regs_count)]

Rewriting ==
    /\ pc = "rename" => /\ AllApart
                        /\ \E rho : Renaming(rho, cur) /\ Follows(code, rho)
    /\ Finished => Unchanged \/ Rewritten

Rewrite == PointsStay /\ CodeKept /\ Rewriting

-----------------------------------------------------------------------------
(* One more interval: every name is looked up in it. *)
Extends(ext, rho, it) == \A r \in Nat : ext[r] = RenameReg(rho[r], it)

LEMMA RenamingBegins ==
    ASSUME TypeOK
    PROVE  Renaming([r \in Nat |-> r], 1)
<1> DEFINE id == [r \in Nat |-> r]
<1>1. id \in [Nat -> Nat] /\ \A r \in Nat : id[r] = r
  OBVIOUS
<1> HIDE DEF id
<1>2. regs_count \in Nat
  BY DEF TypeOK
<1>3. NamesInFrame(id)
  BY <1>1, <1>2 DEF NamesInFrame
<1>4. NamesHome(id, 1)
  BY <1>1, IntervalNats DEF NamesHome
<1>5. NamesOnce(id, 1)
  BY <1>1 DEF NamesOnce
<1>6. QED
  BY <1>1, <1>3, <1>4, <1>5 DEF Renaming, id

LEMMA RenamingExtends ==
    ASSUME TypeOK, PointsStay, NEW n \in 1..Len(intervals), NEW rho, Renaming(rho, n),
           NEW ext, Extends(ext, rho, intervals[n]),
           \A i \in 1..Len(intervals) : intervals[i].from < regs_count,
           \A i \in 1..Len(intervals) : intervals[i].to < regs_count,
           \A i \in 1..Len(intervals) :
              ~ IsPoint(intervals[i]) => intervals[i].to < new_regs_count
    PROVE  Renaming(ext, n + 1)
<1> DEFINE it  == intervals[n]
<1>1. /\ regs_count \in Nat /\ new_regs_count \in Nat /\ Len(intervals) \in Nat
      /\ \A i \in 1..Len(intervals) : intervals[i].from \in Nat /\ intervals[i].to \in Nat
  <2>1. regs_count \in Nat /\ new_regs_count \in Nat
    BY DEF TypeOK
  <2>2. QED
    BY <2>1, IntervalNats
<1>2. /\ \A r \in Nat : rho[r] \in Nat
      /\ it.from \in Nat /\ it.to \in Nat
      /\ it.from < regs_count /\ it.to < regs_count
  BY <1>1 DEF Renaming
<1>3. \A r \in Nat : /\ rho[r] = it.from => ext[r] = it.to
                     /\ rho[r] # it.from => ext[r] = rho[r]
  BY DEF Extends, RenameReg
<1>8. \A r \in Nat : ext[r] \in Nat
  BY <1>2, <1>3
<1>4. NamesInFrame(ext)
  <2> SUFFICES ASSUME NEW r \in Nat
               PROVE  IF r >= regs_count THEN ext[r] = r ELSE ext[r] < regs_count
    BY DEF NamesInFrame
  <2>1. /\ r >= regs_count => rho[r] = r
        /\ ~ (r >= regs_count) => rho[r] < regs_count
    BY DEF Renaming, NamesInFrame
  <2>2. /\ rho[r] \in Nat
        /\ rho[r] = it.from => ext[r] = it.to
        /\ rho[r] # it.from => ext[r] = rho[r]
    BY <1>2, <1>3
  <2> HIDE DEF it
  <2>3. r >= regs_count => ext[r] = r
    BY <1>1, <1>2, <2>1, <2>2
  <2>4. ~ (r >= regs_count) => ext[r] < regs_count
    BY <1>1, <1>2, <2>1, <2>2
  <2>5. QED
    BY <2>3, <2>4
<1>5. NamesHome(ext, n + 1)
  <2> SUFFICES ASSUME NEW i \in 1..Len(intervals), ~ IsPoint(intervals[i])
               PROVE  \/ ext[intervals[i].from] < new_regs_count
                      \/ \E k \in (n + 1)..Len(intervals) :
                            ~ IsPoint(intervals[k]) /\ intervals[k].from = ext[intervals[i].from]
    BY DEF NamesHome
  <2> DEFINE old == rho[intervals[i].from]
             new == ext[intervals[i].from]
  <2>1. /\ old \in Nat
        /\ old = it.from => new = it.to
        /\ old # it.from => new = old
        /\ ~ IsPoint(it) => it.to < new_regs_count
        /\ IsPoint(it) => it.to = it.from
    BY <1>1, <1>2, <1>3 DEF PointsStay
  <2>2. CASE old < new_regs_count
    BY <1>1, <1>2, <2>1, <2>2
  <2>3. CASE \E k \in n..Len(intervals) : ~ IsPoint(intervals[k]) /\ intervals[k].from = old
    <3>1. PICK k \in n..Len(intervals) : ~ IsPoint(intervals[k]) /\ intervals[k].from = old
      BY <2>3
    <3>2. CASE k = n
      BY <2>1, <3>1, <3>2
    <3>3. CASE k # n
      <4>1. k \in (n + 1)..Len(intervals)
        BY <1>1, <3>3
      <4>2. new = old \/ new < new_regs_count
        BY <2>1
      <4>3. QED
        BY <3>1, <4>1, <4>2
    <3>4. QED
      BY <3>2, <3>3
  <2>4. QED
    BY <2>2, <2>3 DEF Renaming, NamesHome
<1>6. ASSUME Separable PROVE NamesOnce(ext, n + 1)
  <2>1. n + 1 - 1 = n /\ \A i \in 1..n : i \in 1..(n - 1) \/ i = n
    BY <1>1
  <2> SUFFICES ASSUME NEW r \in Nat
               PROVE  /\ (\A i \in 1..n : ~ Homes(i, r)) => ext[r] = r
                      /\ \A i \in 1..n : Homes(i, r) => ext[r] = intervals[i].to
    BY <2>1 DEF NamesOnce
  <2>2. /\ (\A i \in 1..(n - 1) : ~ Homes(i, r)) => rho[r] = r
        /\ \A i \in 1..(n - 1) : Homes(i, r) => rho[r] = intervals[i].to
    BY <1>6 DEF Renaming, NamesOnce
  <2>3. /\ rho[r] = it.from => ext[r] = it.to
        /\ rho[r] # it.from => ext[r] = rho[r]
    BY <1>3
  <2>4. n \in 1..n /\ \A i \in 1..(n - 1) : i \in 1..n /\ i < n /\ i \in 1..Len(intervals)
    BY <1>1
  <2>9. ASSUME IsPoint(it) PROVE ext[r] = rho[r]
    BY <2>3, <2>9 DEF PointsStay
  <2>5. ASSUME \A i \in 1..n : ~ Homes(i, r) PROVE ext[r] = r
    <3>1. rho[r] = r
      BY <2>2, <2>4, <2>5
    <3>2. IsPoint(it) \/ it.from # r
      BY <2>4, <2>5 DEF Homes
    <3>3. QED
      BY <2>3, <2>9, <3>1, <3>2
  <2>6. ASSUME NEW i \in 1..(n - 1), Homes(i, r) PROVE ext[r] = intervals[i].to
    <3>1. rho[r] = intervals[i].to
      BY <2>2, <2>6
    <3>2. CASE rho[r] = it.from /\ ~ IsPoint(it)
      <4>1. intervals[i].to = it.from /\ ~ IsPoint(intervals[i])
        BY <2>6, <3>1, <3>2 DEF Homes
      <4>2. it.to = intervals[i].to
        BY <1>6, <2>4, <3>2, <4>1 DEF Separable
      <4>3. QED
        BY <2>3, <3>2, <4>2
    <3>3. QED
      BY <2>3, <2>9, <3>1, <3>2
  <2>7. ASSUME Homes(n, r) PROVE ext[r] = it.to
    <3>1. CASE \A i \in 1..(n - 1) : ~ Homes(i, r)
      BY <2>2, <2>3, <2>7, <3>1 DEF Homes
    <3>2. CASE \E i \in 1..(n - 1) : Homes(i, r)
      <4>1. PICK i \in 1..(n - 1) : Homes(i, r)
        BY <3>2
      <4>2. ext[r] = intervals[i].to
        BY <2>6, <4>1
      <4>3. intervals[i].to = it.to
        BY <1>6, <2>4, <2>7, <4>1 DEF Separable, Homes
      <4>4. QED
        BY <4>2, <4>3
    <3>3. QED
      BY <3>1, <3>2
  <2>8. QED
    BY <2>1, <2>5, <2>6, <2>7
<1>7. QED
  BY <1>4, <1>5, <1>6, <1>8 DEF Renaming

LEMMA RenamingKept ==
    ASSUME UNCHANGED <<intervals, regs_count, new_regs_count>>, NEW rho, NEW n
    PROVE  Renaming(rho, n)' <=> Renaming(rho, n)
<1>1. NamesInFrame(rho)' <=> NamesInFrame(rho)
  BY DEF NamesInFrame
<1>2. NamesHome(rho, n)' <=> NamesHome(rho, n)
  BY DEF NamesHome, IsPoint
<1>3. NamesOnce(rho, n)' <=> NamesOnce(rho, n)
  BY DEF NamesOnce, Homes, IsPoint
<1>4. Separable' <=> Separable
  BY DEF Separable, IsPoint
<1>5. QED
  BY <1>1, <1>2, <1>3, <1>4 DEF Renaming

LEMMA AllApartKept ==
    ASSUME UNCHANGED intervals, AllApart
    PROVE  AllApart'
  BY DEF AllApart, IsPoint

(* Intervals are of registers, and points of registers they keep.          *)
LEMMA FromsBelow ==
    ASSUME TypeOK, Order, Begun, NEW i \in 1..Len(intervals)
    PROVE  intervals[i].from \in Nat /\ intervals[i].from < regs_count
<1>1. PICK range \in bytecode.ranges : CopyOf(intervals[i], range)
  BY DEF Order, Placement
<1>2. bytecode.args.registerEnd = regs_count
  BY DEF Order, SameFunction
<1>3. range.reg \in Nat /\ range.reg < regs_count
  BY <1>2, RangeFacts DEF RegistersOnly
<1>4. QED
  BY <1>1, <1>3 DEF CopyOf

(* An instruction without registers among its operands reads none.         *)
LEMMA NoRegisterRead ==
    ASSUME TypeOK, Order, Begun, NEW i \in 1..Len(bytecode.code),
           NEW j \in 1..Len(bytecode.code[i].lits)
    PROVE  bytecode.code[i].lits[j] < regs_count <=>
              bytecode.code[i].lits[j] \in bytecode.code[i].reads
<1>1. Recorded(bytecode.code, bytecode.args) /\ bytecode.args.registerEnd = regs_count
  BY DEF TypeOK, Bytecode, Order, SameFunction
<1>2. bytecode.code[i].reads = DecodeLiterals(bytecode.code[i].lits, bytecode.args)
  BY <1>1 DEF Recorded
<1>3. QED
  BY <1>1, <1>2 DEF DecodeLiterals

(* Renaming one more interval in an instruction is extending the map by it. *)
LEMMA IsRenamedMore ==
    ASSUME NEW was \in Instruction, NEW ins \in Instruction, NEW it \in RegLiveInterval,
           NEW rho, \A r \in Nat : rho[r] \in Nat,
           NEW ext, Extends(ext, rho, it), IsRenamed(ins, was, rho),
           was.reads = {} =>
              \A j \in 1..Len(was.lits) :
                 rho[was.lits[j]] = was.lits[j] /\ was.lits[j] # it.from
    PROVE  IsRenamed(RenameIns(ins, it), was, ext)
<1> DEFINE new == RenameIns(ins, it)
<1>1. /\ ins.lits \in Seq(Nat) /\ was.lits \in Seq(Nat)
      /\ was.write \in Nat \cup {NoReg}
      /\ Len(ins.lits) = Len(was.lits) /\ Len(was.lits) \in Nat
      /\ \A j \in 1..Len(was.lits) : was.lits[j] \in Nat /\ ins.lits[j] = rho[was.lits[j]]
  BY DEF Instruction, IsRenamed
<1>2. \A r \in Nat : ext[r] = RenameReg(rho[r], it) /\ rho[r] \in Nat
  BY DEF Extends
<1>3. /\ new.lits = RenameLits(ins, it)
      /\ new.reads = { RenameReg(r, it) : r \in ins.reads }
      /\ new.write = IF ins.write = NoReg THEN NoReg ELSE RenameReg(ins.write, it)
  BY DEF RenameIns
<1> HIDE DEF new
<1>4. new.reads = {} <=> was.reads = {}
  BY <1>3 DEF IsRenamed
<1>5. new.write = IF was.write = NoReg THEN NoReg ELSE ext[was.write]
  <2>1. CASE was.write = NoReg
    BY <1>3, <2>1 DEF IsRenamed
  <2>2. CASE was.write # NoReg
    <3>1. was.write \in Nat /\ ins.write = rho[was.write]
      BY <1>1, <2>2 DEF IsRenamed
    <3>2. ins.write # NoReg /\ ext[was.write] = RenameReg(ins.write, it)
      BY <1>2, <3>1, NoRegAssumption
    <3>3. QED
      BY <1>3, <2>2, <3>2
  <2>3. QED
    BY <2>1, <2>2
<1>6. /\ Len(new.lits) = Len(was.lits)
      /\ \A j \in 1..Len(was.lits) : new.lits[j] = ext[was.lits[j]]
  <2>1. CASE ins.reads # {}
    <3>1. new.lits = [j \in 1..Len(ins.lits) |-> RenameReg(ins.lits[j], it)]
      BY <1>3, <2>1 DEF RenameLits
    <3>2. /\ Len(new.lits) = Len(was.lits)
          /\ \A j \in 1..Len(was.lits) : new.lits[j] = RenameReg(ins.lits[j], it)
      BY <1>1, <3>1
    <3>3. QED
      BY <1>1, <1>2, <3>2
  <2>2. CASE ins.reads = {}
    <3>1. new.lits = ins.lits /\ was.reads = {}
      BY <1>3, <2>2 DEF RenameLits, IsRenamed
    <3>2. \A j \in 1..Len(was.lits) : ext[was.lits[j]] = was.lits[j]
      BY <1>1, <1>2, <3>1 DEF RenameReg
    <3>3. QED
      BY <1>1, <3>1, <3>2
  <2>3. QED
    BY <2>1, <2>2
<1>7. IsRenamed(new, was, ext)
  BY <1>4, <1>5, <1>6 DEF IsRenamed
<1>8. QED
  BY <1>7 DEF new

LEMMA FollowsRename ==
    ASSUME Shape, Order, Rename, NEW rho, \A r \in Nat : rho[r] \in Nat,
           NamesInFrame(rho), Follows(code, rho),
           NEW ext, Extends(ext, rho, intervals[cur])
    PROVE  Follows(code', ext)
<1>1. /\ code \in Seq(Instruction) /\ bytecode.code \in Seq(Instruction)
      /\ regs_count \in Nat /\ Len(code) = Len(bytecode.code)
      /\ cur \in 1..Len(intervals) /\ Begun
      /\ intervals[cur] \in RegLiveInterval
  <2>1. /\ code \in Seq(Instruction) /\ bytecode.code \in Seq(Instruction)
        /\ regs_count \in Nat /\ Len(code) = Len(bytecode.code)
    BY DEF Shape, TypeOK, Bytecode, Follows
  <2>2. cur \in 1..Len(intervals) /\ Begun /\ intervals \in Seq(RegLiveInterval)
    BY DEF Shape, TypeOK, Rename, Begun
  <2>3. QED
    BY <2>1, <2>2
<1>2. Len(code') = Len(code)
      /\ \A i \in 1..Len(code) : code'[i] = RenameIns(code[i], intervals[cur])
  BY <1>1 DEF Rename
<1>3. intervals[cur].from \in Nat /\ intervals[cur].from < regs_count
  BY <1>1, FromsBelow DEF Shape
<1>4. ASSUME NEW i \in 1..Len(code)
      PROVE  IsRenamed(code'[i], bytecode.code[i], ext)
  <2>a. i \in 1..Len(bytecode.code)
    BY <1>1
  <2>b. code[i] \in Instruction
    BY <1>1
  <2>c. bytecode.code[i] \in Instruction
    BY <1>1, <2>a
  <2>1. /\ code[i] \in Instruction /\ bytecode.code[i] \in Instruction
        /\ i \in 1..Len(bytecode.code)
    BY <2>a, <2>b, <2>c
  <2>2. ASSUME bytecode.code[i].reads = {}, NEW j \in 1..Len(bytecode.code[i].lits)
        PROVE  /\ rho[bytecode.code[i].lits[j]] = bytecode.code[i].lits[j]
               /\ bytecode.code[i].lits[j] # intervals[cur].from
    <3>a. bytecode.code[i].lits \in Seq(Nat)
      BY <2>1 DEF Instruction
    <3>1. bytecode.code[i].lits[j] \in Nat
      BY <2>2, <3>a
    <3>2. ~ (bytecode.code[i].lits[j] < regs_count)
      BY <1>1, <2>1, <2>2, NoRegisterRead DEF Shape
    <3>3. bytecode.code[i].lits[j] >= regs_count
      BY <1>1, <3>1, <3>2
    <3>4. QED
      BY <1>1, <1>3, <3>1, <3>2, <3>3 DEF NamesInFrame
  <2>3. IsRenamed(code[i], bytecode.code[i], rho)
    BY DEF Follows
  <2>4. QED
    BY <1>1, <1>2, <2>1, <2>2, <2>3, IsRenamedMore
<1>5. code' \in Seq(Instruction)
  BY ShapeRename DEF Shape, TypeOK
<1>6. Follows(code', ext)
  <2>1. bytecode' = bytecode
    BY DEF Rename
  <2>2. QED
    BY <1>1, <1>2, <1>4, <1>5, <2>1 DEF Follows
<1>7. QED
  BY <1>6

(* Each action keeps the rewriting what it is. *)
LEMMA RewriteRun ==
    ASSUME Shape, Run
    PROVE  Rewrite'
<1>1. /\ intervals' = <<>> /\ Len(intervals') = 0 /\ code' = bytecode'.code
      /\ regs_count' = Head(todo).args.registerEnd
      /\ pc' = IF Head(todo).args.registerEnd = 0 THEN "idle" ELSE "sort"
  BY DEF Run
<1>2. PointsStay' /\ CodeKept'
  BY <1>1 DEF PointsStay, CodeKept
<1>3. pc' = "idle" => regs_count' = 0
  BY <1>1
<1>4. QED
  BY <1>1, <1>2, <1>3 DEF Rewrite, Rewriting, Finished

LEMMA RewriteSortNext ==
    ASSUME Shape, Rewrite, NEW range \in pending, SortNext(range)
    PROVE  Rewrite'
<1> DEFINE n  == Len(intervals)
           it == [from  |-> range.reg, to |-> range.reg,
                  start |-> range.start, end |-> range.end]
<1>1. /\ pc = "sort" /\ pc' = "sort" /\ bytecode' = bytecode /\ code' = code
      /\ intervals' = Append(intervals, it)
  BY DEF SortNext
<1>2. range \in LiveRange
  BY RangeFacts DEF Shape
<1>3. it \in RegLiveInterval /\ intervals \in Seq(RegLiveInterval) /\ n \in Nat
  BY <1>2 DEF LiveRange, RegLiveInterval, Shape, TypeOK
<1>4. /\ Len(intervals') = n + 1 /\ intervals'[n + 1] = it
      /\ \A i \in 1..n : intervals'[i] = intervals[i]
  BY <1>1, <1>3
<1>5. it.to = it.from
  OBVIOUS
<1> HIDE DEF it
<1>6. PointsStay'
  <2> SUFFICES ASSUME NEW i \in 1..(n + 1), IsPoint(intervals'[i])
               PROVE  intervals'[i].to = intervals'[i].from
    BY <1>4 DEF PointsStay, IsPoint
  <2>1. CASE i \in 1..n
    BY <1>4, <2>1 DEF Rewrite, PointsStay
  <2>2. CASE i = n + 1
    BY <1>4, <1>5, <2>2
  <2>3. QED
    BY <1>3, <2>1, <2>2
<1>7. QED
  BY <1>1, <1>6 DEF Rewrite, CodeKept, Rewriting, Finished

LEMMA RewriteAllocate ==
    ASSUME Shape, Pool, Rewrite, Allocate
    PROVE  Rewrite'
<1>1. /\ pc = "scan" /\ pc' = "scan" /\ bytecode' = bytecode /\ code' = code
      /\ ~ IsPoint(intervals[cur])
  BY DEF Allocate, Purged, Scanning
<1>2. /\ Len(intervals') = Len(intervals)
      /\ \A i \in 1..Len(intervals) :
            /\ intervals'[i].start = intervals[i].start
            /\ intervals'[i].end = intervals[i].end
            /\ i # cur => intervals'[i] = intervals[i]
  BY AllocateEffect
<1>3. PointsStay'
  BY <1>1, <1>2 DEF Rewrite, PointsStay, IsPoint
<1>4. QED
  BY <1>1, <1>3 DEF Rewrite, CodeKept, Rewriting, Finished

(* The renaming begins with no register renamed, and the homes apart.      *)
LEMMA RewriteBeginRename ==
    ASSUME Shape, NoInterference, Peak, Rewrite, BeginRename
    PROVE  Rewrite'
<1>1. /\ pc = "update" /\ pc' = "rename" /\ cur' = 1 /\ new_regs_count < regs_count
      /\ UNCHANGED <<intervals, bytecode, code, regs_count, new_regs_count>>
  BY DEF BeginRename
<1>2. AllApart
  <2>1. cur - 1 = Len(intervals)
    BY <1>1 DEF Peak, FullyScanned, Shape, TypeOK
  <2>2. QED
    BY <1>1, <2>1 DEF NoInterference, Mapped, AllApart
<1>3. PICK id : id = [r \in Nat |-> r]
  OBVIOUS
<1>4. Renaming(id, 1)'
  <2>1. Renaming(id, 1)
    BY <1>3, RenamingBegins DEF Shape
  <2>2. QED
    BY <1>1, <2>1, RenamingKept
<1>5. Renaming(id, cur)'
  BY <1>1, <1>4
<1>6. Follows(code, id)'
  <2>1. /\ bytecode.code \in Seq(Instruction) /\ code = bytecode.code
    BY <1>1 DEF Shape, TypeOK, Bytecode, Rewrite, CodeKept
  <2>2. ASSUME NEW i \in 1..Len(bytecode.code)
        PROVE  IsRenamed(bytecode.code[i], bytecode.code[i], id)
    <3>1. bytecode.code[i] \in Instruction
      BY <2>1
    <3>2. bytecode.code[i].lits \in Seq(Nat) /\ bytecode.code[i].write \in Nat \cup {NoReg}
      BY <3>1 DEF Instruction
    <3>3. \A r \in Nat : id[r] = r
      BY <1>3
    <3>4. \A j \in 1..Len(bytecode.code[i].lits) : bytecode.code[i].lits[j] \in Nat
      BY <3>2
    <3>5. QED
      BY <3>2, <3>3, <3>4 DEF IsRenamed
  <2>3. QED
    BY <1>1, <2>1, <2>2 DEF Follows
<1>7. Rewriting'
  BY <1>1, <1>2, <1>5, <1>6, AllApartKept DEF Rewriting, Finished
<1>8. PointsStay'
  BY <1>1 DEF Rewrite, PointsStay, IsPoint
<1>9. QED
  BY <1>1, <1>7, <1>8 DEF Rewrite, CodeKept

(* Where the intervals stand when the renaming is under way.               *)
LEMMA HomesInFrame ==
    ASSUME Shape, Order, Peak, PointsStay, pc = "rename"
    PROVE  /\ \A i \in 1..Len(intervals) : intervals[i].from < regs_count
           /\ \A i \in 1..Len(intervals) : intervals[i].to < regs_count
           /\ \A i \in 1..Len(intervals) :
                 ~ IsPoint(intervals[i]) => intervals[i].to < new_regs_count
<1>1. \A i \in 1..Len(intervals) : intervals[i].from < regs_count
  BY FromsBelow DEF Shape, Begun
<1>2. \A i \in 1..Len(intervals) :
         ~ IsPoint(intervals[i]) => intervals[i].to < new_regs_count
  BY DEF Peak, HomesBelow, Allocated
<1>3. /\ regs_count \in Nat /\ new_regs_count \in Nat /\ new_regs_count <= regs_count
      /\ \A i \in 1..Len(intervals) : intervals[i].to \in Nat
  <2>1. /\ regs_count \in Nat /\ new_regs_count \in Nat /\ new_regs_count <= regs_count
    BY DEF Shape, TypeOK
  <2>2. QED
    BY <2>1, IntervalNats DEF Shape
<1>4. \A i \in 1..Len(intervals) : intervals[i].to < regs_count
  BY <1>1, <1>2, <1>3 DEF PointsStay
<1>5. QED
  BY <1>1, <1>2, <1>4

LEMMA RewriteRename ==
    ASSUME Shape, Order, Peak, Rewrite, Rename
    PROVE  Rewrite'
<1>1. /\ pc = "rename" /\ pc' = "rename" /\ cur' = cur + 1 /\ bytecode' = bytecode
      /\ UNCHANGED <<intervals, regs_count, new_regs_count>>
      /\ cur <= Len(intervals)
  BY DEF Rename
<1>2. cur \in 1..Len(intervals)
  BY <1>1 DEF Shape, TypeOK
<1>3. AllApart /\ \E rho : Renaming(rho, cur) /\ Follows(code, rho)
  BY <1>1 DEF Rewrite, Rewriting
<1>4. PICK rho : Renaming(rho, cur) /\ Follows(code, rho)
  BY <1>3
<1>5. PICK ext : ext = [r \in Nat |-> RenameReg(rho[r], intervals[cur])]
  OBVIOUS
<1>6. Extends(ext, rho, intervals[cur])
  BY <1>5 DEF Extends
<1>7. Renaming(ext, cur + 1)
  BY <1>1, <1>2, <1>4, <1>6, HomesInFrame, RenamingExtends DEF Shape, Rewrite
<1>8. Renaming(ext, cur)'
  <2>1. \A n : Renaming(ext, n)' <=> Renaming(ext, n)
    BY <1>1, RenamingKept
  <2>2. \A n : n = cur + 1 => Renaming(ext, n)'
    BY <1>7, <2>1
  <2>3. QED
    BY <1>1, <2>2
<1>9. Follows(code, ext)'
  <2>1. Follows(code', ext)
    BY <1>4, <1>6, FollowsRename DEF Renaming
  <2>2. QED
    BY <1>1, <2>1 DEF Follows
<1>10. AllApart'
  BY <1>1, <1>3, AllApartKept
<1>11. PointsStay'
  BY <1>1 DEF Rewrite, PointsStay, IsPoint
<1>12. QED
  BY <1>1, <1>8, <1>9, <1>10, <1>11 DEF Rewrite, CodeKept, Rewriting, Finished

LEMMA RewriteShift ==
    ASSUME Shape, Order, Rewrite, Shift
    PROVE  Rewrite'
<1> DEFINE offset == new_regs_count - regs_count
<1>1. /\ pc = "rename" /\ pc' = "idle" /\ bytecode' = bytecode
      /\ UNCHANGED <<intervals, regs_count, new_regs_count>>
      /\ args' = MoveRegIndex(args, offset) /\ cur > Len(intervals)
      /\ code' = [i \in 1..Len(code) |-> ShiftIns(code[i], args.registerEnd, offset)]
  BY DEF Shift
<1>2. args = bytecode.args /\ args.registerEnd = regs_count /\ cur = Len(intervals) + 1
  BY <1>1 DEF Order, SameFunction, Shape, HeaderCount, TypeOK
<1>3. AllApart /\ \E rho : Renaming(rho, cur) /\ Follows(code, rho)
  BY <1>1 DEF Rewrite, Rewriting
<1>4. PICK rho : Renaming(rho, cur) /\ Follows(code, rho)
  BY <1>3
<1>5. PICK renamed : renamed = code
  OBVIOUS
<1>6. (Renaming(rho, Len(intervals) + 1))'
  <2>1. \A n : Renaming(rho, n)' <=> Renaming(rho, n)
    BY <1>1, RenamingKept
  <2>2. \A n : n = Len(intervals) + 1 => Renaming(rho, n)'
    BY <1>2, <1>4, <2>1
  <2>3. QED
    BY <1>1, <2>2
<1>7. Follows(renamed, rho)'
  BY <1>1, <1>4, <1>5 DEF Follows
<1>8. code' = [i \in 1..Len(renamed) |->
                  ShiftIns(renamed[i], regs_count', new_regs_count' - regs_count')]
  BY <1>1, <1>2, <1>5
<1>9. args' = MoveRegIndex(bytecode'.args, new_regs_count' - regs_count')
  BY <1>1, <1>2
<1>10. AllApart'
  BY <1>1, <1>3, AllApartKept
<1>11. PointsStay'
  BY <1>1 DEF Rewrite, PointsStay, IsPoint
<1>12. Rewritten'
  BY <1>6, <1>7, <1>8, <1>9, <1>10 DEF Rewritten
<1>13. QED
  BY <1>1, <1>11, <1>12 DEF Rewrite, CodeKept, Rewriting

LEMMA RewriteKept ==
    ASSUME Rewrite,
           UNCHANGED <<code, bytecode, args, intervals, regs_count, new_regs_count>>,
           \/ pc \in {"sort", "scan", "update"} /\ pc' \in {"scan", "update"}
           \/ UNCHANGED <<pc, cur>>
    PROVE  Rewrite'
<1>1. PointsStay'
  BY DEF Rewrite, PointsStay, IsPoint
<1>2. CodeKept'
  BY DEF Rewrite, CodeKept
<1>3. CASE pc' \in {"scan", "update"}
  BY <1>1, <1>2, <1>3 DEF Rewrite, Rewriting, Finished
<1>4. CASE UNCHANGED <<pc, cur>>
  <2>1. AllApart' <=> AllApart
    BY DEF AllApart, IsPoint
  <2>2. \A rho, n : Renaming(rho, n)' <=> Renaming(rho, n)
    BY RenamingKept
  <2>3. \A rho : Renaming(rho, cur)' <=> Renaming(rho, cur)
    BY <1>4, <2>2
  <2>4. \A rho : (Renaming(rho, Len(intervals) + 1))' <=> Renaming(rho, Len(intervals) + 1)
    BY <2>2
  <2>5. \A rho, insns : Follows(insns, rho)' <=> Follows(insns, rho)
    BY DEF Follows
  <2>6. \A rho : Follows(code, rho)' <=> Follows(code, rho)
    BY <2>5
  <2>7. Rewritten' <=> Rewritten
    BY <2>1, <2>4, <2>5 DEF Rewritten
  <2>8. Unchanged' <=> Unchanged
    BY DEF Unchanged
  <2>9. Finished' <=> Finished
    BY <1>4 DEF Finished
  <2>10. Rewriting'
    BY <1>4, <2>1, <2>3, <2>6, <2>7, <2>8, <2>9 DEF Rewrite, Rewriting
  <2>11. QED
    BY <1>1, <1>2, <2>10 DEF Rewrite
<1>5. QED
  BY <1>3, <1>4

LEMMA RewriteStep ==
    ASSUME Shape, Pool, NoInterference, Order, Peak, Rewrite, [Next]_vars
    PROVE  Rewrite'
<1>1. CASE BeginScan \/ (\E a \in active : Expire(a)) \/ SkipPoint \/ EndScan
  BY <1>1, RewriteKept DEF BeginScan, Expire, SkipPoint, EndScan, ScanOver, Purged, Scanning
<1>2. CASE UNCHANGED vars
  BY <1>2, RewriteKept DEF vars
<1>3. CASE KeepCode
  <2>1. /\ pc = "update" /\ pc' = "idle"
        /\ UNCHANGED <<code, bytecode, args, intervals, regs_count, new_regs_count>>
    BY <1>3 DEF KeepCode
  <2>2. Unchanged'
    BY <2>1 DEF Unchanged, Rewrite, CodeKept, Order, SameFunction
  <2>3. PointsStay'
    BY <2>1 DEF Rewrite, PointsStay, IsPoint
  <2>4. QED
    BY <2>1, <2>2, <2>3 DEF Rewrite, CodeKept, Rewriting
<1>4. QED
  BY <1>1, <1>2, <1>3, RewriteRun, RewriteSortNext, RewriteAllocate, RewriteBeginRename,
     RewriteRename, RewriteShift DEF Next

LEMMA RewriteInvariance == Spec => []Rewrite
<1>1. Init => Rewrite
  BY DEF Init, Rewrite, PointsStay, CodeKept, Rewriting, Finished
<1>2. IInv /\ Sound /\ Peak /\ Rewrite /\ [Next]_vars => Rewrite'
  BY RewriteStep DEF IInv, Sound
<1>3. QED
  BY <1>1, <1>2, Invariance, SoundInvariance, PeakInvariance, PTL DEF Spec

-----------------------------------------------------------------------------
(* The end of a run that renamed: where each literal went.                 *)
LEMMA OperandPosition ==
    ASSUME TypeOK, NEW p \in Operands
    PROVE  /\ p[1] \in 1..Len(bytecode.code)
           /\ p[2] \in 1..Len(bytecode.code[p[1]].lits)
           /\ OldLiteral(p) \in Nat
<1>1. PICK i \in 1..Len(bytecode.code) : p \in {i} \X (1..Len(bytecode.code[i].lits))
  BY DEF Operands
<1>2. p[1] = i /\ p[2] \in 1..Len(bytecode.code[i].lits)
  BY <1>1
<1>3. bytecode.code \in Seq(Instruction)
  BY DEF TypeOK, Bytecode
<1>4. bytecode.code[i] \in Instruction
  BY <1>3
<1>5. bytecode.code[i].lits[p[2]] \in Nat
  <2>1. bytecode.code[i].lits \in Seq(Nat)
    BY <1>4 DEF Instruction
  <2>2. \A j \in 1..Len(bytecode.code[i].lits) : bytecode.code[i].lits[j] \in Nat
    BY <2>1
  <2>3. QED
    BY <1>2, <2>2
<1>6. QED
  BY <1>2, <1>5 DEF OldLiteral

IsFinal(rho) ==
    /\ Renaming(rho, Len(intervals) + 1)
    /\ \A p \in Operands :
          NewLiteral(p) = IF rho[OldLiteral(p)] >= regs_count
                          THEN rho[OldLiteral(p)] + (new_regs_count - regs_count)
                          ELSE rho[OldLiteral(p)]
    /\ Len(code) = Len(bytecode.code)
    /\ \A i \in 1..Len(code) :
          code[i].write = IF bytecode.code[i].write = NoReg THEN NoReg
                          ELSE rho[bytecode.code[i].write]

LEMMA FinalExists ==
    ASSUME Shape, Rewritten
    PROVE  \E rho : IsFinal(rho)
<1> DEFINE offset == new_regs_count - regs_count
<1>1. PICK rho, renamed :
         /\ Renaming(rho, Len(intervals) + 1)
         /\ Follows(renamed, rho)
         /\ code = [i \in 1..Len(renamed) |-> ShiftIns(renamed[i], regs_count, offset)]
  BY DEF Rewritten
<1>2. /\ renamed \in Seq(Instruction) /\ Len(renamed) = Len(bytecode.code)
      /\ \A i \in 1..Len(renamed) : IsRenamed(renamed[i], bytecode.code[i], rho)
  BY <1>1 DEF Follows
<1>3. /\ Len(code) = Len(renamed)
      /\ \A i \in 1..Len(renamed) : code[i] = ShiftIns(renamed[i], regs_count, offset)
  BY <1>1, <1>2
<1>4. ASSUME NEW ins \in Instruction
      PROVE  /\ ShiftIns(ins, regs_count, offset).write = ins.write
             /\ \A j \in 1..Len(ins.lits) :
                   ShiftIns(ins, regs_count, offset).lits[j] =
                      IF ins.lits[j] >= regs_count THEN ins.lits[j] + offset ELSE ins.lits[j]
  <2>1. ins \in [lits : Seq(Nat), reads : SUBSET Nat, write : Nat \cup {NoReg}]
    BY DEF Instruction
  <2>2. QED
    BY <2>1 DEF ShiftIns
<1>5. ASSUME NEW i \in 1..Len(renamed)
      PROVE  /\ code[i].write = IF bytecode.code[i].write = NoReg THEN NoReg
                                ELSE rho[bytecode.code[i].write]
             /\ \A j \in 1..Len(bytecode.code[i].lits) :
                   code[i].lits[j] =
                      IF rho[bytecode.code[i].lits[j]] >= regs_count
                      THEN rho[bytecode.code[i].lits[j]] + offset
                      ELSE rho[bytecode.code[i].lits[j]]
  <2>1. renamed[i] \in Instruction /\ code[i] = ShiftIns(renamed[i], regs_count, offset)
    BY <1>2, <1>3
  <2>2. IsRenamed(renamed[i], bytecode.code[i], rho)
    BY <1>2
  <2>3. QED
    BY <1>4, <2>1, <2>2 DEF IsRenamed
<1>6. ASSUME NEW p \in Operands
      PROVE  NewLiteral(p) = IF rho[OldLiteral(p)] >= regs_count
                             THEN rho[OldLiteral(p)] + offset
                             ELSE rho[OldLiteral(p)]
  <2>1. p[1] \in 1..Len(renamed) /\ p[2] \in 1..Len(bytecode.code[p[1]].lits)
    BY <1>2, OperandPosition DEF Shape
  <2>2. QED
    BY <1>5, <2>1 DEF NewLiteral, OldLiteral
<1>7. IsFinal(rho)
  BY <1>1, <1>2, <1>3, <1>5, <1>6 DEF IsFinal
<1>8. QED
  BY <1>7

LEMMA FinalHeader ==
    ASSUME Shape, Order, Finished, Rewritten
    PROVE  /\ args.registerEnd = new_regs_count
           /\ bytecode.args.registerEnd = regs_count
           /\ args.literalEnd = bytecode.args.literalEnd + (new_regs_count - regs_count)
           /\ regs_count \in Nat /\ new_regs_count \in Nat /\ new_regs_count <= regs_count
           /\ bytecode.args.literalEnd \in Nat
<1>1. /\ bytecode.args \in Args /\ regs_count \in Nat /\ new_regs_count \in Nat
      /\ new_regs_count <= regs_count
  BY DEF Shape, TypeOK, Bytecode
<1>2. bytecode.args.registerEnd = regs_count
  BY DEF Finished, Begun, Order, SameFunction
<1>3. bytecode.args \in [argumentEnd : Nat, registerEnd : Nat, literalEnd : Nat]
  BY <1>1 DEF Args
<1>4. args = MoveRegIndex(bytecode.args, new_regs_count - regs_count)
  BY DEF Rewritten
<1>5. /\ args.registerEnd = bytecode.args.registerEnd + (new_regs_count - regs_count)
      /\ args.literalEnd = bytecode.args.literalEnd + (new_regs_count - regs_count)
  BY <1>3, <1>4 DEF MoveRegIndex
<1>6. QED
  BY <1>1, <1>2, <1>3, <1>5

Finish == Shape /\ Order /\ Rewrite

(* Idents and constants keep their slots in the literal pool.              *)
THEOREM SlotsPreserved == Spec => []LiteralSlotPreserved
<1>1. ASSUME Finish PROVE LiteralSlotPreserved
  <2> SUFFICES ASSUME Finished
               PROVE  /\ args.literalEnd - args.registerEnd
                            = bytecode.args.literalEnd - bytecode.args.registerEnd
                      /\ \A p \in Operands :
                            OldLiteral(p) >= bytecode.args.registerEnd =>
                                NewLiteral(p) - args.registerEnd
                                    = OldLiteral(p) - bytecode.args.registerEnd
    BY DEF LiteralSlotPreserved
  <2>1. CASE Unchanged
    BY <2>1 DEF Unchanged, NewLiteral, OldLiteral
  <2>2. CASE Rewritten
    <3>1. PICK rho : IsFinal(rho)
      BY <1>1, <2>2, FinalExists DEF Finish
    <3>2. /\ args.registerEnd = new_regs_count /\ bytecode.args.registerEnd = regs_count
          /\ args.literalEnd = bytecode.args.literalEnd + (new_regs_count - regs_count)
          /\ regs_count \in Nat /\ new_regs_count \in Nat /\ bytecode.args.literalEnd \in Nat
      BY <1>1, <2>2, FinalHeader DEF Finish
    <3>3. ASSUME NEW p \in Operands, OldLiteral(p) >= regs_count
          PROVE  NewLiteral(p) - new_regs_count = OldLiteral(p) - regs_count
      <4>1. OldLiteral(p) \in Nat
        BY <1>1, OperandPosition DEF Finish, Shape
      <4>2. rho[OldLiteral(p)] = OldLiteral(p)
        BY <3>1, <3>3, <4>1 DEF IsFinal, Renaming, NamesInFrame
      <4>3. NewLiteral(p) = OldLiteral(p) + (new_regs_count - regs_count)
        BY <3>1, <3>3, <4>2 DEF IsFinal
      <4>4. QED
        BY <3>2, <4>1, <4>3
    <3>4. QED
      BY <3>2, <3>3
  <2>3. QED
    BY <1>1, <2>1, <2>2 DEF Finish, Rewrite, Rewriting
<1>2. QED
  BY <1>1, Invariance, SoundInvariance, RewriteInvariance, PTL DEF IInv, Sound, Finish

(* A register with a home is renamed to one of the registers the smaller   *)
(* frame keeps, whatever the later intervals make of its new name.         *)
THEOREM OperandsHome == Spec => []MappedOperandInFrame
<1>1. ASSUME Finish PROVE MappedOperandInFrame
  <2> SUFFICES ASSUME Finished, NEW p \in Operands, NEW i \in 1..Len(intervals),
                      intervals[i].from = OldLiteral(p), ~ IsPoint(intervals[i])
               PROVE  NewLiteral(p) < args.registerEnd
    BY DEF MappedOperandInFrame
  <2>1. OldLiteral(p) \in Nat /\ OldLiteral(p) < regs_count
    BY <1>1, FromsBelow DEF Finish, Shape, Finished, Begun
  <2>2. CASE Unchanged
    <3>1. NewLiteral(p) = OldLiteral(p) /\ args.registerEnd = regs_count
      BY <1>1, <2>2 DEF Unchanged, NewLiteral, OldLiteral, Finish, Order, SameFunction,
         Finished, Begun
    <3>2. QED
      BY <2>1, <3>1
  <2>3. CASE Rewritten
    <3>1. PICK rho : IsFinal(rho)
      BY <1>1, <2>3, FinalExists DEF Finish
    <3>2. /\ args.registerEnd = new_regs_count
          /\ regs_count \in Nat /\ new_regs_count \in Nat /\ new_regs_count <= regs_count
      BY <1>1, <2>3, FinalHeader DEF Finish
    <3>3. rho[OldLiteral(p)] < new_regs_count
      <4>1. Len(intervals) \in Nat
        BY <1>1 DEF Finish, Shape, TypeOK
      <4>2. \A k : k \notin (Len(intervals) + 1)..Len(intervals)
        BY <4>1
      <4>3. QED
        BY <3>1, <4>2 DEF IsFinal, Renaming, NamesHome
    <3>4. rho[OldLiteral(p)] \in Nat
      BY <2>1, <3>1 DEF IsFinal, Renaming
    <3>5. ~ (rho[OldLiteral(p)] >= regs_count)
      BY <3>2, <3>3, <3>4
    <3>6. NewLiteral(p) = rho[OldLiteral(p)]
      BY <3>1, <3>5 DEF IsFinal
    <3>7. QED
      BY <3>2, <3>3, <3>6
  <2>4. QED
    BY <1>1, <2>2, <2>3 DEF Finish, Rewrite, Rewriting
<1>2. QED
  BY <1>1, Invariance, SoundInvariance, RewriteInvariance, PTL DEF IInv, Sound, Finish

-----------------------------------------------------------------------------
(* What LastWriter chooses. *)
LEMMA GreatestExists ==
    ASSUME NEW n \in Nat, NEW S \in SUBSET (1..n), S # {}
    PROVE  \E m \in S : \A k \in S : k <= m
<1> DEFINE R == OpToRel(<, Nat)
           T == { n - k : k \in S }
<1>1. IsWellFoundedOn(R, Nat)
  BY NatLessThanWellFounded
<1>2. \A x, y \in Nat : y < x => <<y, x>> \in R
  BY DEF OpToRel
<1>3. T \in SUBSET Nat /\ T # {}
  <2>1. \A k \in S : n - k \in Nat
    OBVIOUS
  <2>2. QED
    BY <2>1
<1> HIDE DEF R, T
<1>4. PICK t \in T : \A y \in T : ~ (<<y, t>> \in R)
  BY <1>1, <1>3, WFMin, Zenon
<1>5. \A y \in T : ~ (y < t)
  BY <1>2, <1>3, <1>4, Zenon
<1>6. PICK m \in S : t = n - m
  BY DEF T
<1>7. ASSUME NEW k \in S PROVE k <= m
  <2>1. n - k \in T /\ k \in Int /\ m \in Int
    BY DEF T
  <2>2. ~ (n - k < n - m)
    BY <1>5, <1>6, <2>1
  <2>3. QED
    BY <2>1, <2>2
<1>8. QED
  BY <1>7

Writers(insns, path, reg, reached) ==
    { i \in path : i < reached /\ insns[i].write = reg }

LEMMA LastWriterLast ==
    ASSUME NEW n \in Nat, NEW path \in SUBSET (1..n), NEW insns, NEW reg, NEW reached
    PROVE  /\ LastWriter(insns, path, reg, reached)
                 \in Writers(insns, path, reg, reached) \cup {0}
           /\ \A other \in Writers(insns, path, reg, reached) :
                 other <= LastWriter(insns, path, reg, reached)
<1> DEFINE W == Writers(insns, path, reg, reached)
           last == LastWriter(insns, path, reg, reached)
<1>1. last = CHOOSE i \in W \cup {0} : \A other \in W : other <= i
  BY DEF LastWriter, Writers
<1>2. W \in SUBSET (1..n)
  BY DEF Writers
<1> HIDE DEF W, last
<1>3. \E i \in W \cup {0} : \A other \in W : other <= i
  <2>1. CASE W = {}
    BY <2>1
  <2>2. CASE W # {}
    BY <1>2, <2>2, GreatestExists
  <2>3. QED
    BY <2>1, <2>2
<1>4. last \in W \cup {0} /\ \A other \in W : other <= last
  BY <1>1, <1>3
<1>5. QED
  BY <1>4 DEF W, last

LEMMA LastWriterUnique ==
    ASSUME NEW n \in Nat, NEW path \in SUBSET (1..n), NEW insns, NEW reg, NEW reached,
           NEW w \in Writers(insns, path, reg, reached),
           \A other \in Writers(insns, path, reg, reached) : other <= w
    PROVE  LastWriter(insns, path, reg, reached) = w
<1> DEFINE W == Writers(insns, path, reg, reached)
           last == LastWriter(insns, path, reg, reached)
<1>1. last \in W \cup {0} /\ \A other \in W : other <= last
  BY LastWriterLast
<1>2. W \in SUBSET (1..n)
  BY DEF Writers
<1>3. w \in W /\ \A other \in W : other <= w
  OBVIOUS
<1> HIDE DEF W, last
<1>4. last = w
  BY <1>1, <1>2, <1>3
<1>5. QED
  BY <1>4 DEF last

(* Two registers that hold values at once are given different names: one   *)
(* is written while the other waits to be read.                            *)
LEMMA HeldApart ==
    ASSUME Shape, Order, Finished, Rewritten, Separable, NEW rho, IsFinal(rho),
           NEW w \in 1..Len(bytecode.code), NEW i \in 1..Len(bytecode.code),
           NEW reader \in 1..Len(bytecode.code), w < i, i < reader,
           bytecode.code[w].write # NoReg, bytecode.code[i].write # NoReg,
           bytecode.code[i].write # bytecode.code[w].write,
           bytecode.code[reader].write = NoReg,
           bytecode.code[w].write \in bytecode.code[reader].reads
    PROVE  rho[bytecode.code[i].write] # rho[bytecode.code[w].write]
<1> DEFINE u == bytecode.code[i].write
           v == bytecode.code[w].write
<1>1. /\ WritesBegin(bytecode.code, bytecode.ranges)
      /\ HeldBetween(bytecode.code, bytecode.ranges)
  BY DEF Shape, TypeOK, Bytecode, RangesFit
<1>2. PICK p \in bytecode.ranges : p.reg = v /\ p.start < Offset(i) /\ Offset(i) < p.end
  BY <1>1 DEF HeldBetween, Holds
<1>3. PICK q \in bytecode.ranges : /\ q.reg = u /\ q.start = Offset(i)
                                   /\ i > 1 => q.end # q.start
  BY <1>1 DEF WritesBegin
<1>4. \A range \in bytecode.ranges :
         range.reg \in Nat /\ range.start \in Nat /\ range.end \in Nat
  BY RangeFacts DEF Shape
<1>5. i > 1 /\ Offset(i) \in Int
  BY DEF Offset
<1>6. \A range \in bytecode.ranges : \E k \in 1..Len(intervals) : CopyOf(intervals[k], range)
  BY DEF Order, Placement, Begun, Finished
<1>7. PICK a \in 1..Len(intervals) : CopyOf(intervals[a], p)
  BY <1>6
<1>8. PICK b \in 1..Len(intervals) : CopyOf(intervals[b], q)
  BY <1>6
<1>9. ~ IsPoint(intervals[a]) /\ ~ IsPoint(intervals[b])
  BY <1>2, <1>3, <1>4, <1>5, <1>7, <1>8 DEF IsPoint, CopyOf
<1>10. /\ intervals[a].start < intervals[b].start
       /\ intervals[a].end > intervals[b].start
  BY <1>2, <1>3, <1>4, <1>5, <1>7, <1>8 DEF CopyOf
<1>11. a < b
  <2>1. a # b
    BY <1>3, <1>4, <1>8, <1>10 DEF CopyOf
  <2>2. ~ (b < a)
    BY <1>10 DEF Order, KeySorted, StartsBefore
  <2>3. QED
    BY <2>1, <2>2
<1>12. intervals[a].to # intervals[b].to
  BY <1>9, <1>10, <1>11 DEF Rewritten, AllApart
<1>13. v \in Nat /\ u \in Nat
  BY <1>2, <1>3, <1>4
<1>14. rho[v] = intervals[a].to /\ rho[u] = intervals[b].to
  <2>1. Len(intervals) \in Nat /\ Len(intervals) + 1 - 1 = Len(intervals)
    BY DEF Shape, TypeOK
  <2>2. NamesOnce(rho, Len(intervals) + 1)
    BY DEF IsFinal, Renaming
  <2>3. \A r \in Nat : \A k \in 1..Len(intervals) :
           Homes(k, r) => rho[r] = intervals[k].to
    BY <2>1, <2>2 DEF NamesOnce
  <2>4. Homes(a, v) /\ Homes(b, u)
    BY <1>2, <1>3, <1>7, <1>8, <1>9 DEF CopyOf, Homes
  <2>5. QED
    BY <1>13, <2>3, <2>4
<1>15. QED
  BY <1>12, <1>14

(* Values are read where they were read before, by instructions that write *)
(* none and on runs in the order of the code, in every function in which   *)
(* no later rule takes away the home of an interval (Separable).           *)
THEOREM ValuesKept == Spec => []DefUseKept
<1>1. ASSUME Finish PROVE DefUseKept
  <2> SUFFICES ASSUME Finished, Separable,
                      NEW path \in SUBSET (1..Len(code)), NEW p \in Operands,
                      p[1] \in path, bytecode.code[p[1]].write = NoReg,
                      OldLiteral(p) < bytecode.args.registerEnd,
                      LastWriter(bytecode.code, path, OldLiteral(p), p[1]) # 0
               PROVE  LastWriter(code, path, NewLiteral(p), p[1])
                         = LastWriter(bytecode.code, path, OldLiteral(p), p[1])
    BY DEF DefUseKept
  <2> DEFINE v      == OldLiteral(p)
             reader == p[1]
             w      == LastWriter(bytecode.code, path, v, reader)
             old    == Writers(bytecode.code, path, v, reader)
             new    == Writers(code, path, NewLiteral(p), reader)
  <2>1. CASE Unchanged
    BY <2>1 DEF Unchanged, NewLiteral, OldLiteral
  <2>2. CASE Rewritten
    <3>1. PICK rho : IsFinal(rho)
      BY <1>1, <2>2, FinalExists DEF Finish
    <3>2. /\ bytecode.args.registerEnd = regs_count
          /\ regs_count \in Nat /\ v \in Nat /\ v < regs_count
          /\ reader \in 1..Len(bytecode.code) /\ p[2] \in 1..Len(bytecode.code[reader].lits)
      BY <1>1, <2>2, FinalHeader, OperandPosition DEF Finish, Shape
    <3>3. /\ Len(code) = Len(bytecode.code) /\ Len(code) \in Nat
          /\ \A i \in 1..Len(code) :
                code[i].write = IF bytecode.code[i].write = NoReg THEN NoReg
                                ELSE rho[bytecode.code[i].write]
      BY <1>1, <3>1 DEF IsFinal, Finish, Shape, TypeOK
    <3>4. NewLiteral(p) = rho[v] /\ rho[v] \in Nat
      <4>1. rho[v] \in Nat /\ rho[v] < regs_count
        BY <3>1, <3>2 DEF IsFinal, Renaming, NamesInFrame
      <4>2. ~ (rho[v] >= regs_count)
        BY <3>2, <4>1
      <4>3. QED
        BY <3>1, <4>1, <4>2 DEF IsFinal
    <3>5. w \in old /\ \A other \in old : other <= w
      <4>1. /\ w \in old \cup {0}
            /\ \A other \in old : other <= w
        BY <3>3, LastWriterLast
      <4>2. QED
        BY <4>1
    <3>6. /\ w \in path /\ w \in 1..Len(code) /\ w < reader
          /\ bytecode.code[w].write = v /\ v # NoReg
      BY <3>2, <3>5, NoRegAssumption DEF Writers
    <3>7. w \in new
      BY <3>3, <3>4, <3>6 DEF Writers
    <3>8. v \in bytecode.code[reader].reads
      BY <1>1, <3>2, NoRegisterRead DEF Finish, Shape, OldLiteral, Finished, Begun
    <3>9. ASSUME NEW i \in new PROVE i <= w
      <4>1. /\ i \in path /\ i \in 1..Len(code) /\ i < reader
            /\ code[i].write = rho[v]
        BY <3>4 DEF Writers
      <4>2. /\ bytecode.code[i].write # NoReg
            /\ rho[bytecode.code[i].write] = rho[v]
        BY <3>3, <3>4, <4>1, NoRegAssumption
      <4>3. CASE bytecode.code[i].write = v
        BY <3>5, <4>1, <4>3 DEF Writers
      <4>4. CASE bytecode.code[i].write # v
        <5>1. ~ (w < i)
          BY <1>1, <2>2, <3>1, <3>2, <3>3, <3>6, <3>8, <4>1, <4>2, <4>4, HeldApart DEF Finish
        <5>2. QED
          BY <3>6, <4>1, <5>1
      <4>5. QED
        BY <4>3, <4>4
    <3>10. QED
      BY <3>3, <3>7, <3>9, LastWriterUnique
  <2>3. QED
    BY <1>1, <2>1, <2>2 DEF Finish, Rewrite, Rewriting
<1>2. QED
  BY <1>1, Invariance, SoundInvariance, RewriteInvariance, PTL DEF IInv, Sound, Finish
=============================================================================
