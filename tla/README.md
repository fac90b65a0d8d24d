# A verification of jerryscript-optimizer

The tool (`src/main/main.cpp`) reads a snapshot of byte code that JerryScript
compiled, analyses each of its functions, renumbers the registers so that the
function needs fewer of them, and writes the snapshot back. This directory holds
TLA+ modules of it, the TLC runs that check them on small instances, and proofs,
checked by TLAPS, of what can be proved for every instance.

Paths in this text are relative to `src/`.

## 1. The system

One thread runs everything in one sequence; there are no locks, no messages and
no persistent state but the output file. What is hard about the program is
elsewhere: passes that rely on what other passes left behind in shared objects,
loops that change what they iterate over, fixpoint iterations, index and width
arithmetic on both sides of a codec, `std::sort` and a heap allocator whose
choices the program must not depend on, and pointers from one function's block
into another's.

| Component | Source | State it keeps | Operations |
|---|---|---|---|
| main, `Optimizer` | `main/main.cpp`, `src/optimizer.cpp` | list of functions, list of passes, mask of passes run | read, run each pass on each function, write |
| `SnapshotReadWriter` | `src/snapshot-readwriter.cpp` | list of `Bytecode`, `output_buffer` | load functions and those in their pools; emit them; serialise; merge |
| `Bytecode` | `src/bytecode.cpp` | header, `compiled_code_`, literal pool, instructions, blocks, parent and index in its pool | decode, emit |
| `Ins`, `Argument`, `Literal` | `src/inst.cpp` | opcode, operands, read registers and written register, flags, offset, block | decode, emit |
| `Stack`, `Value` | `src/stack.cpp`, `src/value.cpp` | abstract operand stack of the decoder | push, pop, shift |
| `BasicBlock` | `src/basic-block.cpp` | instructions, predecessors, successors, data-flow sets | add, split, remove |
| `ControlFlowAnalysis` | `src/control-flow-analysis.cpp` | leaders, blocks | findLeaders, buildBlocks, connectBlocks |
| `DominatorAnalysis` | `src/dominator-analysis.cpp` | `dominators`, `iDom` of blocks | computeDominators, computeImmDominator |
| `LivenessAnalysis` | `src/liveness-analysis.cpp` | `kill`, `ue`, `liveOut` of blocks, live ranges of the function | computeKillUe, computeLiveOuts, buildLiveRanges |
| `RegallocLinearScan` | `src/regalloc-linear-scan.cpp` | intervals, free registers, active intervals, counts | sort, scan, rename |

How they interact. `main` calls `read`, `Optimizer::run`, `write`. The loader of the
engine copies functions into its heap; `Bytecode` objects point into these blocks.
Each pass reads and writes the `Bytecode`: control flow makes the blocks,
dominators and liveness fill them in, liveness leaves the live ranges with the
function, register allocation reads those and rewrites the operands and the header.
Writing goes through the list once more: `Bytecode::emit` allocates a new block,
copies the header and the pool, writes the instructions, stores the new block's
address in the pool of the parent and frees the old block; functions without a
parent are then serialised by the engine.

What makes each component correct:

- *BasicBlock*: an edge is in the lists of both of its ends after every operation, and
  splitting a block or taking out an empty one keeps which of the others follow which.
  The passes call `addIns` and `addSuccessor` only; nothing in the tool calls the other
  edit operations yet.
- *ControlFlowAnalysis*: no transfer of control is missing among the edges and every
  other edge is accounted for, what is flagged dead is dead, every block has the
  predecessor that the next pass dereferences.
- *DominatorAnalysis*: the sets are the dominators, the immediate dominator is the
  closest of them, both loops end.
- *LivenessAnalysis*: the sets mean what they are called, the iteration ends in the
  least solution, a register's intervals follow one another and cover its reads, every
  write begins one.
- *RegallocLinearScan*: intervals that overlap get different registers, no register
  is lost or handed out twice, the new count is the pressure, the header is lowered past
  no register in use, literals that are no registers keep their slots, every read gets
  its value from the instruction it got it from before.
- *Codec* (`Ins`, `Bytecode`): decoding inverts the compiler and records registers as
  the passes assume, emission inverts decoding, header included, branches go where they
  went.
- *Tool*: passes run in their order on every function; when a function is
  serialised, all pool entries below it point to emitted blocks; buffers do not
  overlap; the file holds all functions.

`PROJECT.json` lists every hazard with the line where it bites and the property
that would catch it. Where the code does go wrong and no comment says otherwise, the
property has that case as its condition; the hazard then has a note instead of it.

## 2. The modules

| Module | Models |
|---|---|
| `Instructions` | what passes see of an instruction and of the header; live intervals |
| `Decoder` | decoding of one instruction: `decodeCBCOpcode`, `decodeArguments`, `processPut`, `decodeGroupOpcode` |
| `Emission` | one function's way through header, decoder, renumbering and emitter |
| `BasicBlock` | the operations on the flow graph, in any order |
| `ControlFlowAnalysis` | the whole pass, a step per instruction or block |
| `DominatorAnalysis` | the whole pass, a step per predecessor met or dominator dropped |
| `LiveRanges` | `buildLiveRanges`, as operators over one function (used by two modules) |
| `LivenessAnalysis` | the whole pass, a step per instruction and per block |
| `FrameAllocation` | abstract: what a register allocator promises, whatever its method |
| `RegallocLinearScan` | the whole pass over several functions in a row; implements `FrameAllocation` |
| `SnapshotTool` | main, optimizer, reading and writing |
| `..._proofs` | the theorems about the module of that name |
| `MC...` | small instances for TLC |

`Instructions` is below `Decoder`, `LiveRanges` and `RegallocLinearScan`, `Decoder` below
`Emission`; `MCRegalloc` composes
register allocation with `LiveRanges`, so that the ranges it is checked on are those
the code would build, not arbitrary ones. The contract between the two passes is in
`Instructions` and `LiveRanges`: `Recorded` (what an instruction reads is among its
operands, what it writes is read, too; checked of the decoder as `RecordsAsAssumed`) and
`RangesFit` (ranges are of the function's registers, those of one register follow one
another, every write begins one, a value waiting to be read is inside one; proved of
liveness as `RangesReady`). `RegallocLinearScan` is proved about every function that
keeps the contract, whatever method built its ranges. `Emission` contains register allocation
as the one abstract action `Renumber`: registers go anywhere, the other literals
move down by the number saved, which is what `LiteralSlotPreserved` and
`MappedOperandInFrame` say of the detailed pass. `SnapshotTool` contains passes as
single steps.

### How states and actions correspond to the code

*Control points.* `pc` stands for the function being executed; an action is one
iteration of its loop, with everything that iteration does. Entries and exits of
functions are actions of their own only where they change state.

*Offsets* (`Ins::offset()`) are positions: instruction `i` has offset `i - 1`. Offsets
grow strictly, and the passes compare them only. `Emission`, where widths matter,
counts cells of the code instead.

`RegallocLinearScan`: `todo` is the rest of the function list; `bytecode` the function
as it came (a history variable for properties), `code` and `args` its instructions
and header now; `pending` and `intervals` are the range multimap before and after
`sortIntervals`; `cur`, `active`, `registers`, `regs_count`, `new_regs_count` are the
locals and members of that name. `active` is a `std::vector` in the code, sorted by
end after every insertion; here it is the set of the positions of its intervals, and
`EndsBefore` is the order they are visited in.
`Run` is the entry of the pass; `SortNext` places a least interval, any of several
equal ones, for `std::sort` is not stable; `Expire`, `SkipPoint`, `Allocate` are the
loop of `computeRegisterMapping`; `Rename` renames one interval in the whole function;
`Shift` moves the other literals and the header. `movePoolStart` changes nothing, for
`literalPool()` returns a copy.

`FrameAllocation` has values with a span each, a home for some of them, and the size of
the frame. Its actions give a value a home that no clashing value has, and make the
frame smaller if no home is cut off. The refinement mapping takes an interval for a value
(`spansBar`), the register it was mapped to for its home (`homeBar`), and `registerEnd` of
the header for the size; sorting is `Collect`, `Allocate` is `Assign`, `Shift` is `Shrink`,
`Run` is `Begin`, and expiring, skipping and renaming are stutters. Renaming walks over
the intervals with the same index the scan used, so what has a home then is every
interval that is not a point (`Allocated`).

`ControlFlowAnalysis`: `FindLeader` is an iteration of `findLeaders`, `BuildBlock` of
`buildBlocks` (leaders open a block; after a jump everything up to the next leader
is flagged dead), `ConnectBlock` of `connectBlocks` (only the first jump of a block is
looked at; try, catch and finally have edges of their own). Returns and throws are a kind
of their own, `exit`: the pass treats them as plain instructions, but control does not go
on behind them (`Flow`). So some edges stand for no transfer of control, and `EdgesAreFlow`
names them (`Spurious`): the one to the next block from a block that ends in a return
or a throw (`src/control-flow-analysis.cpp:152-158`), and the one from the last block of a
try to where its catch leads (140-146), if that block does not go on to the catch, as when
it ends in a return. `findLeaders` skips the first instruction; `FlowCovered` and
`DeadIsUnreachable` leave out functions where that matters, which are those that begin with
a jump whose leaders nothing else makes (`FirstHarmless`). Code without an end is
not modelled: a function ends in an instruction that is no jump, as the engine's
compiler sees to, and the target of a try is a catch.

`DominatorAnalysis`: `MeetPred` intersects the set with that of one predecessor. The
code erases elements from the set in the range-for that iterates over it, which
leaves the rest of that loop undefined: `EraseOutcomes` names the outcomes a build
can show (the loop goes on, stops early, or the program crashes). All of them are
checked and proved about. `cut` is a history variable: a loop has ended early in this
round. If the last round has no such loop the sets are exact, and if they are seen no more
in the end the pass terminates; the properties say so.
`DropDominator` is one `remove` from the list in `computeImmDominator`; its order, that
of a hash set, is open. If a list has not one element and nothing to drop, the
`while` spins; in the model no step is enabled, which `Terminates` reports.

`LivenessAnalysis`: `KillUe` is one instruction, `LiveOut` one block of one round,
`ExtendRange` one instruction. The model takes the block's own `ue`, as the code does.
`LiveOutAsCommented` is the equation of the comment, which has that of the successors; it is
violated. `LiveOutExplained` says in terms of that equation what the code computes instead:
a block has the registers it uses first itself, and those live, by the comment's equation,
for users that do not write them as well.

`BasicBlock`: a list of blocks is how often each block is in it (some operations add an
edge from either side, so twice), a list of instructions the set of their offsets, and
`bb` is the block each instruction refers to. `RemoveSuccessor` of a block that is no
successor uses a pointer that was not set, `RemoveEmpty` of a block in a loop with itself
changes the list it iterates over: both set `broken`, after which there is nothing more to
say. `split` of a block into itself would not end and is not called.

`Decoder`: a byte code is a sequence of cells, bytes or opcodes (negative numbers; an
extended opcode is one cell, too). A decoding under way is a record `d`: what has been
recorded of the instruction, the cursor, and the literal index read last. An opcode has
the kind of its operands, its group, where its result goes, and `special` for the one
its group treats apart; `DecodeGroup` has a case for every group that reads something or
records something, the others only work on the abstract stack. That stack, class `Stack`,
stores what is pushed and `pop` returns `Value::_any()`, so no value on it has an effect:
in particular `processPut` of a reference never finds the mark that a reference to a
register leaves, and the case that would record the register is never taken.

`Emission`: a block is the arguments in its header, the number of entries of the literal
pool, the cells behind it and the size in units of the heap. `DecodeHeader` finds the
code in it as `setLiteralPool` and `setBytecodeEnd` do: the beginning from the counts in
the header, the end from the size less the values behind the code. `CompileLiteral`,
`CompileBranch`, `CompileLine` and `CompiledBlock` stand for the engine's compiler
(external), `IsCompiled` and `IsFunction` for what it compiles. A literal encoding is a
record of the limits `setEncoding` sets, and of the greatest index it has a code for. The
code of a function is the join of the codes of its instructions (`Joined`). `ReadIns` is a round of `buildInstructions`, `Emitted` is `Ins::emit`, `EndEmit`
is the rest of `Bytecode::emit`. `ReadsBack` decodes the emitted block again, under its own
smaller header; it is stated of blocks whose size fits its 16 bits, which no longer follows
from the size of the old block where the emitter writes more (`SizeFits`).

`SnapshotTool`: the heap is a set of addresses; a block holds a function and the pool
entries that refer to functions. `Load` is `jerry_load_function_snapshot` with
`readFunctions` and `readSubFunctions`; `LoadFails`, `WriteFails` are the error returns,
which may happen at any call. `RunPass` and `NextFunction` are `Optimizer::run` with the
assertions of the passes; `Emit` is `Bytecode::emit` of one function, whose new block
may be any free one; `WriteSnapshot` and `EndWrite` are the serialisation and the merge.
The mask is kept bit by bit as the code computes it.

## 3. The runs

| Run | Question | Bounds |
|---|---|---|
| `regalloc` | Is the linear scan right on ranges the code builds, for every order of equal intervals, does a read keep its writer where every interval gets the home it was given, and does it all implement the abstract allocator? | codes of 4 instructions over 9 shapes (read one register, read two, write one, copy), 3 registers of which 0 or 2 are arguments, one block or two; pairs of functions, one without registers among them |
| `regalloc_register` | Is every register operand below `registerEnd`, every argument below `argumentEnd` afterwards, as `Literal::toValueRef` asserts? No. | 3 instructions |
| `controlflow` | Is an edge missing or unaccounted for, are dead flags right, does every block have a predecessor? | all codes of 5 instructions, plain, leaving the function or branching anywhere; all placements of try, catch and finally in 7 with one branch |
| `controlflow_target` | Is a jump target always a leader? No. | 3 instructions |
| `liveness` | Does the iteration end, and what do its sets mean; are the ranges as register allocation needs them, and do they cover the reads? | 4 instructions over 6 shapes, two real blocks with all edges between them, 2 registers; functions without registers |
| `liveness_equation` | Do the live-out sets satisfy the equation of the comment? No. | 3 instructions |
| `dominator` | Whatever erasing in the loop does, is a dominator ever lost; are the sets and `iDom` right unless the last round was cut short, and does the pass end unless rounds are cut short again and again? | all graphs of a start, three real blocks with one or two successors, and an end, in which every block has a predecessor; all three outcomes of erasing |
| `emission` | Does the decoder stay in step with what was compiled, does it record registers as the passes assume, is what is emitted read back, do branches land? | functions of 1 to 3 instructions over 22 opcodes, one of each group that decodes something, in both literal encodings and both header widths, with literals around every threshold; a branch over more than 255 bytes; alignment 8 |
| `emission_branches` | Does emission reconstruct all branches? No. | a backward and a long branch |
| `basicblock` | Are edges in the lists of both ends, and does editing keep the flow among the rest? | 3 blocks with every graph that has each edge at most once, 2 instructions in any blocks, any 2 operations |
| `snapshot` | Do passes run in order, do pool entries resolve, do buffers stay apart, is the file complete? | 8 function trees of up to 4 functions, one to three roots, self-reference; 6 heap blocks, 40 units of buffer |
| `snapshot_size` | Does the buffer hold what fits in it? No. | one snapshot |

Why the bounds are enough. Interval allocation goes wrong, if at all, with two
intervals of which one is active when the other starts, a third that reuses a
register, and renaming that is applied twice: three registers and four instructions
have all of these, and equal intervals in any order. A flow graph with three real
blocks has diamonds, loops with two entries and blocks out of reach of the start;
`computeDominators` needs several rounds on them. Five instructions are a
loop around a loop or a jump over a jump; two blocks with all edges are enough for
`liveOut`, which sees one edge at a time, and for the fixpoint to need several rounds.
The literal indices 0, 127, 128, 254, 255, 510, 511 and 32767 stand on both sides of
each threshold in the source. Four functions make a chain of two levels, siblings, and
several roots; six blocks are two more than functions, so a freed block may be used
again at once or not. The operations on blocks are total on any graph and keep the
invariant one by one (which is proved), so two of them on all graphs of three blocks,
self-loops included, have every interplay of two edges at one block; the emitted block is
padded by anything from 0 to 7 bytes, and followed by values that look like opcodes.

Every property has a mutant in `PROJECT.json`: the definition it is about is replaced
by a form with a plausible bug (marked `Mutant:` in the modules), and the run then
finds the property violated.

Deadlock checking is off, for every model ends when its last function is done; that it
ends there and nowhere else is what the `Terminates` and `AllProcessed` properties say. The
loops of control flow and of the codec are bounded by the code, and have no such property.

### Fairness

`FairSpec` adds `WF_vars(Next)` where a liveness property is checked. The program has one thread that never waits, so it
takes a next step as long as it has one. Nothing is assumed about which of several
steps: which of equal intervals, dominators or heap blocks comes first is never fair.

### What the violation runs found

1. `regalloc_register`: the scan skips intervals of no length and never sees registers
   without a range; both keep their index while `registerEnd` sinks below it, and
   literals that moved down reuse the index. The scan also gives arguments any register,
   while `argumentEnd` stays. The assertions in `src/inst.cpp:54` and `58` are false of
   such functions.
2. `controlflow_target`: the loop of `findLeaders` begins behind the first instruction,
   so "The jump target is always a leader" is not true of a function that begins with a
   jump.
3. `liveness_equation`: `computeLiveOuts` adds the block's own `ue`
   (`src/liveness-analysis.cpp:91`) where the comment (80) has that of the successors, so a
   register that only the next block reads is not live out of its predecessor. Nothing uses
   the sets yet.
4. `emission_branches`: `Argument::emit` writes branch offsets lowest byte first until
   the number is 0; the decoder reads them highest first, in the opcode's width, and
   stores backward ones negated.
5. `snapshot_size`: `writeSnapshot` gets the size of `output_buffer` in units, as a
   number of bytes, so only a quarter of it is used.

Properties that hold under a condition name it, and the condition is where the code
falls short without a comment that says otherwise:

- In the full literal encoding the indices 128 to 510 are emitted in the form of the
  small encoding (`src/inst.cpp:30-52`), so decoding them again gives something else
  (condition `WritesBack`).
- The literals of `VM_OC_DELETE` and `VM_OC_FINALIZE_CLASS`, and some of
  `VM_OC_INIT_ARG_OR_FUNC`, `VM_OC_IDENT_REFERENCE` and `VM_OC_TYPEOF_IDENT`, are decoded
  and not recorded, or in another order, so they are not emitted as they were (condition
  `KeepsLiterals`).
- An increment of an identifier sets the cursor back and decodes its literal twice
  (`src/inst.cpp:835`), so it is recorded, and emitted, twice (condition `KeepsLiterals`).
- An assignment through a reference to a register is never recorded as a write
  (`src/inst.cpp:265-276`), because the abstract stack does not hold the mark it looks
  for; the passes see the reference as a read and nothing else.
- Line numbers from 128 on lose their upper part (condition `WritesBack`). Line
  instructions exist in builds with `JERRY_LINE_INFO` only.
- A literal that moves below a threshold makes its instruction shorter; branches over it
  are not retargeted (condition in `JumpsLandAtWidth`).
- A pool entry of a function for itself holds the freed address after emission (exception
  in `PoolsResolve`).
- A merge that does not fit is reported as success (condition in `OutputComplete`).
- An instruction that writes a register does not extend the ranges of those it reads
  (condition in `ReadsCovered` and `DefUseKept`).
- Intervals are renamed one after another over the whole function, so an operand may be
  renamed twice, and all intervals of a register end up in the same one. `Separable` in
  `DefUseKept` asks that none of this takes an interval from the home it was given: all
  intervals of a register got the same home, and no later rule renames that home to
  another register. Two registers merged into one, also one with an interval of
  its own whose rule comes before, are within the condition. And ranges follow the code, not
  the flow, so around a back edge a value may be overwritten (`DefUseKept` is stated of
  runs in the order of the code, with any instructions left out).
- Decoding a written register records it as read, too (`setWriteReg` ends in
  `decodeLiteral`), so a block's `kill` is also among what it reads.
- Blocks of dead code, and of try statements, may have no predecessor (condition in
  `NoOrphanBlock`), which `computeDominators` dereferences.
- Erasing an element from the set a range-for stands on is undefined. If the loop goes on
  or the process crashes nothing is wrong with the result; if the loop ends early the
  sets may keep elements that do not dominate, and the search for the immediate dominator
  may spin (condition `cut` in `OnlyDominators`, `IdomIsImmediate` and `Terminates`).
- A block's later jumps get no edges (condition `Examined` in `FlowCovered`).
- `BRANCH_IF_NULLISH`, `FOR_AWAIT_OF_HAS_NEXT` and `DEFAULT_INITIALIZER` branch but are not
  flagged as jumps; `ControlFlowAnalysis` is stated of the flags, and has no such
  instruction.
- `Ins::size_` is not initialised and is tested for 0 at the last instruction; the model
  has positions, and its last instruction has no successor.

## 4. The proofs

All leaves are checked by `tlapm` (SMT, Zenon, LS4). The constants are arbitrary up to the
named assumptions in the modules, which TLC evaluates in every run:

| Assumption | Says | Why |
|---|---|---|
| `NoRegAssumption` | `NoReg` is no register | |
| `ProgramsAssumption` | programs are non-empty sequences of functions of type `Bytecode`, which includes the contract `Recorded` and `RangesFit` | `RangesReady`, and `RecordsAsAssumed` |
| `GraphsAssumption` | every block but the start has a predecessor list that is not empty | `NoOrphanBlock` |
| `EraseOutcomesAssumption` | erasing has one of the three named outcomes | undefined behaviour of the range-for |
| `CodesAssumption` | the last instruction is no jump, targets exist, a try leads to a catch | the engine's compiler |
| `FunctionsAssumption` | registers are below `registerEnd`, blocks are in code order | `RecordsAsAssumed`, and the theorems about control flow |
| `ArgumentsAssumption` | the arguments are among the registers | the engine's compiler |
| `BasicBlockAssumption` | graphs are over the blocks, offsets are numbers | |
| `SnapshotsAssumption` | inputs are forests of functions, each in one pool but for its own, nested no deeper than the heap has blocks | the engine's loader, which gives each a block |
| `SizesAssumption` | sizes are numbers; there are no more functions than blocks of the heap | the engine ends the process when its heap is full |
| `OpsAssumption` | opcodes have their types; a branch takes its offset and nothing else, a line instruction its number; what is incremented is a literal that is also the place of the result, or is on the stack | the opcode table of the engine, which `OpcodeData` is built from |
| `AlignmentAssumption` | the unit of the heap is a positive number | `JMEM_ALIGNMENT` |
| `EmissionAssumption` | each function is one the engine's compiler can have laid out: its instructions have the literals their opcodes take (`IsCompiled`), names are no registers (`decodeStringLiteral` asserts it), all literals have a code in the function's encoding, and the block's size fits its 16 bits (`SizeFits`) | the engine's compiler; the functions may be of any length |

*`RegallocLinearScan_proofs`*, for all programs, of any size: `TypeCorrect`,
`RegistersConserved` (`PoolPartition`), `AllocationSound` (`NoInterference`),
`ScanCompletes` (`NeverSpills`), `PressureExact` (`NewCountIsPressure`). None of them is
inductive. The invariant is `IInv == Shape /\ Pool /\ Retired /\ NoInterference`,
where `Shape` is `TypeOK` with `HeaderCount` (the count in use is the header's), `Placed`
(what is sorted is not after what is not) and `Sorted`; `Pool` is `PoolPartition` with
`ActiveMapped` (an active interval has been mapped) and `Counted` (free and active together
are as many registers as there are, which makes the stack non-empty when the scan goes
on); and `Retired` says that a mapped interval that is no longer active ended before the
current one starts. `NoInterference` is then preserved by `Allocate`: the register on top
of the stack is held by no active interval (`Pool`), and whatever mapped interval had it
before is over (`Retired`, `Sorted`). One lemma per action and conjunct, then `Invariance`.

The other two need to know what was sorted: `Order` says that the intervals are the ranges,
one for one (`Placement`), in the order of both keys (`KeySorted`), and that those of one
register follow one another (`FromsApart`, from the contract). The active intervals then
are of different registers, so they are never more than there are registers, and the
stack is not empty when one is needed. `PeakReached` says that the count is the largest
number of intervals alive at one that the scan has passed; at its end this is the
pressure, for the intervals alive at one do not come after it.

The same module has `Implementation`, that the scan implements `FrameAllocation`.
The one step that is not a consequence of `IInv` is lowering the header. It needs `Peak`: the free
stack begins with register 0 on top and is used last in, first out, so registers never
handed out are the highest ones, at its bottom (`Untouched`); the peak bounds the active
list (`PeakHolds`), hence every register handed out is below it (`HomesBelow`); and the
header is only lowered when all intervals have been seen (`FullyScanned`, `Saving`).

It also proves what the rewriting does: `SlotsPreserved` (`LiteralSlotPreserved`),
`OperandsHome` (`MappedOperandInFrame`) and `ValuesKept` (`DefUseKept`). Renaming composes as
many substitutions as there are intervals; the invariant `Rewriting` says that at any time
there is one map of registers by which all of the code has been renamed (`Follows`), which
keeps what is no register (`NamesInFrame`), takes a register with a home into the smaller
frame or else to one whose interval is still to come (`NamesHome`; no more is true, for a
new name may be renamed again), and, if no later rule takes away the home of an interval
(`Separable`), takes each register to the home of its intervals (`NamesOnce`). A value that waits to be
read is inside an interval (`HeldBetween` of the contract) and a write begins another one
(`WritesBegin`), so the scan has put the two apart.

*`FrameAllocation_proofs`*: `PromiseKept`, that the abstract allocator keeps clashing values
apart and all homes in the frame. With `Implementation` this is what the scan promises.

*`ControlFlowAnalysis_proofs`*, for all codes: `TypeCorrect`, `DeadCodeIsDead`
(`DeadIsUnreachable`), `EdgesAccounted` (`EdgesAreFlow`), `FlowNotLost` (`FlowCovered`) and
`EveryBlockReached` (`NoOrphanBlock`). The invariant says that leaders are the first
instruction and what the jumps make (`LeadersFound`), that block numbers grow with the
code, exactly at leaders (`Ascending`), without a gap (`Counted`), that an instruction is
dead iff an earlier one of its block jumps (`DeadAfterJump`), that the blocks passed have
their edges (`Connected`) and that no edge has another reason (`EdgesJustified`). Flow out
of an examined instruction then either stays in a block or goes to a leader, which begins
one; dead instructions are entered from dead instructions only. Both leave out functions
that begin with a jump whose leaders nothing else makes; of those they are false.

*`DominatorAnalysis_proofs`*, for all graphs: `TypeCorrect`; `DominatorsNeverLost`
(`DominatorsKept`) for every outcome of the erasures, where the invariant adds that
`intersect` keeps the dominators of the block in progress (`MeetKept`) and the step rests
on `DominatesPredecessor` (what dominates a block strictly dominates its predecessors);
`NonDominatorsEliminated` (`OnlyDominators`), also for every outcome but about last rounds
in which no erasing loop ended early, where the invariant follows the round: blocks it has
passed without a change are settled, and what is settled everywhere is dominance
(`SettledIsDominated`); and, under the same condition, `ImmediateIsFound` (`IdomIsImmediate`),
whichever dominators are compared and in
whatever order they are dropped: every strict dominator of the block dominates one that
is still in the list (`ListCovers`), so the last one left is the closest.

*`LivenessAnalysis_proofs`*, for all functions and flow graphs: `TypeCorrect`,
`FixpointIsLeast` (the sets are the least solution of the equations the code iterates),
`FixpointExplained` (`LiveOutExplained`, what that has to do with liveness), `RangesReady` (`RangesAsAssumed`, the contract with
register allocation), `IntervalsAbut`, `ReadsAreLive` (`ReadsCovered`). The walk keeps in
`kill` and `ue` what the instructions passed say
(`SetsWalked`); `liveOut` stays below every solution (`BelowSolutions`), and after a round
without a change it is one (`Settled`). Intervals never reach beyond the instruction at
hand (`Good`), later instructions only extend them (`Extends`), so what covered a read
keeps covering it (`CoveredBefore`). For the contract, `Promise` says the same of writes
and of what lies between a write and a read, for the instructions passed.

*`BasicBlock_proofs`*, for all graphs and any number of operations: `BothEndsInStep`
(`EdgesMirrored`) and `TypeCorrect`, for `TypeOK /\ EdgesMirrored` is inductive, by a lemma for
each way the lists are changed; and the action property `FlowStays` (`FlowKept`): which of
the other blocks follow which is the same after splitting a block or taking out an empty
one. What can be reached is there defined by the sets that flow does not leave, and such
sets of the graph before are made from those of the graph after (`BridgedFlow`,
`SplitFlow`), so no induction over paths is needed.

*`SnapshotTool_proofs`*, for all inputs, heaps and buffers: `TypeCorrect`, `PassesInOrder`
(`PrerequisitesRan`), `NothingOverwritten` (`BuffersApart`), `PoolsResolved` (`PoolsResolve`),
`OutputWhole` (`OutputComplete`), and `NoPassAborts`, that no
assertion of a pass on the ones before it fails. `Progress` says that all passes are
through with the functions before the current one, and that the mask has their bits;
`Buffer` that each snapshot takes as many units as it has bytes, which is why they are
apart. For the pools, the recursion of `readSubFunctions` is first shown to define
something, by the depth of the forest; `Listing` says that the list has the functions below
the roots read so far, each once and after those in its pool; `Heaped` that each listed
function has a block, whose pool has the addresses where the functions in it are now, and
that a function not yet emitted is where it was read from, which is why its parent's entry can
be found by its old address; `RootsWritten` that exactly the outermost functions before
the current one have been written. Blocks allocated for emission are free ones, so they
are none of these.

*`Emission_proofs`*, for all functions, whatever their length, opcodes and operands:
`TypeCorrect`, `StaysInStep` (`DecodesCompiled`), `RecordsWhole` (`RecordsAsAssumed`),
`ReadsBackAlways` (`ReadsBack`), `JumpsLandAlways` (`JumpsLandAtWidth`), and
`ReconstructsHandled`, that a function of handled instructions comes out cell for cell as it
went in if no register is saved (`AllSimple => Reconstructed`; without the condition the run
`emission_branches` refutes it). First, one instruction: if its code is found at the cursor
(`Found`), `DecodeAt` gives it back and leaves the cursor behind it. This takes a lemma for
each way literals are read (`IndexRead`, `LiteralAdded`), one for each group of opcodes, for
branches (`BranchDecoded`) and for lines (`LineDecoded`), and the fact that what was taken of
the literals is recorded as it was (`Sound`: read registers are the registers among the
literals recorded, the written one is among them). Then a function: the parts of a block
are where the counts of its header say (`Layout`), provided its size fits, and in a code each
instruction stands at the end of the one before (`CodeStands`). The invariant `Inv` says of
the reading half that the instructions recorded are the first ones of the code and the
cursor is behind them (`Reading`), and of the writing half that instructions are what was
recorded, renamed within the frame, and that the buffer is the join of what was emitted for
the ones passed (`Writing`). For the handled instructions the emitter writes what the
compiler would (`EmittedIsCompiled`), so the emitted block is again a compiled one, under
the smaller header, and reading it back is the first half once more.

Only model-checked:

- `Terminates` (of the dominator and liveness passes and of the tool) and `AllProcessed`: liveness is out of the
  prover's reach.

## 5. What is left out

- `Value`, which is printed only, and what `Stack` stores: `pop` returns an arbitrary
  value and the registers stored are not read, so all of it that matters is in `ProcessPut`.
- The data-flow sets of `BasicBlock` are in the modules of the passes that use them.
- The entries of the literal pool in `Emission`, which only counts them; those that refer
  to functions are in `SnapshotTool`.
- Command line, logging, `operator<<`, the build, the patch of the engine.
- JerryScript: the heap, the loader, the serialiser, the compiler's encoding are modelled
  as the tool relies on them, and marked external in the map.

Modelling assumptions: the last instruction of a function is no jump; the target of a
try is a catch; a function is in one pool besides its own; the loader puts functions in
fresh blocks in order; the serialiser and the loader may fail at any call.

## 6. Plan

1. *Composed passes*: control flow, liveness and register allocation over one function,
   with `LivenessCoversFlow` (a register that is live along some path is in an interval),
   which the ranges in code order are expected to fail, and the condition under which
   it holds; `DefUseKept` over paths of the flow graph under that condition.
2. *Proofs*: every safety and action property that a passing run checks has its theorem. What is
   left is to prove the composed passes of item 1, once they are modelled.
