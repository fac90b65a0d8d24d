------------------------------ MODULE Emission ------------------------------
(***************************************************************************)
(* The way of one function's byte code through the tool: it is decoded     *)
(* into instructions (Bytecode::buildInstructions), register allocation    *)
(* renames registers and moves the other literals down, and                *)
(* Bytecode::emit makes a new block of the header, the literal pool, the   *)
(* instructions and the values behind them.                                *)
(*                                                                         *)
(* The encoding the compiler of the engine uses, which the decoder is the  *)
(* inverse of, is external.                                                *)
(***************************************************************************)
EXTENDS Decoder

CONSTANTS
    Functions,  \* the functions the tool may be given
    Alignment   \* JMEM_ALIGNMENT

ASSUME AlignmentAssumption == Alignment \in Nat \ {0}

OpCells == { -o : o \in 1..Len(Ops) }
Byte == 0..255
LiteralIndex == 0..32767

(* A decoded instruction: its opcode, its literals and what is recorded of *)
(* registers, its byte argument, branch offset or line, and its offset.    *)
IsIns(ins) ==
    /\ ins.op \in 1..Len(Ops)
    /\ ins.lits \in Seq(LiteralIndex)
    /\ ins.reads \subseteq LiteralIndex
    /\ ins.write \in LiteralIndex \cup {NoReg}
    /\ ins.arg \in Int
    /\ ins.offset \in Nat

(* What an instruction may have besides literals. *)
Arguments(op) ==
    IF op.operands = "branch"
    THEN LET sizes == 0..(ByteWeight[op.length + 1] - 1)
         IN  IF op.backward THEN { - n : n \in sizes } ELSE sizes
    ELSE IF op.group = "LINE" THEN 0..(GroupWeight[5] - 1)
    ELSE IF HasByte(op) THEN Byte ELSE {0}

(* An instruction as compiled: it has the literals its opcode takes; the   *)
(* names among them are no registers, and what MOV_IDENT sets is one.      *)
IsCompiled(enc, registerEnd, ins) ==
    /\ ins.op \in 1..Len(Ops)
    /\ ins.lits \in Seq(0..enc.reach)
    /\ LET op == Ops[ins.op]
           n == Len(ins.lits)
       IN  /\ n = OperandLiterals(op) + GroupLiterals(op)
           /\ \A k \in (n - NameLiterals(op) + 1)..n : ins.lits[k] >= registerEnd
           /\ op.group = "MOV_IDENT" => ins.lits[n] < registerEnd
           /\ ins.arg \in Arguments(op)

(* A function as compiled: what its flags say, which is the literal        *)
(* encoding, the width of the arguments, whether mapped arguments follow   *)
(* the code and how many other values do; the arguments, and the code.     *)
IsFunction(f) ==
    /\ f.enc \in {SmallEncoding, FullEncoding}
    /\ f.wide \in BOOLEAN /\ f.mapped \in BOOLEAN
    /\ f.extras \in 0..3
    /\ f.args \in Args
    /\ f.args.argumentEnd <= f.args.registerEnd
    /\ f.args.literalEnd <= f.enc.reach + 1
    /\ ~ f.wide => f.args.literalEnd <= 255
    /\ f.code \in Seq([op : 1..Len(Ops), lits : Seq(LiteralIndex), arg : Int])
    /\ \A i \in 1..Len(f.code) : IsCompiled(f.enc, f.args.registerEnd, f.code[i])

VARIABLES
    fn,            \* the function as compiled
    compiledCode,  \* its block
    pc,            \* what the tool is doing
    at,            \* the decoder's position in the code, then the emitter's in insns
    args,          \* Bytecode::args()
    insns,         \* Bytecode::instructions(), each with its offset
    buffer,        \* what emitInstructions has written
    starts         \* where each instruction begins in buffer

vars == <<fn, compiledCode, pc, at, args, insns, buffer, starts>>

-----------------------------------------------------------------------------
(* Mutant: the second byte keeps what the first one already says. *)
EmitLiteralWhole(enc, index) ==
    IF index <= enc.oneByteLimit THEN <<index>>
    ELSE IF index <= 510 THEN <<255, index>>
    ELSE <<128 + index \div 256, index % 256>>

(* Mutant: there is no short form. *)
EmitLiteralLong(enc, index) == <<128 + index \div 256, index % 256>>

EmitLiteral(enc, index) ==
    IF index <= enc.oneByteLimit THEN <<index>>
    ELSE IF index <= 510 THEN <<255, (index - 255) % 256>>
    ELSE <<128 + index \div 256, index % 256>>

CompileLiteral(enc, index) ==
    IF index < enc.limit THEN <<index>>
    ELSE <<(index + enc.delta) \div 256, (index + enc.delta) % 256>>

(* A branch offset is written lowest byte first, until none is left of it  *)
(* taken as a 32-bit number.                                               *)
EmitBranch(offset) ==
    LET n == IF offset < 0 THEN 4
             ELSE CHOOSE k \in 0..3 : /\ offset < ByteWeight[k + 1]
                                      /\ k = 0 \/ offset >= ByteWeight[k]
    IN  [k \in 1..n |-> (offset \div ByteWeight[k]) % 256]

CompileBranch(op, offset) ==
    LET size == IF op.backward THEN - offset ELSE offset
    IN  [k \in 1..op.length |-> (size \div ByteWeight[op.length - k + 1]) % 256]

(* A line number is written lowest group first, none of them marked, and   *)
(* only while bit 7 of what is left is set.                                *)
EmitLine(line) ==
    LET more(k) == k < 4 /\ (line \div GroupWeight[k + 2]) % 2 = 1
        n == CHOOSE k \in 1..4 : ~ more(k) /\ \A j \in 1..(k - 1) : more(j)
    IN  [k \in 1..n |-> (line \div GroupWeight[k]) % 128]

CompileLine(line) ==
    LET n == CHOOSE k \in 1..4 : line < GroupWeight[k + 1] /\ (k = 1 \/ line >= GroupWeight[k])
    IN  [k \in 1..n |-> ((line \div GroupWeight[n - k + 1]) % 128)
                         + (IF k < n THEN 128 ELSE 0)]

(* The first n of a sequence of sequences, one behind the other. *)
Joined(parts, n) ==
    LET upTo[k \in 0..n] == IF k = 0 THEN <<>> ELSE upTo[k - 1] \o parts[k]
    IN  upTo[n]

-----------------------------------------------------------------------------
(* What the compiler writes for an instruction and for a function. *)
Compiled(enc, ins) ==
    LET op == Ops[ins.op]
        codes == [k \in 1..Len(ins.lits) |-> CompileLiteral(enc, ins.lits[k])]
    IN  <<- ins.op>> \o
        (CASE op.operands = "branch" -> CompileBranch(op, ins.arg)
           [] op.group = "LINE"      -> CompileLine(ins.arg)
           [] OTHER -> Joined(codes, Len(codes))
                       \o (IF HasByte(op) THEN <<ins.arg>> ELSE <<>>))

(* The stream of the first n instructions. *)
StreamUpTo(f, n) ==
    Joined([k \in 1..Len(f.code) |-> Compiled(f.enc, f.code[k])], n)

-----------------------------------------------------------------------------
(* A block: the flags and arguments at its beginning, the number of        *)
(* entries of the literal pool (four bytes each, and not listed), the      *)
(* cells behind that, and the size of all, in units of Alignment.          *)
ArgumentsSize(f) == IF f.wide THEN 20 ELSE 12

(* The values behind the code, which take four bytes each. *)
EndInfo(f, arguments) ==
    4 * (f.extras + (IF f.mapped THEN arguments.argumentEnd ELSE 0))

(* The arguments are stored in 16 or in 8 bits. *)
Stored(f, arguments) ==
    LET limit == IF f.wide THEN 65536 ELSE 256
    IN  [a \in DOMAIN arguments |-> arguments[a] % limit]

(* Code and the values behind it, which end with the block, and zeros      *)
(* between them; size is that of what is before the code.                  *)
Filled(size, code, info) ==
    code \o [k \in 1..((- (size + Len(code) + Len(info))) % Alignment) |-> 0] \o info

Block(f, arguments, pool, code, info) ==
    LET before == ArgumentsSize(f) + 4 * pool
        cells  == Filled(before, code, info)
    IN  [args  |-> Stored(f, arguments),
         pool  |-> pool,
         cells |-> cells,
         size  |-> ((before + Len(cells)) \div Alignment) % 65536]

(* The size has 16 bits, and this one is not cut off by that. *)
SizeFits(f, block) ==
    ArgumentsSize(f) + 4 * block.pool + Len(block.cells) < 65536 * Alignment

PoolSize(arguments) == arguments.literalEnd - arguments.registerEnd

(* The block of a compiled function.  The values behind the code may look  *)
(* like opcodes.                                                           *)
CompiledBlock(f) ==
    Block(f, f.args, PoolSize(f.args), StreamUpTo(f, Len(f.code)),
          [k \in 1..EndInfo(f, f.args) |-> - ((k % Len(Ops)) + 1)])

ASSUME EmissionAssumption ==
    \A f \in Functions : IsFunction(f) /\ SizeFits(f, CompiledBlock(f))

(* decodeHeader and setBytecodeEnd: the code begins behind as many pool    *)
(* entries as the arguments say and ends before the values that the flags  *)
(* say; both are positions among the cells of the block.                   *)
CodeStart(block) == 4 * (PoolSize(block.args) - block.pool) + 1

CodeEnd(f, block) ==
    block.size * Alignment - EndInfo(f, block.args)
        - (ArgumentsSize(f) + 4 * block.pool)

DecodeHeader(f, block) ==
    [enc |-> f.enc, registerEnd |-> block.args.registerEnd,
     cells |-> SubSeq(block.cells, CodeStart(block), CodeEnd(f, block))]

EndInfoOf(f, block) == SubSeq(block.cells, CodeEnd(f, block) + 1, Len(block.cells))

-----------------------------------------------------------------------------
(* Ins::emit. *)
Emitted(enc, ins) ==
    LET op == Ops[ins.op]
        codes == [k \in 1..Len(ins.lits) |-> EmitLiteral(enc, ins.lits[k])]
    IN  <<- ins.op>> \o
        (CASE op.operands = "branch" -> EmitBranch(ins.arg)
           [] op.group = "LINE"      -> EmitLine(ins.arg)
           [] OTHER -> Joined(codes, Len(codes))
                       \o (IF HasByte(op) THEN <<ins.arg>> ELSE <<>>))

-----------------------------------------------------------------------------
Init ==
    /\ fn \in Functions
    /\ compiledCode = CompiledBlock(fn)
    /\ pc = "read"
    /\ at = 1
    /\ args = compiledCode.args
    /\ insns = <<>>
    /\ buffer = <<>>
    /\ starts = <<>>

ReadIns ==
    LET b == DecodeHeader(fn, compiledCode) IN
    /\ pc = "read"
    /\ ~ AtEnd(b, at)
    /\ LET d == DecodeAt(b, at) IN insns' = Append(insns, InsOf(d)) /\ at' = d.next
    /\ UNCHANGED <<fn, compiledCode, pc, args, buffer, starts>>

EndRead ==
    /\ pc = "read"
    /\ AtEnd(DecodeHeader(fn, compiledCode), at)
    /\ pc' = "optimize"
    /\ UNCHANGED <<fn, compiledCode, at, args, insns, buffer, starts>>

(* Register allocation renames the registers and, having saved n of them, *)
(* moves the other literals down to close the gap; the offsets of branches *)
(* stay as they are.  Nothing changes if it saves none.                    *)
Renumber(n, rename) ==
    /\ pc = "optimize"
    /\ n = 0 => \A r \in DOMAIN rename : rename[r] = r
    /\ insns' = [i \in 1..Len(insns) |->
                    [insns[i] EXCEPT
                        !.lits  = [j \in 1..Len(@) |->
                                      IF @[j] < args.registerEnd THEN rename[@[j]] ELSE @[j] - n],
                        !.reads = { rename[r] : r \in @ },
                        !.write = IF @ = NoReg THEN NoReg ELSE rename[@]]]
    /\ args' = MoveRegIndex(args, - n)
    /\ pc' = "emit"
    /\ at' = 1
    /\ UNCHANGED <<fn, compiledCode, buffer, starts>>

(* emitInstructions, one instruction. *)
EmitIns ==
    /\ pc = "emit"
    /\ at <= Len(insns)
    /\ buffer' = buffer \o Emitted(fn.enc, insns[at])
    /\ starts' = Append(starts, Len(buffer))
    /\ at' = at + 1
    /\ UNCHANGED <<fn, compiledCode, pc, args, insns>>

(* The rest of Bytecode::emit: the header as it is now, the pool and the   *)
(* values behind the code as they were, in a block of a whole size.        *)
EndEmit ==
    /\ pc = "emit"
    /\ at > Len(insns)
    /\ compiledCode' = Block(fn, args, compiledCode.pool, buffer, EndInfoOf(fn, compiledCode))
    /\ pc' = "done"
    /\ UNCHANGED <<fn, at, args, insns, buffer, starts>>

Registers == 0..(fn.args.registerEnd - 1)

Next ==
    \/ ReadIns \/ EndRead
    \/ \E n \in 0..fn.args.registerEnd, rename \in [Registers -> Registers] :
          Renumber(n, rename)
    \/ EmitIns \/ EndEmit

Spec == Init /\ [][Next]_vars

-----------------------------------------------------------------------------
(* The type invariant: what is written are opcodes and bytes. *)
TypeOK ==
    /\ IsFunction(fn)
    /\ compiledCode.args \in Args
    /\ compiledCode.cells \in Seq(Byte \cup OpCells)
    /\ pc \in {"read", "optimize", "emit", "done"}
    /\ at \in Nat \ {0}
    /\ \A i \in 1..Len(insns) : IsIns(insns[i])
    /\ args \in Args
    /\ buffer \in Seq(Byte \cup OpCells)
    /\ starts \in Seq(Nat)

(* The instructions whose literals are recorded as they are in the stream. *)
KeepsLiterals(ins) ==
    LET op == Ops[ins.op] IN
    /\ op.group \notin {"DELETE", "INIT_ARG_OR_FUNC"}
    /\ ~ (op.group = "FINALIZE_CLASS" /\ op.special)
    /\ op.group \in ReferenceGroups => ins.lits[Len(ins.lits)] < fn.args.registerEnd
    /\ op.group \in IncrementGroups => op.put # "ident" \/ op.operands # "literal"

(* The decoder gets out of the stream what the compiler put into it, and   *)
(* stays in step with it: every instruction is found at the offset it was  *)
(* compiled to, whatever the widths of the operands before it and however  *)
(* often the cursor is set back, and none is found in the padding.         *)
DecodesCompiled ==
    pc = "optimize" =>
        /\ Len(insns) = Len(fn.code)
        /\ \A i \in 1..Len(insns) :
              /\ insns[i].op = fn.code[i].op /\ insns[i].arg = fn.code[i].arg
              /\ insns[i].offset = Len(StreamUpTo(fn, i - 1))
              /\ KeepsLiterals(fn.code[i]) => insns[i].lits = fn.code[i].lits

(* What liveness and register allocation take an instruction to be, in     *)
(* module Instructions, is what every way of decoding one leaves: the      *)
(* registers among its literals are its read ones, and the written one is  *)
(* among them.  Were a register recorded without its literal or the other  *)
(* way round, renaming would leave one of the two behind.                  *)
RecordsAsAssumed == pc = "optimize" => Recorded(insns, fn.args)

(* What the emitter writes so that the decoder reads it. *)
WritesBack(ins) ==
    LET op == Ops[ins.op] IN
    /\ op.operands = "branch" => op.length = 1 /\ ~ op.backward /\ ins.arg > 0
    /\ op.group = "LINE" => ins.arg < 128
    /\ fn.enc = FullEncoding => \A k \in 1..Len(ins.lits) : ins.lits[k] \notin 128..510

AllSimple ==
    /\ \A i \in 1..Len(fn.code) : KeepsLiterals(fn.code[i])
    /\ \A i \in 1..Len(insns) : WritesBack(insns[i])

(* The first n instructions of a byte code, as far as there are opcodes to *)
(* be read, and where the next one begins.                                 *)
ReadUpTo(b, n) ==
    LET IsOpcode(i) == i <= Len(b.cells) /\ b.cells[i] \in OpCells
        read[k \in 0..n] ==
            IF k = 0 THEN [insns |-> <<>>, next |-> 1]
            ELSE IF ~ IsOpcode(read[k - 1].next) THEN read[k - 1]
            ELSE LET d == DecodeAt(b, read[k - 1].next)
                 IN  [insns |-> Append(read[k - 1].insns, InsOf(d)), next |-> d.next]
    IN  read[n]

(* The engine, and this tool in another run, read from the new block of a  *)
(* function the instructions that were written, at the places they were    *)
(* written to, and nothing after them, and behind them the values that     *)
(* were there before; although the start and the end of the code are found *)
(* by counts of the header that have changed: provided that the            *)
(* instructions are of a kind the emitter handles, that every register was *)
(* left in the frame and that the block has not outgrown its size field.   *)
ReadsBack ==
    LET emitted == DecodeHeader(fn, compiledCode)
        read == ReadUpTo(emitted, Len(insns))
    IN  /\ pc = "done" /\ AllSimple /\ SizeFits(fn, compiledCode)
        /\ \A i \in 1..Len(insns) : \A r \in insns[i].reads : r < emitted.registerEnd
        => /\ AtEnd(emitted, read.next)
           /\ read.insns = [i \in 1..Len(insns) |-> [insns[i] EXCEPT !.offset = starts[i]]]
           /\ EndInfoOf(fn, compiledCode) = EndInfoOf(fn, CompiledBlock(fn))

(* Every branch leads to the start of the instruction it led to before.    *)
JumpsLand ==
    \A i, j \in 1..Len(insns) :
        /\ Ops[insns[i].op].operands = "branch"
        /\ insns[i].offset + insns[i].arg = insns[j].offset
        => starts[i] + insns[i].arg = starts[j]

(* The literals may move without any branch being retargeted as long as    *)
(* none of them gets shorter by it.                                        *)
JumpsLandAtWidth ==
    pc = "done" /\ AllSimple
        /\ (\A i \in 1..Len(insns) : \A k \in 1..Len(insns[i].lits) :
               Len(CompileLiteral(fn.enc, insns[i].lits[k]))
                   = Len(CompileLiteral(fn.enc, fn.code[i].lits[k])))
    => JumpsLand

(* "Reconstruct the bytecode from the IR" (Bytecode::emit): a function no  *)
(* register is saved in comes out as it went in.                           *)
Reconstructed ==
    pc = "done" /\ args = fn.args => compiledCode = CompiledBlock(fn)

=============================================================================
