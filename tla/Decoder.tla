------------------------------ MODULE Decoder ------------------------------
(***************************************************************************)
(* How class Ins decodes one instruction of a function's byte code:        *)
(* decodeCBCOpcode, decodeArguments for the operands every opcode of its   *)
(* kind has, and decodeGroupOpcode for the rest.                           *)
(*                                                                         *)
(* The stack of class Stack does not keep what is pushed: it has no        *)
(* influence on what is decoded, and a group that only computes on it      *)
(* decodes nothing here.                                                   *)
(*                                                                         *)
(* A byte code is a record b: the encoding of its literals, where its      *)
(* registers end, and its cells.  A cell is a byte, or an opcode as a      *)
(* negative number; an extended opcode is one cell, too.                   *)
(***************************************************************************)
EXTENDS Instructions

(* An opcode: the kind of its operands, its group, where it puts its       *)
(* result, whether it is the one that the case of its group singles out,   *)
(* and the width and direction of its branch.                              *)
Op == [operands : {"none", "branch", "stack", "literal", "literal_literal"},
       group    : STRING,
       put      : {"nowhere", "ident", "reference"},
       special  : BOOLEAN,
       length   : 0..3,
       backward : BOOLEAN]

CONSTANT Ops  \* the opcodes: a sequence of Op

(* The groups that decode something, by what they decode. *)
StringGroups ==
    {"CREATE_BINDING", "CHECK_VAR", "CHECK_LET", "ASSIGN_LET_CONST", "INIT_BINDING",
     "COPY_TO_GLOBAL", "COPY_FROM_ARG", "PUSH_CLASS_ENVIRONMENT"}
ByteGroups ==
    {"PUSH_POS_BYTE", "PUSH_NEG_BYTE", "PUSH_LIT_POS_BYTE", "PUSH_LIT_NEG_BYTE",
     "LOCAL_EVAL", "SUPER_CALL", "SPREAD_ARGUMENTS", "APPEND_ARRAY"}
CallGroups == {"CALL", "NEW"}
EvalGroups == {"VAR_EVAL", "EXT_VAR_EVAL"}
ReferenceGroups == {"IDENT_REFERENCE", "TYPEOF_IDENT"}
PutGroups ==
    {"ASSIGN", "ASSIGN_PROP", "ASSIGN_PROP_THIS", "SET_NEXT_COMPUTED_FIELD",
     "PROP_REFERENCE"}
IncrementGroups ==
    {"PROP_PRE_INCR", "PROP_PRE_DECR", "PROP_POST_INCR", "PROP_POST_DECR",
     "PRE_INCR", "PRE_DECR", "POST_INCR", "POST_DECR"}

(* The opcodes with a byte argument; those of a call with few arguments     *)
(* have the count in the opcode.                                           *)
HasByte(op) == op.group \in ByteGroups \/ (op.group \in CallGroups /\ ~ op.special)

(* How many literals an instruction has: those that every opcode of its    *)
(* operand kind has, and those of its group; and how many of the latter    *)
(* are names that cannot be registers (decodeStringLiteral asserts it).    *)
OperandLiterals(op) ==
    CASE op.operands = "literal" -> 1 [] op.operands = "literal_literal" -> 2 [] OTHER -> 0

NameLiterals(op) ==
    CASE op.group \in StringGroups -> 1
      [] op.group \in EvalGroups -> IF op.special THEN 2 ELSE 1
      [] op.group = "SET_FUNCTION_NAME" /\ op.special -> 1
      [] OTHER -> 0

GroupLiterals(op) ==
    CASE op.group \in {"PUSH_THREE", "CREATE_ARGUMENTS", "MOV_IDENT", "DELETE"} -> 1
      [] op.group \in ReferenceGroups -> 1
      [] op.group = "INIT_ARG_OR_FUNC" -> 2
      [] op.group = "FINALIZE_CLASS" /\ op.special -> 1
      [] op.group \in PutGroups /\ op.put = "ident" -> 1
      [] op.group \in IncrementGroups /\ op.put = "ident" /\ op.operands # "literal" -> 1
      [] OTHER -> NameLiterals(op)

(* The opcodes of the engine: a branch takes nothing but its offset, and   *)
(* what is incremented is a literal that is also where the result goes, or *)
(* is on the stack.                                                        *)
ASSUME OpsAssumption ==
    /\ Ops \in Seq(Op)
    /\ Ops # <<>>
    /\ \A o \in 1..Len(Ops) :
          /\ Ops[o].operands = "branch" =>
                /\ Ops[o].length # 0
                /\ GroupLiterals(Ops[o]) = 0 /\ ~ HasByte(Ops[o])
                /\ Ops[o].group \notin IncrementGroups \cup {"LINE"}
          /\ Ops[o].group = "LINE" => OperandLiterals(Ops[o]) = 0
          /\ Ops[o].group \in IncrementGroups =>
                OperandLiterals(Ops[o]) = 0 \/ (Ops[o].operands = "literal" /\ Ops[o].put = "ident")

-----------------------------------------------------------------------------
(* The literal encodings: limit, delta and one-byte limit of the function, *)
(* and the greatest index there is a code for.                             *)
FullEncoding == [limit |-> 128, delta |-> 32768, oneByteLimit |-> 127, reach |-> 32767]
SmallEncoding == [limit |-> 255, delta |-> 65025, oneByteLimit |-> 254, reach |-> 510]

DecodeLiteralIndex(b, i) ==
    IF b.cells[i] >= b.enc.limit
    THEN [value |-> (b.cells[i] * 256 + b.cells[i + 1] - b.enc.delta) % 65536, next |-> i + 2]
    ELSE [value |-> b.cells[i], next |-> i + 1]

(* What bytes and groups of seven bits are worth, the lowest first. *)
ByteWeight == <<1, 256, 65536, 16777216>>
GroupWeight == <<1, 128, 16384, 2097152, 268435456>>

(* Branch offsets: length bytes, the highest first, negated if backward.   *)
(* Mutant: the lowest byte comes first. *)
DecodeBranchLow(b, op, i) ==
    LET value[k \in 0..op.length] ==
            IF k = 0 THEN 0 ELSE value[k - 1] + b.cells[i + k - 1] * ByteWeight[k]
    IN  IF op.backward THEN - value[op.length] ELSE value[op.length]

DecodeBranch(b, op, i) ==
    LET value[k \in 0..op.length] ==
            IF k = 0 THEN 0 ELSE value[k - 1] * 256 + b.cells[i + k - 1]
    IN  IF op.backward THEN - value[op.length] ELSE value[op.length]

(* Line numbers: groups of seven bits, the highest first and all but the   *)
(* last marked by bit 7.                                                   *)
LineEnd(b, i) ==
    CHOOSE j \in i..Len(b.cells) : b.cells[j] < 128 /\ \A k \in i..(j - 1) : b.cells[k] >= 128

DecodeLine(b, i) ==
    LET value[k \in (i - 1)..LineEnd(b, i)] ==
            IF k = i - 1 THEN 0 ELSE value[k - 1] * 128 + (b.cells[k] % 128)
    IN  value[LineEnd(b, i)]

-----------------------------------------------------------------------------
(* A decoding under way, d: the instruction so far, the position of the    *)
(* cursor, and the literal index that was read last.                       *)
IsRegister(b, index) == index < b.registerEnd

ReadIndex(b, d) ==
    LET l == DecodeLiteralIndex(b, d.next) IN [d EXCEPT !.index = l.value, !.next = l.next]

(* decodeLiteral(index): a literal is recorded, as read if it is a         *)
(* register, the one that is written included.                             *)
AddLiteral(b, d, index) ==
    [d EXCEPT !.lits = Append(@, index),
              !.reads = IF IsRegister(b, index) THEN @ \cup {index} ELSE @]

ReadLiteral(b, d) == LET e == ReadIndex(b, d) IN AddLiteral(b, e, e.index)

(* Mutant: the register is not recorded as a literal. *)
SetWriteRegOnly(b, d, reg) == [d EXCEPT !.write = reg]

SetWriteReg(b, d, reg) == AddLiteral(b, [d EXCEPT !.write = reg], reg)

AddReadReg(b, d, reg) == AddLiteral(b, [d EXCEPT !.reads = @ \cup {reg}], reg)

(* setStringLiteral: a literal is recorded that is no register. *)
ReadStringLiteral(b, d) == LET e == ReadIndex(b, d) IN [e EXCEPT !.lits = Append(@, e.index)]

DecodeArguments(b, op, d) ==
    CASE op.operands = "literal" -> ReadLiteral(b, d)
      [] op.operands = "literal_literal" -> ReadLiteral(b, ReadLiteral(b, d))
      [] op.operands = "branch" ->
            [d EXCEPT !.arg = DecodeBranch(b, op, d.next), !.next = @ + op.length]
      [] OTHER -> d

(* processPut.  The base of a reference is what Stack::pop gives, which is *)
(* never the mark that IDENT_REFERENCE pushes for a register: what is      *)
(* assigned through a reference is not recorded.                           *)
ProcessPut(b, op, d) ==
    LET e == ReadIndex(b, d)
    IN  IF op.put # "ident" THEN d
        ELSE IF IsRegister(b, e.index) THEN SetWriteReg(b, e, e.index)
        ELSE AddLiteral(b, e, e.index)

(* A name that is recorded as written if it is a register. *)
DecodeWritten(b, d) ==
    LET e == ReadIndex(b, d)
    IN  IF IsRegister(b, e.index) THEN SetWriteReg(b, e, e.index)
        ELSE [e EXCEPT !.lits = Append(@, e.index)]

(* A name that is recorded only if it is a register. *)
DecodeReference(b, d) ==
    LET e == ReadIndex(b, d)
    IN  IF IsRegister(b, e.index) THEN AddReadReg(b, e, e.index) ELSE e

(* The name comes before the value in the stream, but is recorded after.   *)
DecodeInit(b, d) ==
    LET name  == ReadIndex(b, d)
        value == DecodeReference(b, name)
    IN  IF IsRegister(b, name.index) THEN SetWriteReg(b, value, name.index)
        ELSE [value EXCEPT !.lits = Append(@, name.index)]

DecodeEval(b, op, d) ==
    ReadStringLiteral(b, IF op.special THEN ReadStringLiteral(b, d) ELSE d)

(* The cursor goes back to behind the opcode before the result is put: a   *)
(* literal operand is decoded again.                                       *)
DecodeIncrement(b, op, d) == ProcessPut(b, op, [d EXCEPT !.next = d.offset + 2])

DecodeGroup(b, op, d) ==
    CASE op.group = "PUSH_THREE" -> ReadLiteral(b, d)
      [] HasByte(op) -> [d EXCEPT !.arg = b.cells[d.next], !.next = @ + 1]
      [] op.group \in StringGroups -> ReadStringLiteral(b, d)
      [] op.group = "SET_FUNCTION_NAME" /\ op.special -> ReadStringLiteral(b, d)
      [] op.group \in EvalGroups -> DecodeEval(b, op, d)
      [] op.group = "CREATE_ARGUMENTS" -> DecodeWritten(b, d)
      [] op.group = "INIT_ARG_OR_FUNC" -> DecodeInit(b, d)
      [] op.group = "FINALIZE_CLASS" /\ op.special -> ReadIndex(b, d)
      [] op.group \in ReferenceGroups -> DecodeReference(b, d)
      [] op.group \in PutGroups -> ProcessPut(b, op, d)
      [] op.group \in IncrementGroups -> DecodeIncrement(b, op, d)
      [] op.group = "MOV_IDENT" -> LET e == ReadIndex(b, d) IN SetWriteReg(b, e, e.index)
      [] op.group = "DELETE" -> ReadIndex(b, d)
      [] op.group = "LINE" ->
            [d EXCEPT !.arg = DecodeLine(b, d.next), !.next = LineEnd(b, d.next) + 1]
      [] OTHER -> d

(* The end of the code: that of the cells, or a padding byte, which reads  *)
(* as the opcode that begins an extended one, with nothing or zero after.  *)
AtEnd(b, i) == i <= Len(b.cells) => b.cells[i] = 0

(* One instruction, decoded at position i. *)
DecodeAt(b, i) ==
    LET op == Ops[- b.cells[i]]
        start == [op |-> - b.cells[i], lits |-> <<>>, reads |-> {}, write |-> NoReg,
                  arg |-> 0, offset |-> i - 1, index |-> 0, next |-> i + 1]
    IN  DecodeGroup(b, op, DecodeArguments(b, op, start))

(* What is kept of it. *)
InsOf(d) == [op |-> d.op, lits |-> d.lits, reads |-> d.reads, write |-> d.write,
             arg |-> d.arg, offset |-> d.offset]
=============================================================================
