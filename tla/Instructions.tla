---------------------------- MODULE Instructions ----------------------------
(***************************************************************************)
(* The intermediate representation the passes share: the header of a       *)
(* compiled function (class BytecodeArguments) and its decoded             *)
(* instructions (class Ins), as far as the passes tell them apart.         *)
(*                                                                         *)
(* A literal index is a natural number.  Indices below registerEnd name    *)
(* registers (the first argumentEnd of them are the formal arguments);     *)
(* indices from registerEnd on name idents, constants and templates, which *)
(* no pass distinguishes.                                                  *)
(***************************************************************************)
EXTENDS Integers, Sequences

CONSTANT NoReg  \* write_reg_ of an instruction without InstFlags::WRITE_REG

ASSUME NoRegAssumption == NoReg \notin Nat

-----------------------------------------------------------------------------
(* The header.  identEnd and constLiteralEnd lie between registerEnd and   *)
(* literalEnd and are moved with them, so they are left out.               *)
Args ==
    { a \in [argumentEnd : Nat, registerEnd : Nat, literalEnd : Nat] :
        a.registerEnd <= a.literalEnd }

(* Mutant: the end of the literals stays. *)
MoveRegIndexAlone(args, offset) == [args EXCEPT !.registerEnd = @ + offset]

MoveRegIndex(args, offset) ==
    [args EXCEPT !.registerEnd = @ + offset, !.literalEnd = @ + offset]

-----------------------------------------------------------------------------
(* An instruction: the literal operands in the order they are emitted, the *)
(* set of registers of read_regs_ (empty iff READ_REG is clear) and the    *)
(* register of write_reg_ (NoReg iff WRITE_REG is clear).                  *)
Instruction == [lits : Seq(Nat), reads : SUBSET Nat, write : Nat \cup {NoReg}]

(* Decoding marks every literal below registerEnd as read, the written one *)
(* included: setWriteReg and addReadReg both end in decodeLiteral.         *)
DecodeLiterals(lits, args) ==
    { lits[i] : i \in { j \in 1..Len(lits) : lits[j] < args.registerEnd } }

Decode(lits, write, args) ==
    [lits |-> lits, reads |-> DecodeLiterals(lits, args), write |-> write]

(* Every instruction has the registers among its literals as its read      *)
(* ones, and the one it writes is among them.                              *)
Recorded(code, args) ==
    \A i \in 1..Len(code) :
        /\ code[i].reads = DecodeLiterals(code[i].lits, args)
        /\ code[i].write \in code[i].reads \cup {NoReg}

-----------------------------------------------------------------------------
(* A live interval.  One made from a start alone ends at 0 until a later   *)
(* instruction on the register ends it.                                    *)
LiveInterval == [start : Nat, end : Nat]

OpenInterval(start) == [start |-> start, end |-> 0]
=============================================================================
