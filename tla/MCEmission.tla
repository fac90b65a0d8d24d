----------------------------- MODULE MCEmission -----------------------------
(***************************************************************************)
(* Instances of Emission: an opcode of each group that decodes something   *)
(* and of each kind of operands; functions of one to three instructions in *)
(* both literal encodings, and single functions for what the emitter does  *)
(* not invert.                                                             *)
(***************************************************************************)
EXTENDS Emission

Opcode(operands, group, put, special) ==
    [operands |-> operands, group |-> group, put |-> put, special |-> special,
     length |-> 0, backward |-> FALSE]

Branching(length, backward) ==
    [operands |-> "branch", group |-> "JUMP", put |-> "nowhere", special |-> FALSE,
     length |-> length, backward |-> backward]

MCOps == << Opcode("none", "PUSH_TRUE", "nowhere", FALSE),              \* 1
            Opcode("literal", "PUSH_LIT_POS_BYTE", "nowhere", FALSE),
            Opcode("literal_literal", "PUSH_THREE", "nowhere", FALSE),
            Opcode("none", "IDENT_REFERENCE", "nowhere", FALSE),
            Opcode("none", "DELETE", "nowhere", FALSE),
            Opcode("none", "INIT_ARG_OR_FUNC", "nowhere", FALSE),
            Branching(1, FALSE),
            Branching(2, FALSE),
            Branching(1, TRUE),
            Opcode("none", "LINE", "nowhere", FALSE),                   \* 10
            Opcode("none", "CREATE_BINDING", "nowhere", FALSE),
            Opcode("none", "SET_FUNCTION_NAME", "nowhere", TRUE),
            Opcode("none", "VAR_EVAL", "nowhere", TRUE),
            Opcode("none", "CREATE_ARGUMENTS", "nowhere", FALSE),
            Opcode("none", "FINALIZE_CLASS", "nowhere", TRUE),
            Opcode("literal", "ASSIGN", "ident", FALSE),
            Opcode("stack", "ASSIGN", "reference", FALSE),
            Opcode("literal", "POST_INCR", "ident", FALSE),
            Opcode("stack", "PROP_PRE_INCR", "reference", FALSE),
            Opcode("literal", "MOV_IDENT", "nowhere", FALSE),           \* 20
            Opcode("none", "CALL", "nowhere", FALSE),
            Opcode("none", "CALL", "nowhere", TRUE) >>

Plain(op, lits, arg) == [op |-> op, lits |-> lits, arg |-> arg]
Nop == Plain(1, <<>>, 0)
Byted(lit, byte) == Plain(2, <<lit>>, byte)
Triple(a, b, c) == Plain(3, <<a, b, c>>, 0)
Branch(offset) == Plain(7, <<>>, offset)
FarBranch(offset) == Plain(8, <<>>, offset)
BackBranch(offset) == Plain(9, <<>>, offset)
Line(line) == Plain(10, <<>>, line)

(* All registers are arguments; two or three values follow the code.       *)
Function(full, registerEnd, code) ==
    LET used == UNION { { code[i].lits[k] : k \in 1..Len(code[i].lits) } : i \in 1..Len(code) }
        wide == \E index \in used : index >= 255
    IN  [enc |-> IF full THEN FullEncoding ELSE SmallEncoding,
         wide |-> wide, mapped |-> full, extras |-> 2, code |-> code,
         args |-> [argumentEnd |-> registerEnd, registerEnd |-> registerEnd,
                   literalEnd |-> IF ~ wide THEN 255 ELSE IF full THEN 32768 ELSE 511]]

(* The encoding has a code for every literal. *)
Encodable(f) ==
    \A i \in 1..Len(f.code) : \A k \in 1..Len(f.code[i].lits) :
        f.code[i].lits[k] <= f.enc.reach

(* Every branch leads to an instruction. *)
Targeted(f) ==
    \A i \in 1..Len(f.code) :
        Ops[f.code[i].op].operands = "branch" =>
            \E j \in 1..Len(f.code) :
                Len(StreamUpTo(f, i - 1)) + f.code[i].arg = Len(StreamUpTo(f, j - 1))

Legal(S) == { f \in S : Encodable(f) /\ Targeted(f) }

(* Two registers, so literals from 2 on are names and constants. *)
Widths ==
    { Byted(0, 7), Byted(254, 0), Byted(255, 255), Triple(1, 127, 128),
      Triple(510, 1, 2), Triple(32767, 511, 0), Branch(2), Branch(6), BackBranch(-1),
      Line(0), Line(200) }
Groups ==
    { Nop, Plain(4, <<1>>, 0), Plain(4, <<2>>, 0), Plain(5, <<2>>, 0),
      Plain(6, <<2, 1>>, 0), Plain(6, <<0, 1>>, 0), Plain(6, <<3, 2>>, 0),
      Plain(11, <<300>>, 0), Plain(12, <<3>>, 0), Plain(13, <<400, 3>>, 0),
      Plain(14, <<1>>, 0), Plain(14, <<255>>, 0), Plain(15, <<2>>, 0),
      Plain(16, <<0, 1>>, 0), Plain(16, <<1, 255>>, 0), Plain(17, <<>>, 0),
      Plain(18, <<1>>, 0), Plain(18, <<256>>, 0), Plain(19, <<>>, 0),
      Plain(20, <<1, 0>>, 0), Plain(20, <<200, 1>>, 0), Plain(21, <<>>, 3),
      Plain(22, <<>>, 0) }

(* A forward branch over more than a page. *)
FarCode ==
    <<FarBranch(283)>> \o [i \in 1..40 |-> Triple(300, 400, 500)] \o <<Nop>>

MCFunctions ==
    Legal({ Function(full, 2, <<a, b, c>>) :
              full \in BOOLEAN, a \in Widths, b \in Widths \cup Groups, c \in {Nop, Byted(2, 1)} }
          \cup { Function(full, 2, <<a, b>>) : full \in BOOLEAN, a, b \in Groups }
          \cup { Function(FALSE, 0, FarCode), Function(TRUE, 0, FarCode) })

MCBranches ==
    Legal({ Function(FALSE, 0, <<Nop, BackBranch(-1)>>), Function(FALSE, 0, FarCode) })
=============================================================================
