----------------------------- MODULE MCRegalloc -----------------------------
(***************************************************************************)
(* Instances of RegallocLinearScan.  The functions are all codes of a      *)
(* given length over a few instruction shapes, decoded as the decoder does *)
(* it and with the live ranges LivenessAnalysis builds for them.           *)
(***************************************************************************)
EXTENDS RegallocLinearScan

CONSTANTS
    CodeLength,   \* instructions per function
    ArgumentEnds, \* the numbers of arguments to try
    Shapes        \* instruction shapes: <<literals, written register>>

Regs == 0..2
Ident == 3    \* the one literal that is not a register

Header(argEnd) ==
    [argumentEnd |-> argEnd, registerEnd |-> 3, literalEnd |-> 4]

(* The two block structures: one block, or a second from instruction 3 on. *)
Firsts == { [i \in 1..CodeLength |-> 1],
            [i \in 1..CodeLength |-> IF i < 3 THEN 1 ELSE 3] }

Function(header, shape, first) ==
    LET body == [i \in 1..CodeLength |-> Decode(shape[i][1], shape[i][2], header)]
    IN  [args |-> header, code |-> body,
         ranges |-> RangeEntries(BuildLiveRanges(header, body, first))]

(* An instruction reads one register, or two, or writes one, or copies.    *)
Reads  == { <<<<r, Ident>>, NoReg>> : r \in Regs } \cup { <<<<0, 1>>, NoReg>> }
Writes == { <<<<Ident, w>>, w>> : w \in Regs }
Copies == { <<<<r, 1>>, 1>> : r \in Regs \ {1} }

PlainShapes == Reads \cup Writes
AllShapes == PlainShapes \cup Copies

(* Every function alone. *)
SinglePrograms ==
    { <<Function(Header(a), shape, first)>> :
        a \in ArgumentEnds, shape \in [1..CodeLength -> Shapes], first \in Firsts }

(* Two functions after one another, one without registers among them.      *)
NoRegisters ==
    LET header == [argumentEnd |-> 0, registerEnd |-> 0, literalEnd |-> 1]
    IN  [args |-> header, code |-> <<Decode(<<0>>, NoReg, header)>>, ranges |-> {}]

Reused ==
    { NoRegisters } \cup
    { Function(Header(1), shape, [i \in 1..CodeLength |-> 1]) :
        shape \in [1..CodeLength -> { <<<<2, Ident>>, NoReg>>, <<<<Ident, 1>>, 1>> }] }

PairPrograms == { <<f, g>> : f, g \in Reused }

MCPrograms == SinglePrograms \cup PairPrograms
=============================================================================
