----------------------------- MODULE MCLiveness -----------------------------
(***************************************************************************)
(* Instances of LivenessAnalysis: all codes over a few instruction shapes, *)
(* cut into two real blocks, with all the edges such blocks can have.      *)
(***************************************************************************)
EXTENDS LivenessAnalysis, TLC

CONSTANTS
    CodeLength,    \* instructions per function
    SecondBlocks,  \* the instructions block 2 may begin at
    Shapes         \* instruction shapes: <<literals, written register>>

Ident == 2

Header(regEnd) == [argumentEnd |-> IF regEnd = 0 THEN 0 ELSE 1,
                   registerEnd |-> regEnd, literalEnd |-> Ident + 1]

(* Block 1 falls through to block 2, branches, or both; block 2 may branch *)
(* back; the end block 3 follows it.                                       *)
Edges ==
    { (0 :> {1}) @@ (1 :> s) @@ (2 :> t \cup {3}) @@ (3 :> {}) :
        s \in (SUBSET {1, 2}) \ {{}}, t \in SUBSET {1, 2} }

Function(regEnd, shape, second, succs) ==
    [args  |-> Header(regEnd),
     code  |-> [i \in 1..CodeLength |->
                   Decode(shape[i][1], shape[i][2], Header(regEnd))],
     count |-> 4,
     block |-> [i \in 1..CodeLength |-> IF i < second THEN 1 ELSE 2],
     succs |-> succs]

MCShapes == { <<<<0, Ident>>, NoReg>>, <<<<1, 1>>, NoReg>>, <<<<0>>, 0>>,
              <<<<Ident, 1>>, 1>>, <<<<0, 1>>, 1>>, <<<<Ident>>, NoReg>> }

NoRegisters ==
    { Function(0, [i \in 1..CodeLength |-> <<<<Ident>>, NoReg>>], 2, succs) :
        succs \in Edges }

MCFunctions ==
    NoRegisters \cup
    { Function(2, shape, second, succs) : shape \in [1..CodeLength -> Shapes],
        second \in SecondBlocks, succs \in Edges }
=============================================================================
