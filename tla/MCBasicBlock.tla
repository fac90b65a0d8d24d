---------------------------- MODULE MCBasicBlock ----------------------------
(***************************************************************************)
(* Instances of BasicBlock: all graphs over three blocks in which an edge  *)
(* occurs at most once, as two instructions are spread over the blocks in  *)
(* any way.                                                                *)
(***************************************************************************)
EXTENDS BasicBlock

MCBlocks == 1..3
MCGraphs == [MCBlocks -> [MCBlocks -> 0..1]]
=============================================================================
