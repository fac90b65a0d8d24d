----------------------------- MODULE MCSnapshot -----------------------------
(***************************************************************************)
(* Instances of SnapshotTool: trees of up to four functions below one,     *)
(* two or three outermost ones, with references of functions to            *)
(* themselves.                                                             *)
(***************************************************************************)
EXTENDS SnapshotTool, TLC

CONSTANTS a, b, c, d

Sizes == (a :> 6) @@ (b :> 9) @@ (c :> 5) @@ (d :> 12)

Snapshot(roots, subs) ==
    [roots |-> roots, subs |-> [f \in Functions |-> IF f \in DOMAIN subs THEN subs[f] ELSE <<>>],
     size |-> Sizes]

MCSnapshots ==
    { Snapshot(<<a>>, (a :> <<>>)),
      Snapshot(<<a>>, (a :> <<b, c, d>>)),
      Snapshot(<<a>>, (a :> <<b, d>>) @@ (b :> <<c>>)),
      Snapshot(<<a>>, (a :> <<b>>) @@ (b :> <<c, d>>)),
      Snapshot(<<a, b>>, (a :> <<c>>) @@ (b :> <<d>>)),
      Snapshot(<<a, b>>, (a :> <<>>) @@ (b :> <<c, d>>)),
      Snapshot(<<a>>, (a :> <<b, a>>) @@ (b :> <<b, c>>)),
      Snapshot(<<d, a, b>>, (d :> <<c>>)) }

MCOne == { Snapshot(<<d>>, (d :> <<a>>)) }
=============================================================================
