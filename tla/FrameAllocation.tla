-------------------------- MODULE FrameAllocation --------------------------
(***************************************************************************)
(* What a register allocator promises, whatever its method: the values of  *)
(* a function live for spans of its code, each is given a home in the      *)
(* frame of the function for all of its span, two values that are live at  *)
(* once never share a home, and the frame is only made smaller when every  *)
(* home is left in it.                                                     *)
(*                                                                         *)
(* There are no sorted lists, free stacks, active lists or counters here:  *)
(* RegallocLinearScan has them and is shown to implement this.  Values     *)
(* without a home are none of an allocator's business: a linear scan gives *)
(* none to values that are live nowhere.                                   *)
(***************************************************************************)
EXTENDS Integers, Sequences

VARIABLES
    spans,  \* the values of the function: where each begins and ends
    home,   \* the register of each value that has been given one
    size    \* the number of registers of the frame

vars == <<spans, home, size>>

Span == [start : Nat, end : Nat]

(* Where a value is live: the instruction it ends at may begin another.    *)
LiveAt(span) == span.start .. (span.end - 1)

Clash(s, t) == LiveAt(s) \cap LiveAt(t) # {}

-----------------------------------------------------------------------------
Init ==
    /\ spans = <<>>
    /\ home = [i \in {} |-> 0]
    /\ size \in Nat

(* Another function is taken up. *)
Begin ==
    /\ spans' = <<>>
    /\ home' = [i \in {} |-> 0]
    /\ size' \in Nat

(* Its values are collected before any of them gets a home. *)
Collect ==
    /\ DOMAIN home = {}
    /\ \E span \in { spans'[i] : i \in DOMAIN spans' } :
          span \in Span /\ spans' = Append(spans, span)
    /\ UNCHANGED <<home, size>>

(* A value gets a register that no value it clashes with has. *)
Assign(i, r) ==
    /\ i \notin DOMAIN home
    /\ \A j \in DOMAIN home : Clash(spans[j], spans[i]) => home[j] # r
    /\ home' = [j \in DOMAIN home \cup {i} |-> IF j = i THEN r ELSE home[j]]
    /\ UNCHANGED <<spans, size>>

(* The frame loses its upper registers, none of which is a home. *)
Shrink(n) ==
    /\ \A i \in DOMAIN home : home[i] < n
    /\ size' = n
    /\ UNCHANGED <<spans, home>>

Next ==
    \/ Begin
    \/ Collect
    \/ \E i \in DOMAIN spans, r \in 0..(size - 1) : Assign(i, r)
    \/ \E n \in 0..(size - 1) : Shrink(n)

Spec == Init /\ [][Next]_vars

-----------------------------------------------------------------------------
(* The type invariant. *)
TypeOK ==
    /\ spans \in Seq(Span)
    /\ DOMAIN home \subseteq DOMAIN spans
    /\ home = [i \in DOMAIN home |-> home[i]]
    /\ size \in Nat

(* Values that are live at once are in different registers. *)
HomesApart ==
    \A i, j \in DOMAIN home :
        i # j /\ Clash(spans[i], spans[j]) => home[i] # home[j]

(* Every home is a register of the frame, also after it has been shrunk.   *)
HomesInFrame == \A i \in DOMAIN home : home[i] \in 0..(size - 1)
=============================================================================
