----------------------- MODULE FrameAllocation_proofs -----------------------
(***************************************************************************)
(* The abstract allocator keeps what it promises, for functions of any     *)
(* size: the promises are invariants of FrameAllocation.                   *)
(***************************************************************************)
EXTENDS FrameAllocation, TLAPS

(* Collecting makes the list of values longer and leaves the rest of it.   *)
LEMMA CollectKeeps ==
    ASSUME TypeOK, Collect
    PROVE  TypeOK' /\ DOMAIN home' = {}
<1>1. PICK span \in Span : spans' = Append(spans, span)
  BY DEF Collect
<1>2. spans' \in Seq(Span)
  BY <1>1 DEF TypeOK
<1>3. QED
  BY <1>2 DEF Collect, TypeOK

(* A value that gets a home gets one in the frame and apart from the homes *)
(* of the values it clashes with, which are the only ones that change.     *)
LEMMA AssignKeeps ==
    ASSUME TypeOK, HomesApart, HomesInFrame,
           NEW i \in DOMAIN spans, NEW r \in 0..(size - 1), Assign(i, r)
    PROVE  TypeOK' /\ HomesApart' /\ HomesInFrame'
<1>1. /\ DOMAIN home' = DOMAIN home \cup {i} /\ i \notin DOMAIN home
      /\ home'[i] = r /\ \A j \in DOMAIN home : home'[j] = home[j]
      /\ spans' = spans /\ size' = size
      /\ home' = [j \in DOMAIN home' |-> home'[j]]
  BY DEF Assign
<1>2. TypeOK'
  BY <1>1 DEF TypeOK
<1>3. HomesInFrame'
  BY <1>1 DEF HomesInFrame
<1>4. \A j \in DOMAIN home : Clash(spans[j], spans[i]) => home[j] # r
  BY DEF Assign
<1>5. \A s, t : Clash(s, t) <=> Clash(t, s)
  BY DEF Clash
<1>6. HomesApart'
  BY <1>1, <1>4, <1>5 DEF HomesApart, Clash, LiveAt
<1>7. QED
  BY <1>2, <1>3, <1>6

Promise == TypeOK /\ HomesApart /\ HomesInFrame

(* No allocator that behaves as described ever puts two values that are    *)
(* live at once into one register, or a value outside of the frame.        *)
THEOREM PromiseKept == Spec => [](HomesApart /\ HomesInFrame)
<1>1. Init => Promise
  BY DEF Init, Promise, TypeOK, HomesApart, HomesInFrame
<1>2. Promise /\ [Next]_vars => Promise'
  <2> SUFFICES ASSUME Promise, [Next]_vars
               PROVE  Promise'
    OBVIOUS
  <2>1. CASE Begin
    BY <2>1 DEF Begin, Promise, TypeOK, HomesApart, HomesInFrame
  <2>2. CASE Collect
    BY <2>2, CollectKeeps DEF Promise, HomesApart, HomesInFrame
  <2>3. CASE \E i \in DOMAIN spans, r \in 0..(size - 1) : Assign(i, r)
    BY <2>3, AssignKeeps DEF Promise
  <2>4. CASE \E n \in 0..(size - 1) : Shrink(n)
    <3>1. PICK n \in 0..(size - 1) : Shrink(n)
      BY <2>4
    <3>2. TypeOK' /\ HomesApart'
      BY <3>1 DEF Shrink, Promise, TypeOK, HomesApart, Clash, LiveAt
    <3>3. HomesInFrame'
      BY <3>1 DEF Shrink, Promise, TypeOK, HomesInFrame
    <3>4. QED
      BY <3>2, <3>3 DEF Promise
  <2>5. CASE UNCHANGED vars
    BY <2>5 DEF vars, Promise, TypeOK, HomesApart, HomesInFrame, Clash, LiveAt
  <2>6. QED
    BY <2>1, <2>2, <2>3, <2>4, <2>5 DEF Next
<1>3. Promise => HomesApart /\ HomesInFrame
  BY DEF Promise
<1>4. QED
  BY <1>1, <1>2, <1>3, PTL DEF Spec
=============================================================================
