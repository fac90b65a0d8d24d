-------------------------- MODULE BasicBlock_proofs --------------------------
(***************************************************************************)
(* Theorems about BasicBlock, for all sets of blocks, graphs and numbers   *)
(* of operations.  The first lemmas say of each way the lists are changed  *)
(* that it keeps both ends of every edge in step, the others which edges   *)
(* taking out and splitting a block leave.                                 *)
(***************************************************************************)
EXTENDS BasicBlock, TLAPS

LEMMA ConnectKeeps ==
    ASSUME NEW l \in Lists, NEW a \in Blocks, NEW b \in Blocks, NEW n \in Nat
    PROVE  /\ Connect(l, a, b, n) \in Lists
           /\ Mirrored(l) => Mirrored(Connect(l, a, b, n))
<1> DEFINE m == Connect(l, a, b, n)
<1>1. /\ m = [succs |-> [l.succs EXCEPT ![a][b] = @ + n],
              preds |-> [l.preds EXCEPT ![b][a] = @ + n]]
      /\ l.succs \in [Blocks -> BlockList] /\ l.preds \in [Blocks -> BlockList]
  BY DEF Connect, Lists
<1>2. \A x, y \in Blocks :
          /\ m.succs[x][y] = IF x = a /\ y = b THEN l.succs[x][y] + n ELSE l.succs[x][y]
          /\ m.preds[y][x] = IF x = a /\ y = b THEN l.preds[y][x] + n ELSE l.preds[y][x]
  <2> TAKE x \in Blocks, y \in Blocks
  <2>1. l.succs[x] \in BlockList /\ l.preds[y] \in BlockList
    BY <1>1
  <2>2. m.succs[x] = IF x = a THEN [l.succs[x] EXCEPT ![b] = @ + n] ELSE l.succs[x]
    BY <1>1
  <2>3. m.preds[y] = IF y = b THEN [l.preds[y] EXCEPT ![a] = @ + n] ELSE l.preds[y]
    BY <1>1
  <2>4. QED
    BY <2>1, <2>2, <2>3 DEF BlockList
<1>3. m \in Lists
  BY <1>1 DEF Lists, BlockList
<1>4. QED
  BY <1>2, <1>3 DEF Mirrored

LEMMA DisconnectKeeps ==
    ASSUME NEW l \in Lists, NEW a \in Blocks, NEW b \in Blocks
    PROVE  /\ Disconnect(l, a, b) \in Lists
           /\ Mirrored(l) => Mirrored(Disconnect(l, a, b))
<1> DEFINE m == Disconnect(l, a, b)
<1>1. /\ m = [succs |-> [l.succs EXCEPT ![a][b] = 0], preds |-> [l.preds EXCEPT ![b][a] = 0]]
      /\ l.succs \in [Blocks -> BlockList] /\ l.preds \in [Blocks -> BlockList]
  BY DEF Disconnect, Lists
<1>2. \A x, y \in Blocks :
          /\ m.succs[x][y] = IF x = a /\ y = b THEN 0 ELSE l.succs[x][y]
          /\ m.preds[y][x] = IF x = a /\ y = b THEN 0 ELSE l.preds[y][x]
  <2> TAKE x \in Blocks, y \in Blocks
  <2>1. l.succs[x] \in BlockList /\ l.preds[y] \in BlockList
    BY <1>1
  <2>2. m.succs[x] = IF x = a THEN [l.succs[x] EXCEPT ![b] = 0] ELSE l.succs[x]
    BY <1>1
  <2>3. m.preds[y] = IF y = b THEN [l.preds[y] EXCEPT ![a] = 0] ELSE l.preds[y]
    BY <1>1
  <2>4. QED
    BY <2>1, <2>2, <2>3 DEF BlockList
<1>3. m \in Lists
  BY <1>1 DEF Lists, BlockList
<1>4. QED
  BY <1>2, <1>3 DEF Mirrored

LEMMA WithoutPredecessorsKeeps ==
    ASSUME NEW l \in Lists, NEW b \in Blocks
    PROVE  /\ WithoutPredecessors(l, b) \in Lists
           /\ Mirrored(l) => Mirrored(WithoutPredecessors(l, b))
<1> DEFINE m == WithoutPredecessors(l, b)
<1>1. l.succs \in [Blocks -> BlockList] /\ l.preds \in [Blocks -> BlockList]
  BY DEF Lists
<1>2. \A x, y \in Blocks :
          /\ m.succs[x][y] = IF y = b THEN 0 ELSE l.succs[x][y]
          /\ m.preds[y][x] = IF y = b THEN 0 ELSE l.preds[y][x]
  BY <1>1 DEF WithoutPredecessors, BlockList
<1>3. m \in Lists
  BY <1>1 DEF WithoutPredecessors, Lists, BlockList
<1>4. QED
  BY <1>2, <1>3 DEF Mirrored

LEMMA WithoutSuccessorsKeeps ==
    ASSUME NEW l \in Lists, NEW b \in Blocks
    PROVE  /\ WithoutSuccessors(l, b) \in Lists
           /\ Mirrored(l) => Mirrored(WithoutSuccessors(l, b))
<1> DEFINE m == WithoutSuccessors(l, b)
<1>1. l.succs \in [Blocks -> BlockList] /\ l.preds \in [Blocks -> BlockList]
  BY DEF Lists
<1>2. \A x, y \in Blocks :
          /\ m.succs[x][y] = IF x = b THEN 0 ELSE l.succs[x][y]
          /\ m.preds[y][x] = IF x = b THEN 0 ELSE l.preds[y][x]
  BY <1>1 DEF WithoutSuccessors, BlockList
<1>3. m \in Lists
  BY <1>1 DEF WithoutSuccessors, Lists, BlockList
<1>4. QED
  BY <1>2, <1>3 DEF Mirrored

LEMMA BridgedKeeps ==
    ASSUME NEW l \in Lists, NEW b \in Blocks
    PROVE  /\ Bridged(l, b) \in Lists
           /\ Mirrored(l) => Mirrored(Bridged(l, b))
<1> DEFINE m == Bridged(l, b)
           more(x, y) == 2 * l.preds[b][x] * l.succs[b][y]
<1>1. /\ m = [succs |-> [x \in Blocks |-> [y \in Blocks |-> l.succs[x][y] + more(x, y)]],
              preds |-> [y \in Blocks |-> [x \in Blocks |-> l.preds[y][x] + more(x, y)]]]
  BY DEF Bridged
<1>2. \A x, y \in Blocks : l.succs[x][y] \in Nat /\ l.preds[x][y] \in Nat
  BY DEF Lists, BlockList
<1>3. \A x, y \in Blocks : more(x, y) \in Nat
  BY <1>2
<1>4. \A x, y \in Blocks :
          /\ m.succs[x][y] = l.succs[x][y] + more(x, y)
          /\ m.preds[y][x] = l.preds[y][x] + more(x, y)
  BY DEF Bridged
<1> HIDE DEF more
<1>5. m \in Lists
  <2>1. \A x, y \in Blocks : l.succs[x][y] + more(x, y) \in Nat /\ l.preds[y][x] + more(x, y) \in Nat
    BY <1>2, <1>3
  <2>2. QED
    BY <1>1, <2>1 DEF Lists, BlockList
<1>6. QED
  BY <1>4, <1>5 DEF Mirrored

LEMMA HandedOverKeeps ==
    ASSUME NEW l \in Lists, NEW from \in Blocks, NEW into \in Blocks
    PROVE  /\ HandedOver(l, from, into) \in Lists
           /\ Mirrored(l) => Mirrored(HandedOver(l, from, into))
<1> DEFINE moved == [succs |-> [l.succs EXCEPT ![into] =
                                   [c \in Blocks |-> @[c] + 2 * l.succs[from][c]]],
                     preds |-> [c \in Blocks |->
                                   [l.preds[c] EXCEPT ![into] = @ + 2 * l.succs[from][c]]]]
<1>1. HandedOver(l, from, into) = Connect(WithoutSuccessors(moved, from), from, into, 2)
  BY DEF HandedOver
<1>2. /\ l.succs \in [Blocks -> BlockList] /\ l.preds \in [Blocks -> BlockList]
      /\ \A x, y \in Blocks : l.succs[x][y] \in Nat /\ l.preds[x][y] \in Nat
  BY DEF Lists, BlockList
<1>3. moved \in Lists
  BY <1>2 DEF Lists, BlockList
<1>4. \A x, y \in Blocks :
          /\ moved.succs[x][y] = IF x = into THEN l.succs[x][y] + 2 * l.succs[from][y]
                                 ELSE l.succs[x][y]
          /\ moved.preds[y][x] = IF x = into THEN l.preds[y][x] + 2 * l.succs[from][y]
                                 ELSE l.preds[y][x]
  BY <1>2 DEF BlockList
<1>5. Mirrored(l) => Mirrored(moved)
  BY <1>4 DEF Mirrored
<1> HIDE DEF moved
<1>6. QED
  BY <1>1, <1>3, <1>5, WithoutSuccessorsKeeps, ConnectKeeps

IInv == TypeOK /\ EdgesMirrored

LEMMA InitIInv == Init => IInv
<1> SUFFICES ASSUME Init PROVE IInv
  OBVIOUS
<1>1. PICK g \in Graphs :
          lists = [succs |-> g, preds |-> [b \in Blocks |-> [a \in Blocks |-> g[a][b]]]]
  BY DEF Init
<1>2. g \in [Blocks -> BlockList]
  BY <1>1, BasicBlockAssumption
<1>3. lists \in Lists
  BY <1>1, <1>2 DEF Lists, BlockList
<1>4. Mirrored(lists)
  BY <1>1, <1>2 DEF Mirrored
<1>5. QED
  <2>1. bb \in [Offsets -> Blocks] /\ insns = [b \in Blocks |-> { i \in Offsets : bb[i] = b }]
    BY DEF Init
  <2>2. calls \in 0..MaxCalls
    BY BasicBlockAssumption DEF Init
  <2>3. broken \in BOOLEAN
    BY DEF Init
  <2>4. QED
    BY <1>3, <1>4, <2>1, <2>2, <2>3 DEF IInv, TypeOK, EdgesMirrored

(* An operation that leaves the instructions alone. *)
LEMMA ListsOnly ==
    ASSUME IInv, Call, UNCHANGED <<insns, bb>>,
           lists' \in Lists, broken' \in BOOLEAN, ~ broken' => Mirrored(lists)'
    PROVE  IInv'
  BY BasicBlockAssumption DEF IInv, TypeOK, EdgesMirrored, Call

LEMMA StepIInv == IInv /\ [Next]_vars => IInv'
<1> SUFFICES ASSUME IInv, [Next]_vars PROVE IInv'
  OBVIOUS
<1>a. lists \in Lists /\ broken \in BOOLEAN /\ (~ broken => Mirrored(lists))
  BY DEF IInv, TypeOK, EdgesMirrored
<1>b. \A m : lists' = m /\ Mirrored(m) => Mirrored(lists)'
  BY DEF Mirrored
<1>1. ASSUME NEW a \in Blocks, NEW b \in Blocks, AddSuccessor(a, b) \/ AddPredecessor(a, b)
      PROVE  IInv'
  <2>1. /\ Call /\ lists' = Connect(lists, a, b, 1) /\ UNCHANGED <<insns, bb, broken>>
    BY <1>1 DEF AddSuccessor, AddPredecessor
  <2>2. QED
    BY <1>a, <1>b, <2>1, ConnectKeeps, ListsOnly DEF Call
<1>2. ASSUME NEW a \in Blocks, NEW b \in Blocks, RemovePredecessor(a, b)
      PROVE  IInv'
  <2>1. Call /\ UNCHANGED <<insns, bb, broken>>
    BY <1>2 DEF RemovePredecessor
  <2>2. lists' = Disconnect(lists, b, a) \/ lists' = lists
    BY <1>2 DEF RemovePredecessor
  <2>3. QED
    BY <1>a, <1>b, <2>1, <2>2, DisconnectKeeps, ListsOnly DEF Call
<1>3. ASSUME NEW a \in Blocks, NEW b \in Blocks, RemoveSuccessor(a, b)
      PROVE  IInv'
  <2>1. Call /\ UNCHANGED <<insns, bb>>
    BY <1>3 DEF RemoveSuccessor
  <2>2. CASE In(lists.succs[a], b)
    <3>1. lists' = Disconnect(lists, a, b) /\ broken' = FALSE
      BY <1>3, <2>2 DEF RemoveSuccessor
    <3>2. QED
      BY <1>a, <1>b, <2>1, <3>1, DisconnectKeeps, ListsOnly DEF Call
  <2>3. CASE ~ In(lists.succs[a], b)
    <3>1. PICK succ \in Blocks : lists' = [lists EXCEPT !.preds[succ][a] = 0]
      BY <1>3, <2>3 DEF RemoveSuccessor
    <3>2. broken' = TRUE
      BY <1>3, <2>3 DEF RemoveSuccessor
    <3>3. lists' \in Lists
      BY <1>a, <3>1 DEF Lists, BlockList
    <3>4. QED
      BY <2>1, <3>2, <3>3, ListsOnly
  <2>4. QED
    BY <2>2, <2>3
<1>4. ASSUME NEW a \in Blocks, NEW b \in Blocks, NEW offset \in Offsets, Split(a, b, offset)
      PROVE  IInv'
  <2> DEFINE moved == { i \in insns[a] : i >= offset }
  <2>1. /\ Call /\ a # b /\ broken' = broken
        /\ insns' = [insns EXCEPT ![a] = Kept(@, offset), ![b] = @ \cup moved]
        /\ bb' = [i \in Offsets |-> IF i \in moved THEN b ELSE bb[i]]
        /\ lists' = lists \/ lists' = HandedOver(lists, a, b)
    BY <1>4 DEF Split
  <2>2. lists' \in Lists /\ (~ broken' => Mirrored(lists)')
    BY <1>a, <1>b, <2>1, HandedOverKeeps
  <2>3. /\ insns = [c \in Blocks |-> { i \in Offsets : bb[i] = c }]
        /\ bb \in [Offsets -> Blocks]
    BY DEF IInv, TypeOK
  <2>4. bb' \in [Offsets -> Blocks]
    BY <2>1, <2>3
  <2>5. \A i \in Offsets : i < offset \/ i >= offset
    BY BasicBlockAssumption
  <2>6. \A c \in Blocks : insns'[c] = { i \in Offsets : bb'[i] = c }
    <3> SUFFICES ASSUME NEW c \in Blocks PROVE insns'[c] = { i \in Offsets : bb'[i] = c }
      OBVIOUS
    <3>1. CASE c = a
      <4>1. insns'[c] = { i \in insns[a] : i < offset }
        BY <2>1, <2>3, <3>1 DEF Kept
      <4>2. \A i \in Offsets : bb'[i] = a <=> bb[i] = a /\ i < offset
        BY <2>1, <2>3, <2>5, BasicBlockAssumption
      <4>3. QED
        BY <2>3, <3>1, <4>1, <4>2
    <3>2. CASE c = b
      BY <2>1, <2>3, <3>2
    <3>3. CASE c # a /\ c # b
      BY <2>1, <2>3, <3>3
    <3>4. QED
      BY <3>1, <3>2, <3>3
  <2>7. insns' = [c \in Blocks |-> { i \in Offsets : bb'[i] = c }]
    <3>1. insns' = [c \in Blocks |-> insns'[c]]
      BY <2>1, <2>3
    <3>2. QED
      BY <2>6, <3>1
  <2>8. calls' \in 0..MaxCalls
    BY <2>1, BasicBlockAssumption DEF IInv, TypeOK, Call
  <2>9. QED
    BY <1>a, <2>1, <2>2, <2>4, <2>7, <2>8 DEF IInv, TypeOK, EdgesMirrored
<1>5. ASSUME NEW b \in Blocks, Remove(b)
      PROVE  IInv'
  <2> DEFINE l == WithoutPredecessors(lists, b)
  <2>1. Call /\ lists' = WithoutSuccessors(l, b) /\ UNCHANGED <<insns, bb, broken>>
    BY <1>5 DEF Remove
  <2>2. l \in Lists /\ Mirrored(l)
    BY <1>a, <2>1, WithoutPredecessorsKeeps DEF Call
  <2> HIDE DEF l
  <2>3. QED
    BY <1>a, <1>b, <2>1, <2>2, WithoutSuccessorsKeeps, ListsOnly
<1>6. ASSUME NEW b \in Blocks, RemoveInaccessible(b)
      PROVE  IInv'
  <2>1. Call /\ lists' = WithoutSuccessors(lists, b) /\ UNCHANGED <<insns, bb, broken>>
    BY <1>6 DEF RemoveInaccessible
  <2>2. QED
    BY <1>a, <1>b, <2>1, WithoutSuccessorsKeeps, ListsOnly DEF Call
<1>7. ASSUME NEW b \in Blocks, RemoveEmpty(b)
      PROVE  IInv'
  <2>1. Call /\ UNCHANGED <<insns, bb>>
    BY <1>7 DEF RemoveEmpty
  <2>2. CASE In(lists.succs[b], b)
    BY <1>7, <1>a, <2>1, <2>2, ListsOnly DEF RemoveEmpty
  <2>3. CASE ~ In(lists.succs[b], b)
    <3> DEFINE l == Bridged(lists, b)
               m == WithoutPredecessors(l, b)
    <3>1. lists' = WithoutSuccessors(m, b) /\ broken' = broken
      BY <1>7, <2>3 DEF RemoveEmpty
    <3>2. l \in Lists /\ Mirrored(l)
      BY <1>a, <2>1, BridgedKeeps DEF Call
    <3> HIDE DEF l
    <3>3. m \in Lists /\ Mirrored(m)
      BY <3>2, WithoutPredecessorsKeeps
    <3> HIDE DEF m
    <3>4. QED
      BY <1>a, <1>b, <2>1, <3>1, <3>3, WithoutSuccessorsKeeps, ListsOnly
  <2>4. QED
    BY <2>2, <2>3
<1>8. CASE UNCHANGED vars
  BY <1>8, <1>b DEF IInv, TypeOK, EdgesMirrored, Mirrored, vars
<1>9. QED
  BY <1>1, <1>2, <1>3, <1>4, <1>5, <1>6, <1>7, <1>8 DEF Next

(* Whatever operations are called on whatever graph, in whatever order,    *)
(* every edge is in the lists of both of its ends, equally often, until    *)
(* one is called that the code does not define.                            *)
THEOREM BothEndsInStep == Spec => []EdgesMirrored
<1>1. IInv => EdgesMirrored
  BY DEF IInv
<1>2. QED
  BY <1>1, InitIInv, StepIInv, PTL DEF Spec

(* The lists stay lists of blocks, and every instruction is in the list of *)
(* the one block it refers to, however often blocks are split.             *)
THEOREM TypeCorrect == Spec => []TypeOK
<1>1. IInv => TypeOK
  BY DEF IInv
<1>2. QED
  BY <1>1, InitIInv, StepIInv, PTL DEF Spec

-----------------------------------------------------------------------------
(* A block is reached if it is in every set that the flow does not leave;  *)
(* so what is reached on one graph is reached on another one if each such  *)
(* set of the other is, but for one block, one of the first. *)
Closed(succs, a, S) == Follow(succs, {a}) \subseteq S /\ Follow(succs, S) \subseteq S

LEMMA ReachedIn ==
    ASSUME NEW g, NEW h, NEW a, NEW b,
           \A S \in SUBSET Blocks : Closed(h, a, S) =>
               \E T \in SUBSET Blocks : Closed(g, a, T) /\ T \subseteq S \cup {b}
    PROVE  ReachedFrom(g, a) \ {b} \subseteq ReachedFrom(h, a)
<1> SUFFICES ASSUME NEW c \in ReachedFrom(g, a), c # b, NEW S \in SUBSET Blocks, Closed(h, a, S)
             PROVE  c \in S
  BY DEF ReachedFrom, Closed
<1>1. PICK T \in SUBSET Blocks : Closed(g, a, T) /\ T \subseteq S \cup {b}
  OBVIOUS
<1>2. c \in T
  BY <1>1 DEF ReachedFrom, Closed
<1>3. QED
  BY <1>1, <1>2

(* An edge of a graph. *)
Edge(g, x, y) == g[x][y] > 0

LEMMA ClosedByEdges ==
    ASSUME NEW g, NEW a \in Blocks, NEW S \in SUBSET Blocks
    PROVE  Closed(g, a, S) <=> \A x \in S \cup {a}, y \in Blocks : Edge(g, x, y) => y \in S
  BY DEF Closed, Follow, In, Edge

(* In h, block b of g is short-circuited. *)
IsBridged(g, h, b) ==
    \A x, y \in Blocks :
        Edge(h, x, y) <=> /\ x # b /\ y # b
                          /\ Edge(g, x, y) \/ (Edge(g, x, b) /\ Edge(g, b, y))

LEMMA BridgedFlow ==
    ASSUME NEW g, NEW h, NEW b \in Blocks, ~ Edge(g, b, b), IsBridged(g, h, b)
    PROVE  \A a \in Blocks \ {b} :
               ReachedFrom(g, a) \cap (Blocks \ {b}) = ReachedFrom(h, a) \cap (Blocks \ {b})
<1> SUFFICES ASSUME NEW a \in Blocks, a # b
             PROVE  ReachedFrom(g, a) \cap (Blocks \ {b}) = ReachedFrom(h, a) \cap (Blocks \ {b})
  OBVIOUS
<1>1. ASSUME NEW S \in SUBSET Blocks, Closed(h, a, S)
      PROVE  \E T \in SUBSET Blocks : Closed(g, a, T) /\ T \subseteq S \cup {b}
  <2> DEFINE Around == (S \ {b}) \cup {a}
             T == (S \ {b}) \cup { y \in {b} : \E z \in Around : Edge(g, z, b) }
  <2>1. \A x \in S \cup {a}, y \in Blocks : Edge(h, x, y) => y \in S
    BY <1>1, ClosedByEdges
  <2>2. ASSUME NEW x \in T \cup {a}, NEW y \in Blocks, Edge(g, x, y) PROVE y \in T
    <3>1. CASE x # b /\ y # b
      BY <2>1, <2>2, <3>1 DEF IsBridged
    <3>2. CASE x # b /\ y = b
      BY <2>2, <3>2
    <3>3. CASE x = b
      <4>1. PICK z \in Around : Edge(g, z, b)
        BY <3>3
      <4>2. y # b
        BY <2>2, <3>3
      <4>3. Edge(h, z, y)
        BY <2>2, <3>3, <4>1, <4>2 DEF IsBridged
      <4>4. QED
        BY <2>1, <4>1, <4>2, <4>3
    <3>4. QED
      BY <3>1, <3>2, <3>3
  <2>3. T \in SUBSET Blocks /\ T \subseteq S \cup {b}
    OBVIOUS
  <2> HIDE DEF T
  <2>4. Closed(g, a, T)
    BY <2>2, <2>3, ClosedByEdges
  <2>5. QED
    BY <2>3, <2>4
<1>2. ASSUME NEW S \in SUBSET Blocks, Closed(g, a, S)
      PROVE  \E T \in SUBSET Blocks : Closed(h, a, T) /\ T \subseteq S \cup {b}
  <2>1. \A x \in S \cup {a}, y \in Blocks : Edge(g, x, y) => y \in S
    BY <1>2, ClosedByEdges
  <2>2. \A x \in S \cup {a}, y \in Blocks : Edge(h, x, y) => y \in S
    BY <2>1 DEF IsBridged
  <2>3. Closed(h, a, S)
    BY <2>2, ClosedByEdges
  <2>4. QED
    BY <2>3
<1>3. ReachedFrom(g, a) \ {b} \subseteq ReachedFrom(h, a)
  BY <1>1, ReachedIn
<1>4. ReachedFrom(h, a) \ {b} \subseteq ReachedFrom(g, a)
  BY <1>2, ReachedIn
<1>5. QED
  BY <1>3, <1>4

(* In h, block into, which has no edges in g, is put behind from. *)
IsFresh(g, into) == \A x \in Blocks : ~ Edge(g, into, x) /\ ~ Edge(g, x, into)

IsSplit(g, h, from, into) ==
    \A x, y \in Blocks :
        Edge(h, x, y) <=> \/ x = from /\ y = into
                          \/ x = into /\ Edge(g, from, y)
                          \/ x \notin {from, into} /\ Edge(g, x, y)

LEMMA SplitFlow ==
    ASSUME NEW g, NEW h, NEW from \in Blocks, NEW into \in Blocks, from # into,
           IsFresh(g, into), IsSplit(g, h, from, into)
    PROVE  \A a \in Blocks \ {into} :
               ReachedFrom(g, a) \cap (Blocks \ {into}) = ReachedFrom(h, a) \cap (Blocks \ {into})
<1> SUFFICES ASSUME NEW a \in Blocks, a # into
             PROVE  ReachedFrom(g, a) \cap (Blocks \ {into}) =
                        ReachedFrom(h, a) \cap (Blocks \ {into})
  OBVIOUS
<1>1. ASSUME NEW S \in SUBSET Blocks, Closed(h, a, S)
      PROVE  \E T \in SUBSET Blocks : Closed(g, a, T) /\ T \subseteq S \cup {into}
  <2>1. \A x \in S \cup {a}, y \in Blocks : Edge(h, x, y) => y \in S
    BY <1>1, ClosedByEdges
  <2>2. ASSUME NEW x \in S \cup {a}, NEW y \in Blocks, Edge(g, x, y) PROVE y \in S
    <3>1. CASE x = from
      <4>1. Edge(h, from, into) /\ Edge(h, into, y)
        BY <2>2, <3>1 DEF IsSplit, IsFresh
      <4>2. into \in S
        BY <2>1, <3>1, <4>1
      <4>3. QED
        BY <2>1, <4>1, <4>2
    <3>2. CASE x # from
      BY <2>1, <2>2, <3>2 DEF IsSplit, IsFresh
    <3>3. QED
      BY <3>1, <3>2
  <2>3. Closed(g, a, S)
    BY <2>2, ClosedByEdges
  <2>4. QED
    BY <2>3
<1>2. ASSUME NEW S \in SUBSET Blocks, Closed(g, a, S)
      PROVE  \E T \in SUBSET Blocks : Closed(h, a, T) /\ T \subseteq S \cup {into}
  <2> DEFINE T == (S \ {into}) \cup { y \in {into} : from \in S \cup {a} }
  <2>1. \A x \in S \cup {a}, y \in Blocks : Edge(g, x, y) => y \in S
    BY <1>2, ClosedByEdges
  <2>2. ASSUME NEW x \in T \cup {a}, NEW y \in Blocks, Edge(h, x, y) PROVE y \in T
    <3>1. CASE x = from
      BY <2>2, <3>1 DEF IsSplit, IsFresh
    <3>2. CASE x = into
      BY <2>1, <2>2, <3>2 DEF IsSplit, IsFresh
    <3>3. CASE x \notin {from, into}
      BY <2>1, <2>2, <3>3 DEF IsSplit, IsFresh
    <3>4. QED
      BY <3>1, <3>2, <3>3
  <2>3. T \in SUBSET Blocks /\ T \subseteq S \cup {into}
    OBVIOUS
  <2> HIDE DEF T
  <2>4. Closed(h, a, T)
    BY <2>2, <2>3, ClosedByEdges
  <2>5. QED
    BY <2>3, <2>4
<1>3. ReachedFrom(g, a) \ {into} \subseteq ReachedFrom(h, a)
  BY <1>1, ReachedIn
<1>4. ReachedFrom(h, a) \ {into} \subseteq ReachedFrom(g, a)
  BY <1>2, ReachedIn
<1>5. QED
  BY <1>3, <1>4

(* The edges that removeEmpty leaves ... *)
LEMMA BridgedEdges ==
    ASSUME NEW l \in Lists, Mirrored(l), NEW b \in Blocks,
           NEW h, h = WithoutSuccessors(WithoutPredecessors(Bridged(l, b), b), b).succs
    PROVE  IsBridged(l.succs, h, b)
<1> SUFFICES ASSUME NEW x \in Blocks, NEW y \in Blocks
             PROVE  Edge(h, x, y) <=>
                        /\ x # b /\ y # b
                        /\ Edge(l.succs, x, y) \/ (Edge(l.succs, x, b) /\ Edge(l.succs, b, y))
  BY DEF IsBridged
<1> DEFINE m == Bridged(l, b)
           w == WithoutPredecessors(m, b)
           n == l.succs[x][y]
           p == l.succs[x][b]
           q == l.succs[b][y]
<1>1. n \in Nat /\ p \in Nat /\ q \in Nat /\ l.preds[b][x] = p
  BY DEF Lists, BlockList, Mirrored
<1>2. m.succs[x][y] = n + 2 * l.preds[b][x] * q
  BY DEF Bridged
<1>3. m.succs \in [Blocks -> BlockList]
  BY BridgedKeeps DEF Lists
<1> HIDE DEF m
<1>4. w.succs = [z \in Blocks |-> [m.succs[z] EXCEPT ![b] = 0]]
  BY DEF WithoutPredecessors
<1>5. w.succs[x][y] = IF y = b THEN 0 ELSE m.succs[x][y]
  BY <1>3, <1>4 DEF BlockList
<1> HIDE DEF w
<1>6. h = [w.succs EXCEPT ![b] = [z \in Blocks |-> 0]]
  BY DEF WithoutSuccessors, w, m
<1>7. h[x][y] = IF x = b THEN 0 ELSE w.succs[x][y]
  BY <1>4, <1>6
<1> HIDE DEF n, p, q
<1>8. n + 2 * p * q > 0 <=> n > 0 \/ (p > 0 /\ q > 0)
  <2>1. CASE p = 0
    BY <1>1, <2>1
  <2>2. CASE q = 0
    BY <1>1, <2>2
  <2>3. CASE p > 0 /\ q > 0
    <3>1. p * q \in Nat /\ p * q >= 1
      BY <1>1, <2>3
    <3>2. 2 * p * q = 2 * (p * q)
      BY <1>1
    <3>3. QED
      BY <1>1, <2>3, <3>1, <3>2
  <2>4. QED
    BY <1>1, <2>1, <2>2, <2>3
<1>9. QED
  BY <1>1, <1>2, <1>5, <1>7, <1>8 DEF Edge, n, p, q

(* ... and those that split leaves. *)
LEMMA HandedOverEdges ==
    ASSUME NEW l \in Lists, NEW from \in Blocks, NEW into \in Blocks, from # into,
           IsFresh(l.succs, into), NEW h, h = HandedOver(l, from, into).succs
    PROVE  IsSplit(l.succs, h, from, into)
<1> SUFFICES ASSUME NEW x \in Blocks, NEW y \in Blocks
             PROVE  Edge(h, x, y) <=> \/ x = from /\ y = into
                                      \/ x = into /\ Edge(l.succs, from, y)
                                      \/ x \notin {from, into} /\ Edge(l.succs, x, y)
  BY DEF IsSplit
<1> DEFINE moved == [succs |-> [l.succs EXCEPT ![into] =
                                   [c \in Blocks |-> @[c] + 2 * l.succs[from][c]]],
                     preds |-> [c \in Blocks |->
                                   [l.preds[c] EXCEPT ![into] = @ + 2 * l.succs[from][c]]]]
           w == WithoutSuccessors(moved, from)
<1>1. h = Connect(w, from, into, 2).succs
  BY DEF HandedOver
<1>2. \A u, v \in Blocks : l.succs[u][v] \in Nat
  BY DEF Lists, BlockList
<1>3. l.succs \in [Blocks -> BlockList]
  BY DEF Lists
<1>4. moved.succs[x][y] = IF x = into THEN l.succs[x][y] + 2 * l.succs[from][y] ELSE l.succs[x][y]
  BY <1>3
<1>5. moved.succs \in [Blocks -> BlockList]
  BY <1>2, <1>3 DEF BlockList
<1> HIDE DEF moved
<1>6. w.succs = [moved.succs EXCEPT ![from] = [z \in Blocks |-> 0]]
  BY DEF WithoutSuccessors
<1>7. w.succs \in [Blocks -> BlockList]
  BY <1>5, <1>6 DEF BlockList
<1>8. w.succs[x][y] = IF x = from THEN 0 ELSE moved.succs[x][y]
  BY <1>5, <1>6
<1> HIDE DEF w
<1>9. h = [w.succs EXCEPT ![from][into] = @ + 2]
  BY <1>1 DEF Connect
<1>10. h[x][y] = IF x = from /\ y = into THEN w.succs[x][y] + 2 ELSE w.succs[x][y]
  BY <1>7, <1>9 DEF BlockList
<1>11. QED
  BY <1>2, <1>4, <1>8, <1>10 DEF Edge, IsFresh

(* Splitting a block, and taking out an empty one, keep the flow among the *)
(* others, in whatever graph the operations before have left. *)
THEOREM FlowStays == Spec => FlowKept
<1>1. ASSUME IInv, Next PROVE KeepsFlow
  <2>1. lists \in Lists /\ (~ broken => Mirrored(lists))
    BY <1>1 DEF IInv, TypeOK, EdgesMirrored
  <2>2. ASSUME NEW b \in Blocks, RemoveEmpty(b), ~ broken' PROVE SameFlow(Blocks \ {b})
    <3>1. /\ ~ broken /\ ~ Edge(lists.succs, b, b)
          /\ lists' = WithoutSuccessors(WithoutPredecessors(Bridged(lists, b), b), b)
      BY <2>2 DEF RemoveEmpty, Call, In, Edge
    <3>2. IsBridged(lists.succs, lists'.succs, b)
      BY <2>1, <3>1, BridgedEdges
    <3>3. QED
      BY <3>1, <3>2, BridgedFlow DEF SameFlow
  <2>3. ASSUME NEW from \in Blocks, NEW into \in Blocks, NEW offset \in Offsets,
               Split(from, into, offset),
               \A a \in Blocks : ~ In(lists.succs[into], a) /\ ~ In(lists.preds[into], a)
        PROVE  SameFlow(Blocks \ {into})
    <3>1. /\ ~ broken /\ from # into
          /\ lists' = lists \/ lists' = HandedOver(lists, from, into)
      BY <2>3 DEF Split, Call
    <3>2. IsFresh(lists.succs, into)
      BY <2>1, <2>3, <3>1 DEF Mirrored, In, Edge, IsFresh
    <3>3. CASE lists' = lists
      BY <3>3 DEF SameFlow
    <3>4. CASE lists' = HandedOver(lists, from, into)
      <4>1. IsSplit(lists.succs, lists'.succs, from, into)
        BY <2>1, <3>1, <3>2, <3>4, HandedOverEdges
      <4>2. QED
        BY <3>1, <3>2, <4>1, SplitFlow DEF SameFlow
    <3>5. QED
      BY <3>1, <3>3, <3>4
  <2>4. QED
    BY <2>2, <2>3 DEF KeepsFlow
<1>2. IInv /\ [Next]_vars => [KeepsFlow]_vars
  BY <1>1
<1>3. QED
  BY <1>2, InitIInv, StepIInv, PTL DEF Spec, FlowKept
=============================================================================
