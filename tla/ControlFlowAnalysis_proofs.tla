--------------------- MODULE ControlFlowAnalysis_proofs ---------------------
(***************************************************************************)
(* Theorems about ControlFlowAnalysis, for every function the decoder may  *)
(* deliver: the types, that what is flagged dead is dead, that no transfer *)
(* of control an examined instruction makes is lost, which edges there are *)
(* besides, and that blocks of code that is not dead have predecessors.    *)
(* What findLeaders not looking at the first instruction breaks is left    *)
(* out by name (FirstHarmless).                                            *)
(*                                                                         *)
(* The argument.  Blocks are numbered in the order of the code without a   *)
(* gap (Counted), every target of a jump but the first instruction's and   *)
(* every instruction after a condition is a leader (LeadersFound), and a   *)
(* leader begins a block.  So an instruction is only flagged dead if an    *)
(* earlier one of the same block jumps (DeadAfterJump), and the flow into  *)
(* a block enters it at its first instruction.                             *)
(***************************************************************************)
EXTENDS ControlFlowAnalysis, SequenceTheorems, WellFoundedInduction, TLAPS

(* How far each part of the pass has come, and what it has not begun. *)
Stages ==
    /\ pc = "leaders" =>
          pos \in 2..(Len(code) + 1) /\ count = 0 /\ bb = <<>> /\ dead = {} /\ edges = <<>>
    /\ pc = "build" => Len(bb) = pos - 1 /\ edges = <<<<0, 1>>>>
    /\ pc \in {"connect", "done"} => Len(bb) = Len(code)
    /\ pc = "connect" => pos <= count - 1

(* The leaders are the first instruction and those the jumps looked at     *)
(* make; all but the first are looked at.                                  *)
LeadersFound ==
    /\ 1 \in leaders
    /\ \A i \in 2..Len(code) : pc # "leaders" \/ i < pos => NewLeaders(i) \subseteq leaders
    /\ \A l \in leaders : l # 1 => \E i \in 2..Len(code) : l \in NewLeaders(i)

(* The number of the last block that has instructions. *)
LastBlock == IF pc = "build" THEN count - 1 ELSE count - 2

(* Block numbers begin with 1 and grow with the code, at each leader but   *)
(* the first.                                                              *)
Ascending ==
    /\ \A i \in 1..Len(bb) : bb[i] <= i
    /\ \A i, j \in 1..Len(bb) : i < j => bb[i] <= bb[j]
    /\ \A i, j \in 1..Len(bb) : i < j /\ j \in leaders => bb[i] < bb[j]
    /\ \A i, j \in 1..Len(bb) : j = i + 1 /\ bb[i] < bb[j] => j \in leaders

(* The blocks are numbered without a gap. *)
Counted ==
    /\ pc = "build" /\ bb = <<>> => count = 2
    /\ pc # "leaders" /\ bb # <<>> =>
          /\ bb[Len(bb)] = LastBlock
          /\ \A b \in 1..LastBlock : \E i \in 1..Len(bb) : bb[i] = b

(* Instruction j leaves the block of instruction d before d is reached. *)
Cuts(j, d) == j < d /\ bb[j] = bb[d] /\ IsJump(code[j]) /\ ~ IsTryContext(code[j])

DeadAfterJump ==
    \A d \in Insns : d \in dead <=> d \in 1..Len(bb) /\ \E j \in 1..Len(bb) : Cuts(j, d)

Elements(s) == { s[k] : k \in 1..Len(s) }

(* The edges a block is to have: those of its first jump or, without one,  *)
(* of its last instruction.                                                *)
BlockEdges(b) == IF JumpsIn(b) # {} THEN JumpEdges(b, Least(JumpsIn(b))) ELSE FallThrough(b)

(* The start and the end have their edges, and so have the blocks passed. *)
Connected ==
    /\ pc \in {"connect", "done"} => {<<0, 1>>, <<count - 2, count - 1>>} \subseteq EdgeSet
    /\ pc = "connect" => \A b \in 1..(pos - 1) : Elements(BlockEdges(b)) \subseteq EdgeSet
    /\ pc = "done" => \A b \in 1..(count - 2) : Elements(BlockEdges(b)) \subseteq EdgeSet

(* EdgesAreFlow, while the edges are added. *)
Justified(e) ==
    \/ e = <<0, 1>>
    \/ e = <<count - 2, count - 1>>
    \/ \E t \in Transfers \cup Spurious : e = <<bb[t[1]], bb[t[2]]>>

EdgesJustified == pc \in {"connect", "done"} => \A e \in EdgeSet : Justified(e)

IInv ==
    /\ TypeOK /\ Stages /\ LeadersFound /\ Ascending /\ Counted /\ DeadAfterJump
    /\ Connected /\ EdgesJustified

-----------------------------------------------------------------------------
(* A set of numbers has a least element, ...                               *)
LEMMA LeastExists ==
    ASSUME NEW S \in SUBSET Nat, S # {}
    PROVE  Least(S) \in S /\ \A k \in S : Least(S) <= k
<1> DEFINE R == OpToRel(<, Nat)
<1>1. IsWellFoundedOn(R, Nat)
  BY NatLessThanWellFounded
<1>2. \A x, y \in Nat : y < x => <<y, x>> \in R
  BY DEF OpToRel
<1> HIDE DEF R
<1>3. PICK m \in S : \A y \in S : ~ (<<y, m>> \in R)
  BY <1>1, WFMin, Zenon
<1>4. \A k \in S : ~ (k < m)
  BY <1>2, <1>3, Zenon
<1>5. \A k \in S : m <= k
  BY <1>4
<1>6. QED
  BY <1>5 DEF Least

(* ... and a greatest one if it is bounded. *)
LEMMA GreatestExists ==
    ASSUME NEW n \in Nat, NEW S \in SUBSET (1..n), S # {}
    PROVE  Greatest(S) \in S /\ \A k \in S : k <= Greatest(S)
<1> DEFINE T == { n - k : k \in S }
<1>1. T \in SUBSET Nat /\ T # {}
  OBVIOUS
<1>2. Least(T) \in T /\ \A t \in T : Least(T) <= t
  BY <1>1, LeastExists
<1>3. PICK m \in S : Least(T) = n - m
  BY <1>2
<1>4. \A k \in S : n - m <= n - k
  BY <1>2, <1>3
<1>5. \A k \in S : k <= m
  BY <1>4
<1>6. QED
  BY <1>5 DEF Greatest

LEMMA ElementsOfConcat ==
    ASSUME NEW T, NEW s \in Seq(T), NEW t \in Seq(T)
    PROVE  s \o t \in Seq(T) /\ Elements(s \o t) = Elements(s) \cup Elements(t)
<1>1. /\ s \o t \in Seq(T)
      /\ Len(s \o t) = Len(s) + Len(t)
      /\ \A i \in 1..Len(s) : (s \o t)[i] = s[i]
      /\ \A i \in 1..Len(t) : (s \o t)[Len(s) + i] = t[i]
  BY ConcatProperties
<1>2. Len(s) \in Nat /\ Len(t) \in Nat
  OBVIOUS
<1>3. \A i \in 1..(Len(s) + Len(t)) :
         i \in 1..Len(s) \/ \E k \in 1..Len(t) : i = Len(s) + k
  <2>1. TAKE i \in 1..(Len(s) + Len(t))
  <2>2. CASE i <= Len(s)
    BY <1>2, <2>2
  <2>3. CASE i > Len(s)
    <3>1. i - Len(s) \in 1..Len(t) /\ i = Len(s) + (i - Len(s))
      BY <1>2, <2>3
    <3>2. QED
      BY <3>1
  <2>4. QED
    BY <1>2, <2>2, <2>3
<1>4. Elements(s \o t) \subseteq Elements(s) \cup Elements(t)
  BY <1>1, <1>3 DEF Elements
<1>5. \A i \in 1..Len(s) : i \in 1..Len(s \o t)
  BY <1>1, <1>2
<1>6. \A i \in 1..Len(t) : Len(s) + i \in 1..Len(s \o t)
  BY <1>1, <1>2
<1>7. Elements(s) \subseteq Elements(s \o t) /\ Elements(t) \subseteq Elements(s \o t)
  BY <1>1, <1>5, <1>6 DEF Elements
<1>8. QED
  BY <1>1, <1>4, <1>7

LEMMA ElementsOfOne ==
    ASSUME NEW e
    PROVE  Elements(<<e>>) = {e}
  BY DEF Elements

LEMMA ElementsOfTwo ==
    ASSUME NEW d, NEW e
    PROVE  Elements(<<d>> \o <<e>>) = {d, e}
<1> DEFINE s == <<d>>
           t == <<e>>
           T == {d, e}
<1>1. s \in Seq(T) /\ t \in Seq(T)
  OBVIOUS
<1>2. Elements(s) = {d} /\ Elements(t) = {e}
  BY ElementsOfOne
<1> HIDE DEF s, t, T
<1>3. Elements(s \o t) = {d} \cup {e}
  BY <1>1, <1>2, ElementsOfConcat
<1>4. QED
  BY <1>3 DEF s, t

LEMMA ElementsOfNone == Elements(<<>>) = {}
  BY DEF Elements

LEMMA ElementsOfAppend ==
    ASSUME NEW T, NEW s \in Seq(T), NEW e \in T
    PROVE  Append(s, e) \in Seq(T) /\ Elements(Append(s, e)) = Elements(s) \cup {e}
<1>1. /\ Append(s, e) \in Seq(T)
      /\ Len(Append(s, e)) = Len(s) + 1
      /\ \A i \in 1..Len(s) : Append(s, e)[i] = s[i]
      /\ Append(s, e)[Len(s) + 1] = e
      /\ Len(s) \in Nat
  OBVIOUS
<1>2. 1..(Len(s) + 1) = (1..Len(s)) \cup {Len(s) + 1}
  BY <1>1
<1>3. QED
  BY <1>1, <1>2 DEF Elements

(* What IsCode gives for single instructions: where control goes is in the *)
(* function. *)
LEMMA CodeFacts ==
    ASSUME IsCode(code)
    PROVE  /\ Len(code) \in Nat \ {0}
           /\ \A i \in Insns :
                /\ code[i] \in Ins
                /\ IsJump(code[i]) => i + 1 \in Insns /\ code[i].target \in Insns
                /\ ~ IsJump(code[i]) => code[i].kind \in {"plain", "exit"}
                /\ code[i].kind = "try" =>
                     code[i].target - 1 \in Insns /\ code[code[i].target].target \in Insns
                /\ Flow(i) \subseteq Insns
                /\ NewLeaders(i) \subseteq Insns
<1>1. code \in Seq(Ins) /\ Len(code) \in Nat \ {0} /\ Len(code) \in Insns
  <2>1. code \in Seq(Ins) /\ code # <<>>
    BY DEF IsCode
  <2>2. Len(code) \in Nat /\ Len(code) # 0
    BY <2>1, EmptySeq
  <2>3. QED
    BY <2>1, <2>2 DEF Insns
<1>2. ASSUME NEW i \in Insns
      PROVE  /\ code[i] \in Ins
             /\ IsJump(code[i]) => i + 1 \in Insns /\ code[i].target \in Insns
             /\ ~ IsJump(code[i]) => code[i].kind \in {"plain", "exit"}
             /\ code[i].kind = "try" =>
                  code[i].target - 1 \in Insns /\ code[code[i].target].target \in Insns
             /\ Flow(i) \subseteq Insns
             /\ NewLeaders(i) \subseteq Insns
  <2>1. code[i] \in Ins /\ i \in 1..Len(code)
    BY <1>1 DEF Insns
  <2>2. IsJump(code[i]) => i + 1 \in Insns /\ code[i].target \in Insns
    <3>1. IsJump(code[i]) => i # Len(code)
      BY DEF IsCode, IsJump
    <3>2. IsJump(code[i]) => code[i].target \in Insns
      BY <2>1 DEF IsCode, Insns
    <3>3. QED
      BY <1>1, <2>1, <3>1, <3>2 DEF Insns
  <2>3. ~ IsJump(code[i]) => code[i].kind \in {"plain", "exit"}
    BY DEF IsJump
  <2>4. code[i].kind = "try" =>
             code[i].target - 1 \in Insns /\ code[code[i].target].target \in Insns
    <3> SUFFICES ASSUME code[i].kind = "try"
                 PROVE  code[i].target - 1 \in Insns /\ code[code[i].target].target \in Insns
      OBVIOUS
    <3>1. code[i].target \in Insns /\ code[i].target > i
          /\ code[code[i].target].kind = "catch"
      BY <2>1, <2>2 DEF IsCode, IsJump
    <3>2. code[code[i].target].target \in 1..Len(code)
      BY <3>1 DEF IsCode, IsJump, Insns
    <3>3. QED
      BY <1>1, <2>1, <3>1, <3>2 DEF Insns
  <2>5. Flow(i) \subseteq Insns
    <3>2. IsJump(code[i]) => Flow(i) \subseteq {i + 1, code[i].target}
      BY <2>1 DEF Flow, IsJump, Ins, Kind
    <3>3. ~ IsJump(code[i]) => Flow(i) \subseteq IF i < Len(code) THEN {i + 1} ELSE {}
      BY <2>3 DEF Flow
    <3>4. QED
      BY <1>1, <2>1, <2>2, <3>2, <3>3 DEF Insns
  <2>6. NewLeaders(i) \subseteq Insns
    BY <2>2 DEF NewLeaders
  <2>7. QED
    BY <2>1, <2>2, <2>3, <2>4, <2>5, <2>6
<1>3. QED
  BY <1>1, <1>2

(* Blocks that have instructions are 1 to LastBlock. *)
LEMMA BlocksInRange ==
    ASSUME TypeOK, Stages, Ascending, Counted, pc \in {"connect", "done"}
    PROVE  /\ Len(bb) = Len(code) /\ DOMAIN bb = Insns
           /\ count \in Nat /\ count >= 3
           /\ \A i \in Insns : bb[i] \in 1..(count - 2)
           /\ \A b \in 1..(count - 2) : \E i \in Insns : bb[i] = b
<1>1. /\ Len(bb) = Len(code) /\ bb \in Seq(1..Len(code)) /\ Len(code) \in Nat \ {0}
      /\ count \in Nat
  BY CodeFacts DEF TypeOK, Stages
<1>2. bb # <<>> /\ DOMAIN bb = Insns /\ Len(bb) \in Insns
  BY <1>1 DEF Insns
<1>3. bb[Len(bb)] = count - 2 /\ \A b \in 1..(count - 2) : \E i \in Insns : bb[i] = b
  BY <1>1, <1>2 DEF Counted, LastBlock, Insns
<1>4. \A i \in Insns : bb[i] \in 1..Len(code)
  BY <1>1 DEF Insns
<1>5. \A i \in Insns : bb[i] <= count - 2
  BY <1>1, <1>2, <1>3, <1>4 DEF Ascending, Insns
<1>6. QED
  BY <1>1, <1>2, <1>3, <1>4, <1>5

-----------------------------------------------------------------------------
LEMMA InitIInv == Init => IInv
<1> SUFFICES ASSUME Init PROVE IInv
  OBVIOUS
<1>1. IsCode(code)
  BY CodesAssumption DEF Init
<1>2. Len(code) \in Nat \ {0} /\ Len(bb) = 0 /\ Len(edges) = 0
  BY <1>1, CodeFacts DEF Init
<1>3. TypeOK
  BY <1>1, <1>2 DEF Init, TypeOK, Insns
<1>4. Stages /\ Ascending /\ Counted /\ Connected /\ EdgesJustified
  BY <1>2 DEF Init, Stages, Ascending, Counted, Connected, EdgesJustified
<1>5. LeadersFound
  BY <1>2 DEF Init, LeadersFound
<1>6. DeadAfterJump
  BY <1>2 DEF Init, DeadAfterJump
<1>7. QED
  BY <1>3, <1>4, <1>5, <1>6 DEF IInv

LEMMA FindLeaderKeeps == IInv /\ FindLeader => IInv'
<1> SUFFICES ASSUME IInv, FindLeader PROVE IInv'
  OBVIOUS
<1> USE DEF IInv
<1>1. /\ pc = "leaders" /\ pc' = pc /\ code' = code /\ pos' = pos + 1
      /\ leaders' = leaders \cup NewLeaders(pos) /\ pos <= Len(code)
      /\ count' = count /\ bb' = bb /\ dead' = dead /\ edges' = edges
  BY DEF FindLeader
<1>2. pos \in 2..Len(code) /\ count = 0 /\ bb = <<>> /\ dead = {} /\ edges = <<>> /\ Len(code) \in Nat
      /\ NewLeaders(pos) \subseteq Insns
  BY <1>1, CodeFacts DEF Stages, TypeOK, Insns
<1>3. \A i : NewLeaders(i)' = NewLeaders(i)
  BY <1>1 DEF NewLeaders
<1>4. TypeOK'
  <2>1. pos' \in 1..(Len(code) + 1)
    BY <1>1, <1>2
  <2>2. leaders' \subseteq Insns
    BY <1>1, <1>2 DEF TypeOK
  <2>3. Insns' = Insns
    BY <1>1 DEF Insns
  <2> HIDE DEF IInv
  <2>4. QED
    BY <1>1, <2>1, <2>2, <2>3, IInv DEF TypeOK, IInv
<1>5. Stages' /\ Ascending' /\ Counted' /\ Connected' /\ EdgesJustified'
  BY <1>1, <1>2 DEF Stages, Ascending, Counted, Connected, EdgesJustified
<1>6. LeadersFound'
  <2>1. \A i \in 2..Len(code) : i < pos + 1 => i < pos \/ i = pos
    BY <1>2
  <2>2. \A i \in 2..Len(code) : i < pos + 1 => NewLeaders(i) \subseteq leaders'
    BY <1>1, <2>1 DEF LeadersFound
  <2>3. \A l \in leaders' : l # 1 => \E i \in 2..Len(code) : l \in NewLeaders(i)
    BY <1>1, <1>2 DEF LeadersFound
  <2>4. QED
    BY <1>1, <1>3, <2>2, <2>3 DEF LeadersFound
<1>7. DeadAfterJump'
  BY <1>1, <1>2 DEF DeadAfterJump, Insns
<1>8. QED
  BY <1>4, <1>5, <1>6, <1>7

LEMMA BeginBlocksKeeps == IInv /\ BeginBlocks => IInv'
<1> SUFFICES ASSUME IInv, BeginBlocks PROVE IInv'
  OBVIOUS
<1> USE DEF IInv
<1>1. /\ pc = "leaders" /\ pc' = "build" /\ code' = code /\ pos' = 1 /\ pos > Len(code)
      /\ leaders' = leaders /\ count' = 2 /\ bb' = bb /\ dead' = dead
      /\ edges' = <<<<0, 1>>>>
  BY DEF BeginBlocks
<1>2. /\ pos = Len(code) + 1 /\ bb = <<>> /\ Len(bb) = 0 /\ dead = {}
      /\ Len(code) \in Nat \ {0}
  BY <1>1, CodeFacts DEF Stages, TypeOK
<1>3. \A i : NewLeaders(i)' = NewLeaders(i)
  BY <1>1 DEF NewLeaders
<1>4. TypeOK'
  BY <1>1, <1>2 DEF TypeOK, Insns
<1>5. Stages' /\ Ascending' /\ Counted' /\ Connected' /\ EdgesJustified'
  BY <1>1, <1>2 DEF Stages, Ascending, Counted, Connected, EdgesJustified
<1>6. LeadersFound'
  <2>1. \A i \in 2..Len(code) : i < pos
    BY <1>2
  <2>2. QED
    BY <1>1, <1>3, <2>1 DEF LeadersFound
<1>7. DeadAfterJump'
  BY <1>1, <1>2 DEF DeadAfterJump, Insns
<1>8. QED
  BY <1>4, <1>5, <1>6, <1>7

LEMMA BuildBlockKeeps == IInv /\ BuildBlock => IInv'
<1> SUFFICES ASSUME IInv, BuildBlock PROVE IInv'
  OBVIOUS
<1> DEFINE new == count' - 1
<1>1. /\ pc = "build" /\ pc' = pc /\ code' = code /\ pos' = pos + 1 /\ pos <= Len(code)
      /\ count' = (IF Opens(pos) THEN count + 1 ELSE count)
      /\ bb' = Append(bb, new)
      /\ dead' = (IF HasJump(new) THEN dead \cup {pos} ELSE dead)
      /\ leaders' = leaders /\ edges' = edges
  BY DEF BuildBlock
<1>2. /\ TypeOK /\ Stages /\ LeadersFound /\ Ascending /\ Counted /\ DeadAfterJump
      /\ Connected /\ EdgesJustified
  BY DEF IInv
<1>3. /\ Len(code) \in Nat \ {0} /\ bb \in Seq(1..Len(code))
      /\ Len(bb) \in Nat /\ pos = Len(bb) + 1 /\ pos \in Insns /\ count \in Nat
      /\ pos \in Nat
      /\ DOMAIN bb = 1..Len(bb)
      /\ \A i \in 1..Len(bb) : bb[i] \in 1..Len(code)
  <2>1. Len(code) \in Nat \ {0} /\ bb \in Seq(1..Len(code)) /\ count \in Nat
        /\ pos \in 1..(Len(code) + 1) /\ Len(bb) = pos - 1
    BY <1>1, <1>2, CodeFacts DEF TypeOK, Stages
  <2>2. QED
    BY <1>1, <2>1 DEF Insns
<1>4. \A i \in 1..Len(bb) : bb[i] <= count - 1
  <2>1. CASE bb = <<>>
    BY <2>1
  <2>2. CASE bb # <<>>
    <3>1. Len(bb) \in 1..Len(bb) /\ bb[Len(bb)] = count - 1
      BY <1>1, <1>2, <1>3, <2>2 DEF Counted, LastBlock
    <3>2. QED
      BY <1>2, <1>3, <3>1 DEF Ascending
  <2>3. QED
    BY <2>1, <2>2
<1>5. /\ new \in 1..pos
      /\ Opens(pos) => new = count
      /\ ~ Opens(pos) => new = count - 1
      /\ count - 1 \in 1..new
  <2>1. CASE bb = <<>>
    <3>1. pos = 1 /\ count = 2
      BY <1>1, <1>2, <1>3, <2>1 DEF Counted
    <3>2. ~ Opens(pos)
      BY <3>1 DEF Opens
    <3>3. QED
      BY <1>1, <3>1, <3>2
  <2>2. CASE bb # <<>>
    <3>1. Len(bb) \in 1..Len(bb) /\ bb[Len(bb)] = count - 1
      BY <1>1, <1>2, <1>3, <2>2 DEF Counted, LastBlock
    <3>2. count - 1 \in 1..Len(bb)
      BY <1>2, <1>3, <3>1 DEF Ascending
    <3>3. QED
      BY <1>1, <1>3, <3>2
  <2>3. QED
    BY <2>1, <2>2
<1> HIDE DEF new
<1>6. /\ bb' \in Seq(1..Len(code)) /\ Len(bb') = pos
      /\ \A i \in 1..Len(bb) : bb'[i] = bb[i]
      /\ bb'[pos] = new
      /\ 1..pos = 1..Len(bb) \cup {pos}
  BY <1>1, <1>3, <1>5 DEF Insns
<1>7. TypeOK'
  <2>1. pos' \in 1..(Len(code) + 1)
    BY <1>1, <1>3
  <2>2. count' \in 0..(Len(code) + 2)
    BY <1>1, <1>3, <1>5 DEF new
  <2>3. dead' \subseteq Insns
    BY <1>1, <1>2, <1>3 DEF TypeOK
  <2>4. edges \in Seq((0..count') \X (0..count'))
    <3>1. edges = <<<<0, 1>>>>
      BY <1>1, <1>2 DEF Stages
    <3>2. <<0, 1>> \in (0..count') \X (0..count')
      BY <1>1, <1>3, <1>5
    <3>3. QED
      BY <3>1, <3>2
  <2>5. Insns' = Insns /\ Len(bb') <= Len(code)
    BY <1>1, <1>6 DEF Insns
  <2>6. QED
    BY <1>1, <1>2, <1>6, <2>1, <2>2, <2>3, <2>4, <2>5 DEF TypeOK
<1>8. Stages'
  BY <1>1, <1>2, <1>3, <1>6 DEF Stages
<1>9. LeadersFound'
  <2>1. \A i : NewLeaders(i)' = NewLeaders(i)
    BY <1>1 DEF NewLeaders
  <2>2. QED
    BY <1>1, <1>2, <2>1 DEF LeadersFound
<1>10. Ascending'
  <2>1. \A i \in 1..pos : bb'[i] <= i
    <3>1. \A i \in 1..Len(bb) : bb'[i] <= i
      BY <1>2, <1>6 DEF Ascending
    <3>2. bb'[pos] <= pos
      BY <1>3, <1>5, <1>6
    <3>3. QED
      BY <1>6, <3>1, <3>2
  <2>2. \A i, j \in 1..pos : i < j => i \in 1..Len(bb) /\ (j \in 1..Len(bb) \/ j = pos)
    BY <1>3
  <2>3. \A i, j \in 1..pos : i < j => bb'[i] <= bb'[j]
    <3>1. \A i \in 1..Len(bb) : bb[i] <= new
      BY <1>3, <1>4, <1>5
    <3>2. QED
      BY <1>2, <1>6, <2>2, <3>1 DEF Ascending
  <2>4. \A i, j \in 1..pos : i < j /\ j \in leaders => bb'[i] < bb'[j]
    <3>1. \A i \in 1..Len(bb) : pos \in leaders => bb[i] < new
      <4>1. ASSUME NEW i \in 1..Len(bb), pos \in leaders PROVE bb[i] < new
        <5>1. Opens(pos)
          BY <1>3, <4>1 DEF Opens
        <5>2. QED
          BY <1>3, <1>4, <1>5, <5>1
      <4>2. QED
        BY <4>1
    <3>2. QED
      BY <1>2, <1>6, <2>2, <3>1 DEF Ascending
  <2>5. \A i, j \in 1..pos : j = i + 1 /\ bb'[i] < bb'[j] => j \in leaders
    <3>1. ASSUME NEW i \in 1..Len(bb), pos = i + 1, bb[i] < new PROVE pos \in leaders
      <4>1. i = Len(bb) /\ bb # <<>>
        <5>1. i = Len(bb)
          <6>1. Len(bb) \in Nat /\ pos = Len(bb) + 1
            BY <1>3
          <6>2. i \in 1..Len(bb) /\ pos = i + 1
            BY <3>1
          <6>3. QED
            BY <6>1, <6>2
        <5>2. bb = <<>> => Len(bb) = 0
          OBVIOUS
        <5>3. QED
          BY <3>1, <5>1, <5>2
      <4>2. bb[i] = count - 1
        BY <1>1, <1>2, <4>1 DEF Counted, LastBlock
      <4>3. Opens(pos)
        BY <1>3, <1>5, <3>1, <4>2
      <4>4. QED
        BY <4>3 DEF Opens
    <3>2. \A i, j \in 1..pos : j = i + 1 => i < j
      OBVIOUS
    <3>3. QED
      BY <1>2, <1>6, <2>2, <3>1, <3>2 DEF Ascending
  <2>6. QED
    BY <1>1, <1>6, <2>1, <2>3, <2>4, <2>5 DEF Ascending
<1>11. Counted'
  <2>1. bb' # <<>>
    BY <1>3, <1>6
  <2>2. bb'[Len(bb')] = new /\ LastBlock' = new
    BY <1>1, <1>6 DEF LastBlock, new
  <2>3. ASSUME NEW b \in 1..new PROVE \E i \in 1..pos : bb'[i] = b
    <3>1. CASE b = new
      BY <1>3, <1>6, <3>1
    <3>2. CASE b # new
      <4>1. b \in 1..(count - 1) /\ b < new
        BY <1>3, <1>5, <3>2
      <4>2. bb # <<>>
        <5>1. bb = <<>> => count = 2 /\ pos = 1
          BY <1>1, <1>2, <1>3 DEF Counted
        <5>2. QED
          BY <1>5, <4>1, <5>1
      <4>3. \E i \in 1..Len(bb) : bb[i] = b
        BY <1>1, <1>2, <4>1, <4>2 DEF Counted, LastBlock
      <4>4. QED
        BY <1>6, <4>3
    <3>3. QED
      BY <3>1, <3>2
  <2>4. QED
    BY <1>6, <2>1, <2>2, <2>3 DEF Counted
<1>12. DeadAfterJump'
  <2>1. ASSUME NEW d \in Insns
        PROVE  d \in dead' <=> d \in 1..pos /\ \E j \in 1..pos : Cuts(j, d)'
    <3>1. CASE d \in 1..Len(bb)
      <4>1. \A j \in 1..pos : j < d => j \in 1..Len(bb)
        BY <1>3, <3>1
      <4>2. \A j \in 1..Len(bb) : Cuts(j, d)' <=> Cuts(j, d)
        BY <1>1, <1>6, <3>1 DEF Cuts
      <4>3. d # pos
        BY <1>3, <3>1
      <4>4. d \in dead' <=> \E j \in 1..Len(bb) : Cuts(j, d)
        BY <1>1, <1>2, <3>1, <4>3 DEF DeadAfterJump
      <4>5. \A j \in 1..pos : Cuts(j, d)' => j < d
        BY DEF Cuts
      <4>6. QED
        BY <1>6, <3>1, <4>1, <4>2, <4>4, <4>5
    <3>2. CASE d = pos
      <4>1. \A j \in 1..Len(bb) : Cuts(j, d)' <=>
                bb[j] = new /\ IsJump(code[j]) /\ ~ IsTryContext(code[j])
        BY <1>1, <1>3, <1>6, <3>2 DEF Cuts
      <4>2. HasJump(new) <=> \E j \in 1..Len(bb) : Cuts(j, d)'
        BY <1>3, <4>1 DEF HasJump, BlockInsns
      <4>3. \A j \in 1..pos : j = pos => ~ Cuts(j, d)'
        BY <1>3, <3>2 DEF Cuts
      <4>4. d \notin dead
        BY <1>2, <1>3, <3>2 DEF DeadAfterJump
      <4>5. pos \in 1..pos
        BY <1>3 DEF Insns
      <4>6. d \in dead' <=> HasJump(new)
        BY <1>1, <3>2, <4>4
      <4>7. (\E j \in 1..pos : Cuts(j, d)') <=> \E j \in 1..Len(bb) : Cuts(j, d)'
        BY <1>6, <4>3
      <4>8. QED
        BY <3>2, <4>2, <4>5, <4>6, <4>7
    <3>3. CASE d \notin 1..pos
      BY <1>1, <1>2, <1>3, <1>6, <3>3 DEF DeadAfterJump
    <3>4. QED
      BY <1>6, <3>1, <3>2, <3>3
  <2>2. Insns' = Insns
    BY <1>1 DEF Insns
  <2>3. QED
    BY <1>6, <2>1, <2>2 DEF DeadAfterJump
<1>13. Connected' /\ EdgesJustified'
  BY <1>1 DEF Connected, EdgesJustified
<1>14. QED
  BY <1>7, <1>8, <1>9, <1>10, <1>11, <1>12, <1>13 DEF IInv

LEMMA EndBlocksKeeps == IInv /\ EndBlocks => IInv'
<1> SUFFICES ASSUME IInv, EndBlocks PROVE IInv'
  OBVIOUS
<1>1. /\ pc = "build" /\ pc' = "connect" /\ code' = code /\ pos' = 1 /\ pos > Len(code)
      /\ count' = count + 1 /\ edges' = Append(edges, <<count - 1, count>>)
      /\ bb' = bb /\ dead' = dead /\ leaders' = leaders
  BY DEF EndBlocks
<1>2. /\ TypeOK /\ Stages /\ LeadersFound /\ Ascending /\ Counted /\ DeadAfterJump
      /\ Connected /\ EdgesJustified
  BY DEF IInv
<1>3. /\ Len(code) \in Nat \ {0} /\ bb \in Seq(1..Len(code))
      /\ Len(bb) = Len(code) /\ bb # <<>> /\ count \in Nat
      /\ edges = <<<<0, 1>>>>
  <2>1. Len(code) \in Nat \ {0} /\ bb \in Seq(1..Len(code)) /\ count \in Nat
        /\ pos \in 1..(Len(code) + 1) /\ Len(bb) = pos - 1 /\ edges = <<<<0, 1>>>>
    BY <1>1, <1>2, CodeFacts DEF TypeOK, Stages
  <2>2. QED
    BY <1>1, <2>1
<1>4. bb[Len(bb)] = count - 1 /\ bb[Len(bb)] \in 1..Len(code)
  BY <1>1, <1>2, <1>3 DEF Counted, LastBlock
<1>5. /\ edges' \in Seq((0..count') \X (0..count'))
      /\ EdgeSet' = {<<0, 1>>, <<count - 1, count>>}
  <2>1. /\ <<0, 1>> \in (0..count') \X (0..count')
        /\ <<count - 1, count>> \in (0..count') \X (0..count')
    BY <1>1, <1>3, <1>4
  <2>2. edges \in Seq((0..count') \X (0..count')) /\ Elements(edges) = {<<0, 1>>}
    BY <1>3, <2>1, ElementsOfOne
  <2> DEFINE T == (0..count') \X (0..count')
             e == <<count - 1, count>>
  <2>3. edges \in Seq(T) /\ e \in T /\ edges' = Append(edges, e) /\ Elements(edges) = {<<0, 1>>}
    BY <1>1, <2>1, <2>2
  <2> HIDE DEF T, e
  <2>4. edges' \in Seq(T) /\ Elements(edges') = {<<0, 1>>} \cup {e}
    BY <2>3, ElementsOfAppend
  <2>5. EdgeSet' = Elements(edges')
    BY DEF EdgeSet, Elements
  <2>6. QED
    BY <2>4, <2>5 DEF T, e
<1>6. TypeOK'
  <2>1. Insns' = Insns /\ pos' \in 1..(Len(code) + 1) /\ count' \in 0..(Len(code) + 2)
    BY <1>1, <1>3, <1>4 DEF Insns
  <2>2. QED
    BY <1>1, <1>2, <1>5, <2>1 DEF TypeOK
<1>7. Stages'
  BY <1>1, <1>3, <1>4 DEF Stages
<1>8. LeadersFound'
  <2>1. \A i : NewLeaders(i)' = NewLeaders(i)
    BY <1>1 DEF NewLeaders
  <2>2. QED
    BY <1>1, <1>2, <2>1 DEF LeadersFound
<1>9. Ascending'
  BY <1>1, <1>2 DEF Ascending
<1>10. Counted'
  <2>1. LastBlock = count - 1 /\ LastBlock' = count - 1
    BY <1>1, <1>3 DEF LastBlock
  <2>2. QED
    BY <1>1, <1>2, <2>1 DEF Counted
<1>11. DeadAfterJump'
  <2>1. \A j, d : Cuts(j, d)' <=> Cuts(j, d)
    BY <1>1 DEF Cuts
  <2>2. Insns' = Insns
    BY <1>1 DEF Insns
  <2>3. QED
    BY <1>1, <1>2, <2>1, <2>2 DEF DeadAfterJump
<1>12. Connected'
  <2>1. count' - 2 = count - 1 /\ count' - 1 = count
    BY <1>1, <1>3
  <2>2. \A b : b \notin 1..(pos' - 1)
    BY <1>1
  <2>3. QED
    BY <1>1, <1>5, <2>1, <2>2 DEF Connected
<1>13. EdgesJustified'
  <2>1. count' - 2 = count - 1 /\ count' - 1 = count
    BY <1>1, <1>3
  <2>2. QED
    BY <1>5, <2>1 DEF EdgesJustified, Justified
<1>14. QED
  BY <1>6, <1>7, <1>8, <1>9, <1>10, <1>11, <1>12, <1>13 DEF IInv

(* The edges a block is to have lead to blocks, and each of them stands    *)
(* for a transfer of control or is one of the spurious ones. *)
LEMMA BlockEdgesFacts ==
    ASSUME TypeOK, Stages, Ascending, Counted, pc \in {"connect", "done"},
           NEW b \in 1..(count - 2)
    PROVE  /\ BlockEdges(b) \in Seq((0..count) \X (0..count))
           /\ \A e \in Elements(BlockEdges(b)) :
                 \E t \in Transfers \cup Spurious : e = <<bb[t[1]], bb[t[2]]>>
<1> DEFINE Edge == (0..count) \X (0..count)
           Edges(i, j) == << <<bb[i], bb[j]>> >>
<1>1. /\ Len(bb) = Len(code) /\ DOMAIN bb = Insns /\ count \in Nat
      /\ \A i \in Insns : bb[i] \in 1..(count - 2)
      /\ \E i \in Insns : bb[i] = b
  BY BlocksInRange
<1>2. /\ Len(code) \in Nat \ {0}
      /\ \A i \in Insns :
                /\ code[i] \in Ins
                /\ IsJump(code[i]) => i + 1 \in Insns /\ code[i].target \in Insns
                /\ ~ IsJump(code[i]) => code[i].kind \in {"plain", "exit"}
                /\ code[i].kind = "try" =>
                     code[i].target - 1 \in Insns /\ code[code[i].target].target \in Insns
  BY CodeFacts DEF TypeOK
<1>3. ASSUME NEW i \in Insns, NEW j \in Insns, <<i, j>> \in Transfers \cup Spurious
      PROVE  /\ Edges(i, j) \in Seq(Edge)
             /\ \A e \in Elements(Edges(i, j)) : \E t \in Transfers \cup Spurious : e = <<bb[t[1]], bb[t[2]]>>
  <2>1. <<bb[i], bb[j]>> \in Edge
    BY <1>1
  <2>2. Edges(i, j) \in Seq(Edge)
    BY <2>1
  <2>3. Elements(Edges(i, j)) = {<<bb[i], bb[j]>>}
    BY ElementsOfOne
  <2>4. \E t \in Transfers \cup Spurious : <<bb[i], bb[j]>> = <<bb[t[1]], bb[t[2]]>>
    <3>1. WITNESS <<i, j>> \in Transfers \cup Spurious
    <3>2. QED
      OBVIOUS
  <2>5. QED
    BY <2>2, <2>3, <2>4
<1>4. <<>> \in Seq(Edge) /\ Elements(<<>>) = {}
  BY ElementsOfNone
<1>5. \A i, j \in Insns : j \in Flow(i) => <<i, j>> \in Transfers
  BY DEF Transfers
<1>6. BlockInsns(b) \in SUBSET (1..Len(code)) /\ BlockInsns(b) # {}
  BY <1>1 DEF BlockInsns, Insns
<1>7. CASE JumpsIn(b) # {}
  <2> DEFINE i == Least(JumpsIn(b))
             target == code[i].target
             first == CASE code[i].kind = "cond" -> Edges(i, i + 1)
                        [] code[i].kind = "try"  -> Edges(target - 1, code[target].target)
                        [] OTHER -> <<>>
  <2>1. i \in JumpsIn(b)
    <3>1. JumpsIn(b) \in SUBSET Nat
      BY <1>2, <1>6 DEF JumpsIn
    <3>2. QED
      BY <1>7, <3>1, LeastExists
  <2>2. i \in Insns /\ bb[i] = b /\ IsJump(code[i]) /\ i + 1 \in Insns /\ target \in Insns
    BY <1>1, <1>2, <2>1 DEF JumpsIn, BlockInsns
  <2>3. BlockEdges(b) = first \o Edges(i, target)
    <3>1. BlockEdges(b) = JumpEdges(b, i)
      BY <1>7 DEF BlockEdges
    <3>2. JumpEdges(b, i) = first \o Edges(i, target)
      BY <2>2 DEF JumpEdges
    <3>3. QED
      BY <3>1, <3>2
  <2>4. target \in Flow(i)
    BY <1>2, <2>2 DEF Flow, Ins, Kind, IsJump
  <2>5. /\ first \in Seq(Edge)
        /\ \A e \in Elements(first) : \E t \in Transfers \cup Spurious : e = <<bb[t[1]], bb[t[2]]>>
    <3>1. CASE code[i].kind = "cond"
      <4>1. i + 1 \in Flow(i)
        BY <3>1 DEF Flow
      <4>2. first = Edges(i, i + 1)
        BY <3>1
      <4> HIDE DEF Edges, first, i
      <4>3. QED
        BY <1>3, <1>5, <2>2, <4>1, <4>2
    <3>2. CASE code[i].kind = "try"
      <4>1. target - 1 \in Insns /\ code[target].target \in Insns
        BY <1>2, <2>2, <3>2
      <4>2. <<target - 1, code[target].target>> \in Transfers \cup Spurious
        <5>1. i \in Tries /\ AroundCatch(i) = <<target - 1, code[target].target>>
          BY <2>2, <3>2 DEF Tries, AroundCatch
        <5> HIDE DEF i, target
        <5>2. CASE GoesOn(i)
          BY <5>1, <5>2 DEF Transfers
        <5>3. CASE ~ GoesOn(i)
          BY <5>1, <5>3 DEF Spurious
        <5>4. QED
          BY <5>2, <5>3
      <4>3. first = Edges(target - 1, code[target].target)
        BY <3>2
      <4> HIDE DEF Edges, first, i, target
      <4>4. QED
        BY <1>3, <4>1, <4>2, <4>3
    <3>3. CASE code[i].kind \notin {"cond", "try"}
      <4>1. first = <<>>
        BY <3>3
      <4> HIDE DEF first
      <4>2. QED
        BY <1>4, <4>1
    <3>4. QED
      BY <3>1, <3>2, <3>3
  <2>6. /\ Edges(i, target) \in Seq(Edge)
        /\ \A e \in Elements(Edges(i, target)) :
              \E t \in Transfers \cup Spurious : e = <<bb[t[1]], bb[t[2]]>>
    <3> HIDE DEF Edges, i, target
    <3>1. QED
      BY <1>3, <1>5, <2>2, <2>4
  <2> HIDE DEF Edges, first, i, target, Edge
  <2>7. /\ first \o Edges(i, target) \in Seq(Edge)
        /\ Elements(first \o Edges(i, target)) = Elements(first) \cup Elements(Edges(i, target))
    BY <2>5, <2>6, ElementsOfConcat
  <2>8. QED
    BY <2>3, <2>5, <2>6, <2>7 DEF Edge
<1>8. CASE JumpsIn(b) = {}
  <2> DEFINE last == Greatest(BlockInsns(b))
  <2>1. last \in BlockInsns(b)
    BY <1>2, <1>6, GreatestExists
  <2>2. last \in Insns /\ bb[last] = b /\ ~ IsJump(code[last])
    BY <1>1, <1>8, <2>1 DEF JumpsIn, BlockInsns
  <2>3. BlockEdges(b) = IF last < Len(code) THEN Edges(last, last + 1) ELSE <<>>
    BY <1>8, <2>2 DEF BlockEdges, FallThrough
  <2>4. \A k \in BlockInsns(b) : k <= last
    BY <1>2, <1>6, GreatestExists
  <2> HIDE DEF last
  <2>5. CASE last < Len(code)
    <3>1. last + 1 \in Insns /\ ~ (last + 1 <= last)
      BY <1>2, <2>2, <2>5 DEF Insns
    <3>2. bb[last] # bb[last + 1]
      BY <1>1, <2>2, <2>4, <3>1 DEF BlockInsns
    <3>3. <<last, last + 1>> \in Transfers \cup Spurious
      <4>1. CASE code[last].kind = "plain"
        BY <1>5, <2>2, <2>5, <3>1, <4>1 DEF Flow
      <4>2. CASE code[last].kind = "exit"
        BY <2>2, <2>5, <3>2, <4>2 DEF Spurious
      <4>3. QED
        BY <1>2, <2>2, <4>1, <4>2
    <3>4. BlockEdges(b) = Edges(last, last + 1)
      BY <2>3, <2>5
    <3> HIDE DEF Edges
    <3>5. QED
      BY <1>3, <2>2, <3>1, <3>3, <3>4
  <2>6. CASE ~ (last < Len(code))
    <3>1. BlockEdges(b) = <<>>
      BY <2>3, <2>6
    <3>2. QED
      BY <1>4, <3>1
  <2>7. QED
    BY <2>5, <2>6
<1>9. QED
  BY <1>7, <1>8

LEMMA ConnectBlockKeeps == IInv /\ ConnectBlock => IInv'
<1> SUFFICES ASSUME IInv, ConnectBlock PROVE IInv'
  OBVIOUS
<1> DEFINE new == BlockEdges(pos)
<1>1. /\ pc = "connect" /\ pc' = pc /\ code' = code /\ pos' = pos + 1 /\ pos < count - 1
      /\ edges' = edges \o new
      /\ count' = count /\ bb' = bb /\ dead' = dead /\ leaders' = leaders
  BY DEF ConnectBlock, BlockEdges
<1>2. /\ TypeOK /\ Stages /\ LeadersFound /\ Ascending /\ Counted /\ DeadAfterJump
      /\ Connected /\ EdgesJustified
  BY DEF IInv
<1>3. pos \in 1..(count - 2) /\ pos \in 1..(Len(code) + 1) /\ count \in 0..(Len(code) + 2)
      /\ Len(code) \in Nat
  BY <1>1, <1>2, CodeFacts DEF TypeOK
<1>4. /\ new \in Seq((0..count) \X (0..count))
      /\ \A e \in Elements(new) : \E t \in Transfers \cup Spurious : e = <<bb[t[1]], bb[t[2]]>>
  BY <1>1, <1>2, <1>3, BlockEdgesFacts
<1> HIDE DEF new
<1>5. /\ edges' \in Seq((0..count) \X (0..count))
      /\ EdgeSet' = EdgeSet \cup Elements(new)
  <2> DEFINE T == (0..count) \X (0..count)
  <2>1. edges \in Seq(T) /\ new \in Seq(T)
    BY <1>2, <1>4 DEF TypeOK
  <2> HIDE DEF T
  <2>2. edges \o new \in Seq(T) /\ Elements(edges \o new) = Elements(edges) \cup Elements(new)
    BY <2>1, ElementsOfConcat
  <2>3. EdgeSet' = Elements(edges') /\ EdgeSet = Elements(edges)
    BY DEF EdgeSet, Elements
  <2>4. QED
    BY <1>1, <2>2, <2>3 DEF T
<1>6. TypeOK'
  <2>1. Insns' = Insns /\ pos' \in 1..(Len(code) + 1)
    BY <1>1, <1>3 DEF Insns
  <2>2. QED
    BY <1>1, <1>2, <1>5, <2>1 DEF TypeOK
<1>7. Stages'
  BY <1>1, <1>2, <1>3 DEF Stages
<1>8. LeadersFound'
  <2>1. \A i : NewLeaders(i)' = NewLeaders(i)
    BY <1>1 DEF NewLeaders
  <2>2. QED
    BY <1>1, <1>2, <2>1 DEF LeadersFound
<1>9. Ascending' /\ Counted'
  BY <1>1, <1>2 DEF Ascending, Counted, LastBlock
<1>10. DeadAfterJump'
  <2>1. \A j, d : Cuts(j, d)' <=> Cuts(j, d)
    BY <1>1 DEF Cuts
  <2>2. Insns' = Insns
    BY <1>1 DEF Insns
  <2>3. QED
    BY <1>1, <1>2, <2>1, <2>2 DEF DeadAfterJump
<1>11. Connected'
  <2>1. \A b : BlockEdges(b)' = BlockEdges(b)
    BY <1>1 DEF BlockEdges, JumpEdges, FallThrough, JumpsIn, BlockInsns
  <2>2. \A b \in 1..(pos' - 1) : b \in 1..(pos - 1) \/ b = pos
    BY <1>1, <1>3
  <2>3. \A b \in 1..(pos' - 1) : Elements(BlockEdges(b)) \subseteq EdgeSet'
    BY <1>1, <1>2, <1>5, <2>2 DEF Connected, new
  <2>4. \A b : Elements(BlockEdges(b))' = Elements(BlockEdges(b))
    BY <2>1 DEF Elements
  <2>5. {<<0, 1>>, <<count - 2, count - 1>>} \subseteq EdgeSet'
    BY <1>1, <1>2, <1>5 DEF Connected
  <2>6. QED
    BY <1>1, <2>3, <2>4, <2>5 DEF Connected
<1>12. EdgesJustified'
  <2>1. (Transfers \cup Spurious)' = Transfers \cup Spurious
    BY <1>1 DEF Transfers, Spurious, Tries, AroundCatch, GoesOn, Flow, Insns
  <2>2. \A e : Justified(e)' <=> Justified(e)
    BY <1>1, <2>1 DEF Justified
  <2>3. \A e \in Elements(new) : Justified(e)
    BY <1>4 DEF Justified
  <2>4. QED
    BY <1>1, <1>2, <1>5, <2>2, <2>3 DEF EdgesJustified
<1>13. QED
  BY <1>6, <1>7, <1>8, <1>9, <1>10, <1>11, <1>12 DEF IInv

LEMMA FinishKeeps == IInv /\ Finish => IInv'
<1> SUFFICES ASSUME IInv, Finish PROVE IInv'
  OBVIOUS
<1>1. /\ pc = "connect" /\ pc' = "done" /\ pos = count - 1
      /\ UNCHANGED <<code, leaders, pos, count, bb, dead, edges>>
  BY DEF Finish
<1>2. /\ TypeOK /\ Stages /\ LeadersFound /\ Ascending /\ Counted /\ DeadAfterJump
      /\ Connected /\ EdgesJustified
  BY DEF IInv
<1>3. Insns' = Insns /\ (\A i : NewLeaders(i)' = NewLeaders(i))
      /\ (\A j, d : Cuts(j, d)' <=> Cuts(j, d)) /\ EdgeSet' = EdgeSet
  BY <1>1 DEF Insns, NewLeaders, Cuts, EdgeSet
<1>4. TypeOK' /\ LeadersFound' /\ DeadAfterJump'
  BY <1>1, <1>2, <1>3 DEF TypeOK, LeadersFound, DeadAfterJump
<1>5. Stages' /\ Ascending' /\ Counted'
  BY <1>1, <1>2 DEF Stages, Ascending, Counted, LastBlock
<1>6. Connected'
  <2>1. \A b : BlockEdges(b)' = BlockEdges(b)
    BY <1>1 DEF BlockEdges, JumpEdges, FallThrough, JumpsIn, BlockInsns
  <2>2. \A b : Elements(BlockEdges(b))' = Elements(BlockEdges(b))
    BY <2>1 DEF Elements
  <2>3. count \in Nat /\ pos - 1 = count - 2
    BY <1>1, <1>2, CodeFacts DEF TypeOK
  <2>4. \A b \in 1..(count - 2) : Elements(BlockEdges(b)) \subseteq EdgeSet
    BY <1>1, <1>2, <2>3 DEF Connected
  <2>5. {<<0, 1>>, <<count - 2, count - 1>>} \subseteq EdgeSet
    BY <1>1, <1>2 DEF Connected
  <2>6. QED
    BY <1>1, <1>3, <2>2, <2>4, <2>5 DEF Connected
<1>7. EdgesJustified'
  <2>1. (Transfers \cup Spurious)' = Transfers \cup Spurious
    BY <1>1 DEF Transfers, Spurious, Tries, AroundCatch, GoesOn, Flow, Insns
  <2>2. \A e : Justified(e)' <=> Justified(e)
    BY <1>1, <2>1 DEF Justified
  <2>3. QED
    BY <1>1, <1>2, <1>3, <2>2 DEF EdgesJustified
<1>8. QED
  BY <1>4, <1>5, <1>6, <1>7 DEF IInv

LEMMA Invariance == IInv /\ [Next]_vars => IInv'
<1> SUFFICES ASSUME IInv, [Next]_vars PROVE IInv'
  OBVIOUS
<1>1. CASE Next
  BY <1>1, FindLeaderKeeps, BeginBlocksKeeps, BuildBlockKeeps, EndBlocksKeeps,
     ConnectBlockKeeps, FinishKeeps DEF Next
<1>2. CASE UNCHANGED vars
  <2>1. UNCHANGED <<pc, code, leaders, pos, count, bb, dead, edges>>
    BY <1>2 DEF vars
  <2>2. TypeOK' = TypeOK /\ Stages' = Stages
    BY <2>1 DEF TypeOK, Stages, Insns
  <2>3. LeadersFound' = LeadersFound
    BY <2>1 DEF LeadersFound, NewLeaders
  <2>4. Ascending' = Ascending /\ Counted' = Counted
    BY <2>1 DEF Ascending, Counted, LastBlock
  <2>5. DeadAfterJump' = DeadAfterJump
    BY <2>1 DEF DeadAfterJump, Cuts, Insns
  <2>6. Connected' = Connected
    <3>1. \A b : BlockEdges(b)' = BlockEdges(b)
      BY <2>1 DEF BlockEdges, JumpEdges, FallThrough, JumpsIn, BlockInsns
    <3>2. \A b : Elements(BlockEdges(b))' = Elements(BlockEdges(b))
      BY <3>1 DEF Elements
    <3>3. EdgeSet' = EdgeSet
      BY <2>1 DEF EdgeSet
    <3>4. QED
      BY <2>1, <3>2, <3>3 DEF Connected
  <2>7. EdgesJustified' = EdgesJustified
    <3>1. (Transfers \cup Spurious)' = Transfers \cup Spurious /\ EdgeSet' = EdgeSet
      BY <2>1 DEF Transfers, Spurious, Tries, AroundCatch, GoesOn, Flow, Insns, EdgeSet
    <3>2. QED
      BY <2>1, <3>1 DEF EdgesJustified, Justified
  <2>8. QED
    BY <2>2, <2>3, <2>4, <2>5, <2>6, <2>7 DEF IInv
<1>3. QED
  BY <1>1, <1>2

LEMMA Inductive == Spec => []IInv
<1>1. QED
  BY InitIInv, Invariance, PTL DEF Spec

-----------------------------------------------------------------------------
(* The state of the pass has its type: blocks have numbers in range, every *)
(* edge is between blocks that exist. *)
THEOREM TypeCorrect == Spec => []TypeOK
<1>1. IInv => TypeOK
  BY DEF IInv
<1>2. QED
  BY <1>1, Inductive, PTL

(* A leader is the first instruction of its block. *)
LEMMA LeaderBeginsBlock ==
    ASSUME IInv, pc = "done", NEW j \in Insns, j = 1 \/ bb[j - 1] < bb[j]
    PROVE  First(bb[j]) = j
<1> DEFINE B == BlockInsns(bb[j])
<1>1. /\ Len(bb) = Len(code) /\ DOMAIN bb = Insns /\ Len(code) \in Nat
      /\ \A i \in Insns : bb[i] \in Nat
  <2>1. DOMAIN bb = Insns /\ Len(bb) = Len(code) /\ count \in Nat
        /\ \A i \in Insns : bb[i] \in 1..(count - 2)
    BY BlocksInRange DEF IInv
  <2>2. QED
    BY <2>1, CodeFacts DEF IInv, TypeOK
<1>2. \A i, k \in Insns : i < k => bb[i] <= bb[k]
  BY <1>1 DEF IInv, Ascending, Insns
<1>3. \A k \in Insns : k < j => bb[k] # bb[j]
  <2>1. ASSUME NEW k \in Insns, k < j PROVE bb[k] # bb[j]
    <3>1. j - 1 \in Insns /\ bb[j - 1] < bb[j] /\ (k < j - 1 \/ k = j - 1)
      BY <1>1, <2>1 DEF Insns
    <3>2. QED
      BY <1>1, <1>2, <3>1
  <2>2. QED
    BY <2>1
<1>4. B \in SUBSET Nat /\ j \in B /\ \A k \in B : j <= k
  BY <1>1, <1>3 DEF BlockInsns, Insns
<1>5. Least(B) \in B /\ \A k \in B : Least(B) <= k
  BY <1>4, LeastExists
<1>6. Least(B) = j
  BY <1>4, <1>5
<1>7. QED
  BY <1>6 DEF First

(* Where the flow out of a live instruction goes, and what is flagged.     *)
LEMMA FlowStaysLive ==
    ASSUME IInv, pc = "done", FirstHarmless,
           NEW i \in Insns \ dead, NEW t \in Flow(i)
    PROVE  t \in Insns \ dead
<1>1. /\ Len(bb) = Len(code) /\ Len(code) \in Nat /\ t \in Insns
      /\ \A k \in Insns : bb[k] \in Nat
      /\ code[i] \in Ins /\ (~ IsJump(code[i]) => code[i].kind \in {"plain", "exit"})
  <2>1. Len(bb) = Len(code) /\ count \in Nat /\ \A k \in Insns : bb[k] \in 1..(count - 2)
    BY BlocksInRange DEF IInv
  <2>2. IsCode(code)
    BY DEF IInv, TypeOK
  <2>3. QED
    BY <2>1, <2>2, CodeFacts
<1>2. \A k, l \in Insns : k < l => bb[k] <= bb[l] /\ (l \in leaders => bb[k] < bb[l])
  BY <1>1 DEF IInv, Ascending, Insns
<1>3. \A d \in Insns : d \in dead <=> \E j \in Insns : Cuts(j, d)
  BY <1>1 DEF IInv, DeadAfterJump, Insns
<1>4. SUFFICES ASSUME NEW j \in Insns, Cuts(j, t) PROVE FALSE
  BY <1>1, <1>3
<1>5. j < t /\ bb[j] = bb[t] /\ IsJump(code[j]) /\ ~ IsTryContext(code[j])
  BY <1>4 DEF Cuts
<1>6. t \notin leaders
  BY <1>1, <1>2, <1>5
<1>7. t = i + 1 /\ code[i].kind \in {"plain", "try", "catch", "finally"}
  <2>1. i = 1 \/ i \in 2..Len(code)
    BY <1>1 DEF Insns
  <2>2. NewLeaders(i) \subseteq leaders
    BY <2>1 DEF IInv, LeadersFound, FirstHarmless
  <2>3. IsJump(code[i]) => code[i].target \in leaders
    BY <2>2 DEF NewLeaders
  <2>4. code[i].kind = "cond" => i + 1 \in leaders
    BY <2>2 DEF NewLeaders, IsJump
  <2>5. CASE IsJump(code[i])
    <3>1. t \in {i + 1, code[i].target} /\ code[i].kind # "plain"
          /\ (code[i].kind = "jump" => t = code[i].target)
          /\ code[i].kind # "exit"
      BY <1>1, <2>5 DEF Flow, IsJump, Ins, Kind
    <3>2. QED
      BY <1>1, <1>6, <2>3, <2>4, <2>5, <3>1 DEF Ins, Kind
  <2>6. CASE ~ IsJump(code[i])
    BY <1>1, <2>6 DEF Flow
  <2>7. QED
    BY <2>5, <2>6
<1>8. j # i
  BY <1>5, <1>7 DEF IsJump, IsTryContext
<1>9. i < t /\ j < i
  BY <1>5, <1>7, <1>8 DEF Insns
<1>10. bb[j] <= bb[i] /\ bb[i] <= bb[t]
  BY <1>1, <1>2, <1>9
<1>11. bb[j] = bb[i]
  BY <1>1, <1>5, <1>10
<1>12. Cuts(j, i)
  BY <1>5, <1>9, <1>11 DEF Cuts
<1>13. QED
  BY <1>3, <1>12

(* Instructions flagged dead by buildBlocks cannot be reached from the     *)
(* entry of the function, whenever the leaders of the first instruction    *)
(* are known (FirstHarmless): flow never leads from an instruction without *)
(* the flag to one with it. *)
THEOREM DeadCodeIsDead == Spec => []DeadIsUnreachable
<1>1. ASSUME IInv PROVE DeadIsUnreachable
  <2>1. SUFFICES ASSUME pc = "done", FirstHarmless
                 PROVE  \E live \in SUBSET (Insns \ dead) :
                           1 \in live /\ \A i \in live : Flow(i) \subseteq live
    BY DEF DeadIsUnreachable
  <2>2. \A i \in Insns \ dead : Flow(i) \subseteq Insns \ dead
    BY <1>1, <2>1, FlowStaysLive
  <2>3. 1 \in Insns \ dead
    <3>1. 1 \in Insns
      BY <1>1, CodeFacts DEF IInv, TypeOK, Insns
    <3>2. Len(bb) \in Nat
      BY <1>1 DEF IInv, TypeOK
    <3>3. 1 \notin dead
      BY <1>1, <3>1, <3>2 DEF IInv, DeadAfterJump, Cuts
    <3>4. QED
      BY <3>1, <3>3
  <2>4. QED
    BY <2>2, <2>3
<1>2. QED
  BY <1>1, Inductive, PTL

(* Every edge connectBlocks adds stands for a transfer of control, but     *)
(* those behind a return or a throw and around a catch that the end of its *)
(* try does not go on to. *)
THEOREM EdgesAccounted == Spec => []EdgesAreFlow
<1>1. IInv => EdgesAreFlow
  BY DEF IInv, EdgesJustified, Justified, EdgesAreFlow
<1>2. QED
  BY <1>1, Inductive, PTL

(* The edges of a block whose first jump is examined, or that has none. *)
LEMMA EdgesOfExamined ==
    ASSUME IInv, pc = "done", NEW i \in Insns, NEW j \in Flow(i),
           code[i].kind \in {"plain", "jump", "cond"}, Examined(i),
           ~ (j = i + 1 /\ bb[j] = bb[i])
    PROVE  <<bb[i], bb[j]>> \in EdgeSet
<1> DEFINE b == bb[i]
<1>1. /\ Len(bb) = Len(code) /\ DOMAIN bb = Insns /\ Len(code) \in Nat
      /\ j \in Insns /\ b \in 1..(count - 2)
      /\ \A k \in Insns : bb[k] \in Nat
      /\ \A k, l \in Insns : k < l => bb[k] <= bb[l]
  <2>1. /\ Len(bb) = Len(code) /\ DOMAIN bb = Insns /\ count \in Nat
        /\ \A k \in Insns : bb[k] \in 1..(count - 2)
    BY BlocksInRange DEF IInv
  <2>2. IsCode(code)
    BY DEF IInv, TypeOK
  <2>3. \A k, l \in Insns : k < l => bb[k] <= bb[l]
    BY <2>1 DEF IInv, Ascending, Insns
  <2>4. QED
    BY <2>1, <2>2, <2>3, CodeFacts
<1>2. Elements(BlockEdges(b)) \subseteq EdgeSet
  BY <1>1 DEF IInv, Connected
<1>3. JumpsIn(b) \in SUBSET Nat /\ BlockInsns(b) \in SUBSET (1..Len(code))
  BY <1>1 DEF JumpsIn, BlockInsns, Insns
<1>4. i \in BlockInsns(b)
  BY <1>1 DEF BlockInsns
<1>5. CASE code[i].kind = "plain"
  <2>1. j = i + 1 /\ i < Len(code) /\ bb[j] # b /\ ~ IsJump(code[i])
    BY <1>5 DEF Flow, IsJump
  <2>2. b < bb[j]
    <3>1. i < j /\ bb[i] <= bb[j]
      BY <1>1, <2>1 DEF Insns
    <3>2. QED
      BY <1>1, <2>1, <3>1
  <2>3. \A k \in BlockInsns(b) : k <= i
    <3>1. ASSUME NEW k \in BlockInsns(b), k > i PROVE FALSE
      <4>1. k \in Insns /\ bb[k] = b /\ (k = j \/ j < k)
        BY <1>1, <2>1, <3>1 DEF BlockInsns, Insns
      <4>2. bb[j] <= bb[k]
        BY <1>1, <4>1
      <4>3. QED
        BY <1>1, <2>2, <4>1, <4>2
    <3>2. QED
      BY <1>1, <1>3, <3>1 DEF Insns
  <2>4. JumpsIn(b) = {}
    <3>1. ASSUME NEW k \in JumpsIn(b) PROVE FALSE
      <4>1. i <= k /\ k <= i /\ k \in Nat
        BY <1>3, <2>3, <3>1 DEF Examined, JumpsIn
      <4>2. k = i
        BY <1>1, <4>1 DEF Insns
      <4>3. QED
        BY <2>1, <3>1, <4>2 DEF JumpsIn
    <3>2. QED
      BY <3>1
  <2>5. Greatest(BlockInsns(b)) = i
    <3>1. Greatest(BlockInsns(b)) \in BlockInsns(b)
          /\ \A k \in BlockInsns(b) : k <= Greatest(BlockInsns(b))
      BY <1>1, <1>3, <1>4, GreatestExists
    <3>2. QED
      BY <1>1, <1>3, <1>4, <2>3, <3>1
  <2>6. BlockEdges(b) = << <<b, bb[j]>> >>
    BY <2>1, <2>4, <2>5 DEF BlockEdges, FallThrough
  <2>7. Elements(BlockEdges(b)) = {<<b, bb[j]>>}
    BY <2>6, ElementsOfOne
  <2>8. QED
    BY <1>2, <2>7
<1>6. CASE code[i].kind \in {"jump", "cond"}
  <2>1. i \in JumpsIn(b) /\ \A k \in JumpsIn(b) : i <= k
    BY <1>4, <1>6 DEF JumpsIn, IsJump, Examined
  <2>2. Least(JumpsIn(b)) = i
    <3>1. Least(JumpsIn(b)) \in JumpsIn(b) /\ \A k \in JumpsIn(b) : Least(JumpsIn(b)) <= k
      BY <1>3, <2>1, LeastExists
    <3>2. QED
      BY <1>3, <2>1, <3>1
  <2>3. BlockEdges(b) = JumpEdges(b, i)
    BY <2>1, <2>2 DEF BlockEdges
  <2>4. CASE code[i].kind = "jump"
    <3>1. j = code[i].target
      BY <2>4 DEF Flow
    <3>2. BlockEdges(b) = <<>> \o << <<b, bb[j]>> >>
      BY <2>3, <2>4, <3>1 DEF JumpEdges
    <3>3. <<>> \o << <<b, bb[j]>> >> = << <<b, bb[j]>> >>
      OBVIOUS
    <3>4. Elements(BlockEdges(b)) = {<<b, bb[j]>>}
      BY <3>2, <3>3, ElementsOfOne
    <3>5. QED
      BY <1>2, <3>4
  <2>5. CASE code[i].kind = "cond"
    <3>1. j \in {i + 1, code[i].target}
      BY <2>5 DEF Flow
    <3>2. BlockEdges(b) = << <<b, bb[i + 1]>> >> \o << <<b, bb[code[i].target]>> >>
      BY <2>3, <2>5 DEF JumpEdges
    <3> DEFINE next == <<b, bb[i + 1]>>
               taken == <<b, bb[code[i].target]>>
    <3>3. j = i + 1 => <<b, bb[j]>> = next
      OBVIOUS
    <3>4. j = code[i].target => <<b, bb[j]>> = taken
      OBVIOUS
    <3>5. BlockEdges(b) = <<next>> \o <<taken>>
      BY <3>2
    <3> HIDE DEF next, taken
    <3>6. Elements(BlockEdges(b)) = {next, taken}
      BY <3>5, ElementsOfTwo
    <3>7. QED
      BY <1>2, <3>1, <3>3, <3>4, <3>6
  <2>6. QED
    BY <1>6, <2>4, <2>5
<1>7. QED
  BY <1>5, <1>6

(* No transfer of control out of an instruction that connectBlocks looks   *)
(* at is lost: it stays in its block or has an edge to a block that begins *)
(* where it goes. *)
THEOREM FlowNotLost == Spec => []FlowCovered
<1>1. ASSUME IInv PROVE FlowCovered
  <2>1. SUFFICES ASSUME pc = "done", NEW i \in Insns, NEW j \in Flow(i),
                        code[i].kind \in {"plain", "jump", "cond"}, Examined(i),
                        i = 1 => FirstHarmless,
                        ~ (j = i + 1 /\ bb[j] = bb[i])
                 PROVE  <<bb[i], bb[j]>> \in EdgeSet /\ First(bb[j]) = j
    BY DEF FlowCovered
  <2>2. <<bb[i], bb[j]>> \in EdgeSet
    BY <1>1, <2>1, EdgesOfExamined
  <2>3. /\ Len(bb) = Len(code) /\ Len(code) \in Nat /\ j \in Insns
        /\ \A k \in Insns : bb[k] \in Nat
        /\ \A k, l \in Insns : k < l => bb[k] <= bb[l]
        /\ \A k, l \in Insns : k < l /\ l \in leaders => bb[k] < bb[l]
    <3>1. /\ Len(bb) = Len(code) /\ count \in Nat
          /\ \A k \in Insns : bb[k] \in 1..(count - 2)
      BY <1>1, <2>1, BlocksInRange DEF IInv
    <3>2. IsCode(code)
      BY <1>1 DEF IInv, TypeOK
    <3>3. /\ \A k, l \in Insns : k < l => bb[k] <= bb[l]
          /\ \A k, l \in Insns : k < l /\ l \in leaders => bb[k] < bb[l]
      BY <1>1, <3>1 DEF IInv, Ascending, Insns
    <3>4. QED
      BY <2>1, <3>1, <3>2, <3>3, CodeFacts
  <2>4. j = 1 \/ bb[j - 1] < bb[j]
    <3>1. CASE j \in leaders
      <4>1. j # 1 => j - 1 \in Insns /\ j - 1 < j
        BY <2>3 DEF Insns
      <4>2. QED
        BY <2>3, <3>1, <4>1
    <3>2. CASE j \notin leaders
      <4>1. i = 1 \/ i \in 2..Len(code)
        BY <2>1, <2>3 DEF Insns
      <4>2. NewLeaders(i) \subseteq leaders
        BY <1>1, <2>1, <4>1 DEF IInv, LeadersFound, FirstHarmless
      <4>3. code[i].kind # "jump"
        BY <2>1, <3>2, <4>2 DEF Flow, NewLeaders, IsJump
      <4>4. code[i].kind # "cond"
        BY <2>1, <3>2, <4>2 DEF Flow, NewLeaders, IsJump
      <4>5. j = i + 1
        BY <2>1, <4>3, <4>4 DEF Flow
      <4>6. j - 1 = i /\ i < j /\ bb[i] # bb[j]
        BY <2>1, <4>5 DEF Insns
      <4>7. bb[i] <= bb[j]
        BY <2>3, <4>6
      <4>8. QED
        BY <2>3, <4>6, <4>7
    <3>3. QED
      BY <3>1, <3>2
  <2>5. First(bb[j]) = j
    BY <1>1, <2>1, <2>3, <2>4, LeaderBeginsBlock
  <2>6. QED
    BY <2>2, <2>5
<1>2. QED
  BY <1>1, Inductive, PTL

(* In functions without dead code and try every block but the start has a  *)
(* predecessor, for computeDominators to begin with: a block begins at a   *)
(* leader, which some jump made, and that jump is the first of its block.  *)
THEOREM EveryBlockReached == Spec => []NoOrphanBlock
<1>1. ASSUME IInv PROVE NoOrphanBlock
  <2>1. SUFFICES ASSUME pc = "done", dead = {}, \A i \in Insns : ~ IsTryContext(code[i]),
                        NEW b \in 1..(count - 1)
                 PROVE  \E e \in EdgeSet : e[2] = b
    BY DEF NoOrphanBlock
  <2>2. /\ Len(bb) = Len(code) /\ DOMAIN bb = Insns /\ count \in Nat /\ count >= 3
        /\ \A k \in Insns : bb[k] \in 1..(count - 2)
        /\ \A c \in 1..(count - 2) : \E i \in Insns : bb[i] = c
    BY <1>1, <2>1, BlocksInRange DEF IInv
  <2>3. <<0, 1>> \in EdgeSet /\ <<count - 2, count - 1>> \in EdgeSet
    BY <1>1, <2>1 DEF IInv, Connected
  <2>4. CASE b = 1
    BY <2>3, <2>4
  <2>5. CASE b = count - 1
    BY <2>3, <2>5
  <2>6. CASE b \in 2..(count - 2)
    <3> DEFINE f == First(b)
    <3>1. f \in Insns /\ bb[f] = b /\ \A k \in Insns : bb[k] = b => f <= k
      <4>1. Len(code) \in Nat
        BY <1>1, CodeFacts DEF IInv, TypeOK
      <4>2. BlockInsns(b) \in SUBSET Nat /\ BlockInsns(b) # {}
        <5>1. b \in 1..(count - 2)
          BY <2>2, <2>6
        <5>2. PICK m \in Insns : bb[m] = b
          BY <2>2, <5>1
        <5>3. m \in BlockInsns(b)
          BY <2>2, <5>2 DEF BlockInsns
        <5>4. BlockInsns(b) \subseteq Insns /\ Insns \subseteq Nat
          BY <2>2, <4>1 DEF BlockInsns, Insns
        <5>5. QED
          BY <5>3, <5>4
      <4>3. f \in BlockInsns(b) /\ \A k \in BlockInsns(b) : f <= k
        BY <4>2, LeastExists DEF First
      <4>4. QED
        BY <2>2, <4>3 DEF BlockInsns
    <3> HIDE DEF f
    <3>2. f # 1 /\ f - 1 \in Insns /\ f - 1 < f
      <4>1. Len(code) \in Nat
        BY <1>1, CodeFacts DEF IInv, TypeOK
      <4>2. bb[f] <= f
        BY <1>1, <2>2, <3>1 DEF IInv, Ascending, Insns
      <4>3. QED
        BY <2>6, <3>1, <4>1, <4>2 DEF Insns
    <3>3. bb[f - 1] < bb[f]
      <4>1. bb[f - 1] # b
        BY <3>1, <3>2 DEF Insns
      <4>2. bb[f - 1] <= bb[f]
        BY <1>1, <2>2, <3>1, <3>2 DEF IInv, Ascending, Insns
      <4>3. QED
        BY <2>2, <3>1, <3>2, <4>1, <4>2
    <3>4. f \in leaders
      <4>1. f = (f - 1) + 1
        BY <3>1 DEF Insns
      <4>2. QED
        BY <1>1, <2>2, <3>1, <3>2, <3>3, <4>1 DEF IInv, Ascending, Insns
    <3>5. PICK i \in 2..Len(code) : f \in NewLeaders(i)
      BY <1>1, <3>2, <3>4 DEF IInv, LeadersFound
    <3>6. i \in Insns /\ code[i] \in Ins
      <4>1. i \in Insns
        BY <3>5 DEF Insns
      <4>2. QED
        BY <1>1, <4>1, CodeFacts DEF IInv, TypeOK
    <3>7. code[i].kind \in {"jump", "cond"} /\ IsJump(code[i]) /\ ~ IsTryContext(code[i])
          /\ f \in Flow(i)
      BY <2>1, <3>5, <3>6 DEF NewLeaders, IsJump, IsTryContext, Ins, Kind, Flow
    <3>8. Examined(i)
      <4>1. ASSUME NEW j \in JumpsIn(bb[i]), ~ (i <= j) PROVE FALSE
        <5>1. j \in Insns /\ bb[j] = bb[i] /\ IsJump(code[j]) /\ ~ IsTryContext(code[j])
          BY <2>1, <2>2, <4>1 DEF JumpsIn, BlockInsns
        <5>2. j < i
          BY <3>6, <4>1, <5>1 DEF Insns
        <5>3. Cuts(j, i)
          BY <5>1, <5>2 DEF Cuts
        <5>4. i \in dead
          BY <1>1, <2>2, <3>6, <5>1, <5>3 DEF IInv, DeadAfterJump, Insns
        <5>5. QED
          BY <2>1, <5>4
      <4>2. QED
        BY <4>1 DEF Examined
    <3>9. ~ (f = i + 1 /\ bb[f] = bb[i])
      <4>1. f = i + 1 => f - 1 = i
        BY <3>6 DEF Insns
      <4>2. QED
        BY <2>2, <3>1, <3>3, <3>6, <4>1
    <3>10. <<bb[i], bb[f]>> \in EdgeSet
      BY <1>1, <2>1, <3>6, <3>7, <3>8, <3>9, EdgesOfExamined
    <3>11. QED
      BY <3>1, <3>10
  <2>7. QED
    BY <2>1, <2>2, <2>4, <2>5, <2>6
<1>2. QED
  BY <1>1, Inductive, PTL
=============================================================================
