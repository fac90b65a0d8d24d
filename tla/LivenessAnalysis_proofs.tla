----------------------- MODULE LivenessAnalysis_proofs -----------------------
(***************************************************************************)
(* Theorems about LivenessAnalysis, for all functions: the iteration, when *)
(* it stops, has found the least solution of its equations, which is       *)
(* compared with that of the comment's, and the live ranges abut and cover *)
(* the reads.                                                              *)
(*                                                                         *)
(* The argument.  Walking the code, kill and ue hold what the instructions *)
(* passed say (SetsWalked).  No set of blocks that is closed under the     *)
(* equations loses to liveOut (BelowSolutions), and a round that changes   *)
(* nothing leaves equations that hold (Settled): so at its end liveOut is  *)
(* a solution, and below all of them.  The intervals of a register never   *)
(* reach beyond the instruction at hand (Good), and later instructions only *)
(* extend them (Extends), so that what covered a read keeps covering it.   *)
(* On top of that the walk keeps, of every two intervals of a register and *)
(* of every write and later read, what register allocation builds on       *)
(* (Promise).                                                              *)
(***************************************************************************)
EXTENDS LivenessAnalysis, WellFoundedInduction, TLAPS

-----------------------------------------------------------------------------
(* Lists of intervals. *)
Abut(list) ==
    /\ \A k \in 1..(Len(list) - 1) :
          list[k].start <= list[k].end /\ list[k].end = list[k + 1].start
    /\ list[Len(list)].end = 0 \/ list[Len(list)].start <= list[Len(list)].end

(* The intervals of a register when the walk is at offset n. *)
Good(list, n) ==
    /\ list \in Seq(LiveInterval) /\ list # <<>>
    /\ \A k \in 1..Len(list) : list[k].start <= n /\ list[k].end <= n
    /\ Abut(list)

Extends(old, new) ==
    /\ Len(old) <= Len(new)
    /\ \A k \in 1..Len(old) : new[k].start = old[k].start /\ old[k].end <= new[k].end

Covers(list, n) == \E k \in 1..Len(list) : list[k].start <= n /\ n <= list[k].end

LEMMA IntervalFields ==
    ASSUME NEW list \in Seq(LiveInterval)
    PROVE  \A k \in 1..Len(list) :
              list[k] \in LiveInterval /\ list[k].start \in Nat /\ list[k].end \in Nat
<1>1. \A k \in 1..Len(list) : list[k] \in LiveInterval
  OBVIOUS
<1>2. \A i \in LiveInterval : i.start \in Nat /\ i.end \in Nat
  BY DEF LiveInterval
<1>3. QED
  BY <1>1, <1>2

LEMMA EndLastGood ==
    ASSUME NEW n \in Nat, NEW list, Good(list, n)
    PROVE  /\ EndLast(list, n) \in Seq(LiveInterval) /\ Len(EndLast(list, n)) = Len(list)
           /\ \A k \in 1..(Len(list) - 1) : EndLast(list, n)[k] = list[k]
           /\ EndLast(list, n)[Len(list)].start = list[Len(list)].start
           /\ EndLast(list, n)[Len(list)].end = n
           /\ Good(EndLast(list, n), n)
           /\ Extends(list, EndLast(list, n))
           /\ Covers(EndLast(list, n), n)
<1> DEFINE last == Len(list)
           new == EndLast(list, n)
<1>1. list \in Seq(LiveInterval) /\ last \in Nat /\ last >= 1 /\ last \in 1..last
  BY DEF Good
<1>2. \A k \in 1..last : list[k] \in LiveInterval /\ list[k].start \in Nat /\ list[k].end \in Nat
  BY <1>1, IntervalFields
<1>3. new = [list EXCEPT ![last] = [list[last] EXCEPT !.end = n]]
  BY DEF EndLast
<1>4. [list[last] EXCEPT !.end = n] = [start |-> list[last].start, end |-> n]
  BY <1>1, <1>2 DEF LiveInterval
<1>5. [start |-> list[last].start, end |-> n] \in LiveInterval
  BY <1>1, <1>2 DEF LiveInterval
<1>6. /\ new \in Seq(LiveInterval) /\ Len(new) = last
      /\ \A k \in 1..last : new[k] = IF k = last THEN [start |-> list[last].start, end |-> n]
                                     ELSE list[k]
  BY <1>1, <1>3, <1>4, <1>5
<1> HIDE DEF new
<1>7. /\ \A k \in 1..(last - 1) : new[k] = list[k] /\ k \in 1..last
      /\ new[last].start = list[last].start /\ new[last].end = n
  BY <1>1, <1>6
<1>8. \A k \in 1..last : list[k].start <= n /\ list[k].end <= n
  BY DEF Good
<1>9. \A k \in 1..last : k \in 1..(last - 1) \/ k = last
  BY <1>1
<1>10. Abut(new)
  <2>1. \A k \in 1..(last - 1) : new[k + 1].start = list[k + 1].start
    <3>1. \A k \in 1..(last - 1) : k + 1 \in 1..last
      BY <1>1
    <3>2. QED
      BY <1>7, <1>9, <3>1
  <2>2. new[last].start <= new[last].end
    BY <1>1, <1>7, <1>8
  <2>3. QED
    BY <1>6, <1>7, <2>1, <2>2 DEF Abut, Good
<1>11. \A k \in 1..last : /\ new[k].start <= n /\ new[k].end <= n
                          /\ new[k].start = list[k].start /\ list[k].end <= new[k].end
  BY <1>1, <1>2, <1>7, <1>8, <1>9
<1>12. new # <<>>
  BY <1>1, <1>6
<1>13. Good(new, n) /\ Extends(list, new) /\ Covers(new, n)
  BY <1>1, <1>6, <1>7, <1>8, <1>10, <1>11, <1>12 DEF Good, Extends, Covers
<1>14. QED
  BY <1>6, <1>7, <1>13 DEF new

LEMMA OneGood ==
    ASSUME NEW n \in Nat, NEW s \in Nat, s <= n
    PROVE  Good(<<[start |-> s, end |-> n]>>, n) /\ Good(<<[start |-> s, end |-> 0]>>, n)
<1> DEFINE closed == <<[start |-> s, end |-> n]>>
           open == <<[start |-> s, end |-> 0]>>
<1>1. closed \in Seq(LiveInterval) /\ Len(closed) = 1 /\ closed[1].start = s /\ closed[1].end = n
  BY DEF LiveInterval
<1>2. open \in Seq(LiveInterval) /\ Len(open) = 1 /\ open[1].start = s /\ open[1].end = 0
  BY DEF LiveInterval
<1>3. closed # <<>> /\ open # <<>>
  OBVIOUS
<1> HIDE DEF closed, open
<1>4. Abut(closed) /\ Abut(open)
  BY <1>1, <1>2 DEF Abut
<1>5. Good(closed, n) /\ Good(open, n)
  BY <1>1, <1>2, <1>3, <1>4 DEF Good
<1>6. QED
  BY <1>5 DEF closed, open

LEMMA AppendGood ==
    ASSUME NEW n \in Nat, NEW list, Good(list, n)
    PROVE  /\ Good(Append(EndLast(list, n), OpenInterval(n)), n)
           /\ Extends(list, Append(EndLast(list, n), OpenInterval(n)))
<1> DEFINE ended == EndLast(list, n)
           last == Len(list)
           open == OpenInterval(n)
           new == Append(ended, open)
<1>1. /\ ended \in Seq(LiveInterval) /\ Len(ended) = last
      /\ ended[last].end = n /\ ended[last].start <= n
      /\ Good(ended, n) /\ Extends(list, ended)
      /\ last \in Nat /\ last >= 1
  <2>1. last \in Nat /\ last >= 1 /\ list[last].start <= n
    BY DEF Good
  <2>2. QED
    BY <2>1, EndLastGood
<1>2. open \in LiveInterval /\ open.start = n /\ open.end = 0
  BY DEF LiveInterval, OpenInterval
<1> HIDE DEF ended, open
<1>3. /\ new \in Seq(LiveInterval) /\ Len(new) = last + 1
      /\ \A k \in 1..last : new[k] = ended[k]
      /\ new[last + 1] = open
  BY <1>1, <1>2
<1> HIDE DEF new
<1>4. \A k \in 1..(last + 1) : k \in 1..last \/ k = last + 1
  BY <1>1
<1>5. Abut(new)
  <2>1. \A k \in 1..last : new[k].start <= new[k].end /\ new[k].end = new[k + 1].start
    <3>1. TAKE k \in 1..last
    <3>2. CASE k = last
      BY <1>1, <1>2, <1>3, <3>2
    <3>3. CASE k # last
      <4>1. k \in 1..(last - 1) /\ k + 1 \in 1..last
        BY <1>1, <3>3
      <4>2. QED
        BY <1>1, <1>3, <4>1 DEF Good, Abut
    <3>4. QED
      BY <3>2, <3>3
  <2>2. new[Len(new)].end = 0 /\ Len(new) - 1 = last
    BY <1>1, <1>2, <1>3
  <2>3. QED
    BY <2>1, <2>2 DEF Abut
<1>6. \A k \in 1..(last + 1) : new[k].start <= n /\ new[k].end <= n
  <2>1. \A k \in 1..last : ended[k].start <= n /\ ended[k].end <= n
    BY <1>1 DEF Good
  <2>2. QED
    BY <1>2, <1>3, <1>4, <2>1
<1>7. new # <<>>
  BY <1>1, <1>3
<1>8. Good(new, n)
  BY <1>3, <1>5, <1>6, <1>7 DEF Good
<1>9. Extends(list, new)
  BY <1>1, <1>3 DEF Extends
<1>10. QED
  BY <1>8, <1>9 DEF new, ended, open

LEMMA GoodLater ==
    ASSUME NEW n \in Nat, NEW m \in Nat, n <= m, NEW list, Good(list, n)
    PROVE  Good(list, m)
<1>1. \A k \in 1..Len(list) : list[k].start \in Nat /\ list[k].end \in Nat
  BY IntervalFields DEF Good
<1>2. QED
  BY <1>1 DEF Good

LEMMA CoversLater ==
    ASSUME NEW n \in Nat, NEW m \in Nat, NEW o \in Nat, NEW old, NEW new,
           Good(old, n), Good(new, m), Extends(old, new), Covers(old, o)
    PROVE  Covers(new, o)
<1>1. PICK k \in 1..Len(old) : old[k].start <= o /\ o <= old[k].end
  BY DEF Covers
<1>2. old \in Seq(LiveInterval) /\ new \in Seq(LiveInterval) /\ Len(old) <= Len(new)
  BY DEF Good, Extends
<1>3. k \in 1..Len(new) /\ new[k].start = old[k].start /\ old[k].end <= new[k].end
  BY <1>2 DEF Extends
<1>4. old[k].end \in Nat /\ new[k].end \in Nat
  BY <1>1, <1>2, <1>3, IntervalFields
<1>5. QED
  BY <1>1, <1>3, <1>4 DEF Covers

-----------------------------------------------------------------------------
(* The invariant. *)
Positions ==
    /\ pc = "begin" => pos = 1
    /\ pc = "killue" => pos \in 1..(Len(fn.code) + 1)
    /\ pc = "liveout" => pos \in 0..fn.count
    /\ pc = "ranges" => pos \in 1..(Len(fn.code) + 1)

(* Before instruction n, block b writes r, or reads it before a write. *)
Written(b, r, n) == \E i \in InsnsOf(b) : i < n /\ fn.code[i].write = r

Used(b, r, n) ==
    \E i \in InsnsOf(b) :
        i < n /\ r \in fn.code[i].reads /\ \A j \in InsnsOf(b) : j < i => fn.code[j].write # r

WalkedTo(n) ==
    \A b \in Blocks, r \in Regs :
        (r \in kill[b] <=> Written(b, r, n)) /\ (r \in ue[b] <=> Used(b, r, n))

SetsWalked ==
    /\ pc = "begin" => kill = Empty(fn) /\ ue = Empty(fn)
    /\ pc \in {"begin", "killue"} => liveOut = Empty(fn)
    /\ pc = "killue" => WalkedTo(pos)
    /\ pc \in {"liveout", "ranges"} => WalkedTo(Len(fn.code) + 1)

(* S has every block that reaches a block of S that does not kill r. *)
Closed(r, S) ==
    \A b \in Blocks : (\E s \in Succs(b) : s \in S /\ r \notin Killed(s)) => b \in S

(* S holds the blocks that use r, and what the equations make of S. *)
Solution(r, S) ==
    /\ \A b \in Blocks : r \in UsedFirst(b) /\ Succs(b) # {} => b \in S
    /\ Closed(r, S)

BelowSolutions ==
    \A r \in Regs : \A S \in SUBSET Blocks :
        Solution(r, S) => \A b \in Blocks : r \in liveOut[b] => b \in S

Settled ==
    /\ pc = "liveout" /\ ~ changed => \A b \in Blocks : b < pos => liveOut[b] = NewLiveOut(b)
    /\ pc = "ranges" => \A b \in Blocks : liveOut[b] = NewLiveOut(b)

CoveredBefore(n) ==
    \A i \in Insns :
        i < n /\ fn.code[i].write = NoReg =>
            \A r \in fn.code[i].reads : r \in DOMAIN ranges /\ Covers(ranges[r], Offset(i))

Intervals ==
    /\ pc \in {"begin", "killue", "liveout"} => ranges = <<>>
    /\ pc = "ranges" =>
          (\A r \in DOMAIN ranges : Good(ranges[r], Offset(pos))) /\ CoveredBefore(pos)
    /\ pc = "done" =>
          /\ \E n \in Nat : \A r \in DOMAIN ranges : Good(ranges[r], n)
          /\ fn.args.registerEnd > 0 => CoveredBefore(Len(fn.code) + 1)

IInv ==
    TypeOK /\ Positions /\ SetsWalked /\ BelowSolutions /\ Settled /\ Intervals

LEMMA FunctionFacts ==
    ASSUME IsFunction(fn)
    PROVE  /\ Len(fn.code) \in Nat /\ fn.count \in Nat /\ fn.count >= 2
           /\ fn.args.registerEnd \in Nat /\ fn.args.argumentEnd \in Nat
           /\ NoReg \notin Regs /\ Regs \subseteq Nat
           /\ \A i \in Insns :
                 /\ fn.code[i].reads \subseteq Regs
                 /\ fn.code[i].write \in Regs \cup {NoReg}
                 /\ fn.block[i] \in Blocks
           /\ \A b \in Blocks : Succs(b) \subseteq Blocks
<1>1. fn.code \in Seq(Instruction) /\ fn.count \in Nat \ {0, 1} /\ fn.args \in Args
  BY DEF IsFunction
<1>2. Len(fn.code) \in Nat /\ fn.count \in Nat /\ fn.count >= 2
  BY <1>1
<1>3. fn.args.registerEnd \in Nat /\ fn.args.argumentEnd \in Nat
  BY <1>1 DEF Args
<1>4. NoReg \notin Regs /\ Regs \subseteq Nat
  BY <1>3, NoRegAssumption DEF Regs
<1>5. ASSUME NEW i \in Insns
      PROVE  /\ fn.code[i].reads \subseteq Regs
             /\ fn.code[i].write \in Regs \cup {NoReg}
             /\ fn.block[i] \in Blocks
  <2>1. fn.block[i] \in 1..(fn.count - 2)
    BY DEF IsFunction, Insns
  <2>2. fn.code[i].reads \cup ({fn.code[i].write} \ {NoReg}) \subseteq 0..(fn.args.registerEnd - 1)
    BY DEF IsFunction, Insns
  <2>3. QED
    BY <1>2, <2>1, <2>2 DEF Regs, Blocks
<1>6. \A b \in Blocks : Succs(b) \subseteq Blocks
  BY DEF IsFunction, Blocks, Succs
<1>7. QED
  BY <1>2, <1>3, <1>4, <1>5, <1>6

(* kill and ue, at the end of the walk. *)
LEMMA WalkedSets ==
    ASSUME TypeOK, WalkedTo(Len(fn.code) + 1), NEW b \in Blocks, NEW r \in Regs
    PROVE  (r \in kill[b] <=> r \in Killed(b)) /\ (r \in ue[b] <=> r \in UsedFirst(b))
<1>1. Len(fn.code) \in Nat /\ NoReg \notin Regs
  BY FunctionFacts DEF TypeOK
<1>2. \A i \in InsnsOf(b) : i < Len(fn.code) + 1
  BY <1>1 DEF InsnsOf, Insns
<1>3. r \in kill[b] <=> \E i \in InsnsOf(b) : fn.code[i].write = r
  BY <1>2 DEF WalkedTo, Written
<1>4. r \in Killed(b) <=> \E i \in InsnsOf(b) : fn.code[i].write = r
  BY <1>1 DEF Killed
<1>5. r \in ue[b] <=> \E i \in InsnsOf(b) : r \in fn.code[i].reads
                          /\ \A j \in InsnsOf(b) : j < i => fn.code[j].write # r
  BY <1>2 DEF WalkedTo, Used
<1>6. r \in UsedFirst(b) <=> \E i \in InsnsOf(b) : r \in fn.code[i].reads
                          /\ \A j \in InsnsOf(b) : j < i => fn.code[j].write # r
  BY DEF UsedFirst
<1>7. QED
  BY <1>3, <1>4, <1>5, <1>6

LEMMA BelowSame ==
    ASSUME BelowSolutions, fn' = fn, liveOut' = liveOut
    PROVE  BelowSolutions'
<1>1. Blocks' = Blocks /\ Regs' = Regs /\ Insns' = Insns
  BY DEF Blocks, Regs, Insns
<1>2. \A b : InsnsOf(b)' = InsnsOf(b) /\ Succs(b)' = Succs(b)
  BY <1>1 DEF InsnsOf, Succs
<1>3. \A b : Killed(b)' = Killed(b) /\ UsedFirst(b)' = UsedFirst(b)
  BY <1>2 DEF Killed, UsedFirst
<1>4. \A r, S : Closed(r, S)' <=> Closed(r, S)
  BY <1>1, <1>2, <1>3 DEF Closed
<1>5. \A r, S : Solution(r, S)' <=> Solution(r, S)
  BY <1>1, <1>2, <1>3, <1>4 DEF Solution
<1>6. QED
  BY <1>1, <1>5 DEF BelowSolutions

LEMMA InitIInv == Init => IInv
<1> SUFFICES ASSUME Init PROVE IInv
  OBVIOUS
<1>1. IsFunction(fn)
  BY FunctionsAssumption DEF Init
<1>2. Len(fn.code) \in Nat /\ fn.count \in Nat /\ fn.count >= 2
  BY <1>1, FunctionFacts
<1>3. DOMAIN ranges = {} /\ Empty(fn) \in [Blocks -> SUBSET Regs]
  BY DEF Init, Empty, Blocks
<1>4. TypeOK
  <2>1. pos \in 0..(Len(fn.code) + fn.count)
    BY <1>2 DEF Init
  <2>2. DOMAIN ranges \subseteq Nat /\ \A r \in DOMAIN ranges : ranges[r] \in Seq(LiveInterval)
    BY <1>3
  <2> HIDE DEF Empty
  <2>3. QED
    BY <1>1, <1>3, <2>1, <2>2 DEF Init, TypeOK
<1>5. Positions /\ SetsWalked /\ Settled /\ Intervals
  BY DEF Init, Positions, SetsWalked, Settled, Intervals
<1>6. BelowSolutions
  BY DEF Init, BelowSolutions, Empty, Blocks
<1>7. QED
  BY <1>4, <1>5, <1>6 DEF IInv

LEMMA BeginKeeps == IInv /\ Begin => IInv'
<1> SUFFICES ASSUME IInv, Begin PROVE IInv'
  OBVIOUS
<1>1. /\ pc = "begin" /\ pc' = (IF fn.args.registerEnd = 0 THEN "done" ELSE "killue")
      /\ UNCHANGED <<fn, pos, kill, ue, liveOut, changed, ranges>>
  BY DEF Begin
<1>2. /\ TypeOK /\ Positions /\ SetsWalked /\ BelowSolutions /\ Settled /\ Intervals
      /\ ranges = <<>> /\ DOMAIN ranges = {} /\ pos = 1
      /\ kill = Empty(fn) /\ ue = Empty(fn) /\ liveOut = Empty(fn)
      /\ Len(fn.code) \in Nat /\ fn.args.registerEnd \in Nat
  <2>1. TypeOK /\ Positions /\ SetsWalked /\ BelowSolutions /\ Settled /\ Intervals
    BY DEF IInv
  <2>2. Len(fn.code) \in Nat /\ fn.args.registerEnd \in Nat
    BY <2>1, FunctionFacts DEF TypeOK
  <2>3. QED
    BY <1>1, <2>1, <2>2 DEF Positions, SetsWalked, Intervals
<1>3. TypeOK'
  BY <1>1, <1>2 DEF TypeOK, Blocks, Regs
<1>4. Positions'
  BY <1>1, <1>2 DEF Positions
<1>5. SetsWalked'
  <2>1. WalkedTo(1)
    <3>1. \A b \in Blocks : kill[b] = {} /\ ue[b] = {}
      BY <1>2 DEF Empty, Blocks
    <3>2. \A b : \A i \in InsnsOf(b) : ~ (i < 1)
      BY <1>2 DEF InsnsOf, Insns
    <3>3. QED
      BY <3>1, <3>2 DEF WalkedTo, Written, Used
  <2>2. WalkedTo(pos)' <=> WalkedTo(pos)
    BY <1>1 DEF WalkedTo, Written, Used, InsnsOf, Insns, Blocks, Regs
  <2>3. QED
    BY <1>1, <1>2, <2>1, <2>2 DEF SetsWalked
<1>6. BelowSolutions'
  BY <1>1, <1>2, BelowSame
<1>7. Settled'
  BY <1>1 DEF Settled
<1>8. Intervals'
  <2>1. \A r \in DOMAIN ranges : Good(ranges[r], 0)
    BY <1>2
  <2>2. QED
    BY <1>1, <1>2, <2>1 DEF Intervals
<1>9. QED
  BY <1>3, <1>4, <1>5, <1>6, <1>7, <1>8 DEF IInv

LEMMA KillUeKeeps == IInv /\ KillUe => IInv'
<1> SUFFICES ASSUME IInv, KillUe PROVE IInv'
  OBVIOUS
<1> DEFINE ins == fn.code[pos]
           b0 == fn.block[pos]
<1>1. /\ pc = "killue" /\ pos <= Len(fn.code) /\ pos' = pos + 1
      /\ ue' = [ue EXCEPT ![b0] = ue[b0] \cup (ins.reads \ kill[b0])]
      /\ kill' = (IF ins.write = NoReg THEN kill
                  ELSE [kill EXCEPT ![b0] = kill[b0] \cup {ins.write}])
      /\ UNCHANGED <<pc, fn, liveOut, changed, ranges>>
  BY DEF KillUe, Exposed, KillWritten
<1>2. /\ TypeOK /\ Positions /\ SetsWalked /\ BelowSolutions /\ Settled /\ Intervals
  BY DEF IInv
<1>3. /\ Len(fn.code) \in Nat /\ fn.count \in Nat /\ pos \in Insns /\ b0 \in Blocks
      /\ ins.reads \subseteq Regs /\ ins.write \in Regs \cup {NoReg} /\ NoReg \notin Regs
      /\ kill \in [Blocks -> SUBSET Regs] /\ ue \in [Blocks -> SUBSET Regs]
  <2>1. Len(fn.code) \in Nat /\ fn.count \in Nat
    BY <1>2, FunctionFacts DEF TypeOK
  <2>2. pos \in Insns
    BY <1>1, <1>2, <2>1 DEF Positions, Insns
  <2>3. QED
    BY <1>2, <2>1, <2>2, FunctionFacts DEF TypeOK
<1> HIDE DEF ins, b0
<1>4. /\ kill' \in [Blocks -> SUBSET Regs] /\ ue' \in [Blocks -> SUBSET Regs]
      /\ \A b \in Blocks, r \in Regs :
            /\ r \in ue'[b] <=> r \in ue[b] \/ (b = b0 /\ r \in ins.reads /\ r \notin kill[b0])
            /\ r \in kill'[b] <=> r \in kill[b] \/ (b = b0 /\ ins.write = r)
  <2>1. ue' \in [Blocks -> SUBSET Regs] /\
        \A b \in Blocks : ue'[b] = IF b = b0 THEN ue[b0] \cup (ins.reads \ kill[b0]) ELSE ue[b]
    BY <1>1, <1>3
  <2>2. CASE ins.write = NoReg
    BY <1>1, <1>3, <2>1, <2>2
  <2>3. CASE ins.write # NoReg
    <3>1. kill' \in [Blocks -> SUBSET Regs] /\
          \A b \in Blocks : kill'[b] = IF b = b0 THEN kill[b0] \cup {ins.write} ELSE kill[b]
      BY <1>1, <1>3, <2>3
    <3>2. QED
      BY <2>1, <3>1
  <2>4. QED
    BY <2>2, <2>3
<1>5. TypeOK'
  <2>1. Blocks' = Blocks /\ Regs' = Regs
    BY <1>1 DEF Blocks, Regs
  <2>2. pos' \in 0..(Len(fn.code) + fn.count)
    <3>1. fn.count >= 2
      BY <1>2, FunctionFacts DEF TypeOK
    <3>2. QED
      BY <1>1, <1>3, <3>1 DEF Insns
  <2>3. QED
    BY <1>1, <1>2, <1>4, <2>1, <2>2 DEF TypeOK
<1>6. Positions'
  BY <1>1, <1>3 DEF Positions, Insns
<1>7. SetsWalked'
  <2>1. \A b \in Blocks, r \in Regs :
           /\ r \in kill[b] <=> Written(b, r, pos)
           /\ r \in ue[b] <=> Used(b, r, pos)
    BY <1>1, <1>2 DEF SetsWalked, WalkedTo
  <2>2. \A b : pos \in InsnsOf(b) <=> b = b0
    BY <1>3 DEF InsnsOf, b0
  <2>3. \A b : \A i \in InsnsOf(b) : i < pos + 1 <=> i < pos \/ i = pos
    BY <1>3 DEF InsnsOf, Insns
  <2>4. \A b, r : Written(b, r, pos + 1) <=> Written(b, r, pos) \/ (b = b0 /\ ins.write = r)
    BY <2>2, <2>3 DEF Written, ins
  <2>5. \A b, r : Used(b, r, pos + 1) <=>
                     Used(b, r, pos) \/ (b = b0 /\ r \in ins.reads /\ ~ Written(b, r, pos))
    <3>1. TAKE b, r
    <3>2. Written(b, r, pos) <=> \E j \in InsnsOf(b) : j < pos /\ fn.code[j].write = r
      BY DEF Written
    <3>3. QED
      BY <2>2, <2>3, <3>2 DEF Used, ins
  <2>6. \A b \in Blocks, r \in Regs :
           (r \in kill'[b] <=> Written(b, r, pos + 1)) /\ (r \in ue'[b] <=> Used(b, r, pos + 1))
    BY <1>3, <1>4, <2>1, <2>4, <2>5
  <2>7. /\ Blocks' = Blocks /\ Regs' = Regs
        /\ \A b, r, n : (Written(b, r, n)' <=> Written(b, r, n)) /\ (Used(b, r, n)' <=> Used(b, r, n))
    BY <1>1 DEF Blocks, Regs, Written, Used, InsnsOf, Insns
  <2>8. WalkedTo(pos)'
    <3>1. \A b \in Blocks, r \in Regs :
             (r \in kill'[b] <=> Written(b, r, pos')) /\ (r \in ue'[b] <=> Used(b, r, pos'))
      BY <1>1, <2>6
    <3>2. \A b, r : Written(b, r, pos)' <=> Written(b, r, pos')
      BY <1>1 DEF Written, InsnsOf, Insns
    <3>3. \A b, r : Used(b, r, pos)' <=> Used(b, r, pos')
      BY <1>1 DEF Used, InsnsOf, Insns
    <3>4. QED
      BY <2>7, <3>1, <3>2, <3>3 DEF WalkedTo
  <2>9. Empty(fn)' = Empty(fn)
    BY <1>1 DEF Empty
  <2>10. QED
    BY <1>1, <1>2, <2>8, <2>9 DEF SetsWalked
<1>8. BelowSolutions'
  BY <1>1, <1>2, BelowSame
<1>9. Settled'
  BY <1>1 DEF Settled
<1>10. Intervals'
  BY <1>1, <1>2 DEF Intervals
<1>11. QED
  BY <1>5, <1>6, <1>7, <1>8, <1>9, <1>10 DEF IInv

LEMMA WalkedSame ==
    ASSUME WalkedTo(Len(fn.code) + 1), fn' = fn, kill' = kill, ue' = ue
    PROVE  WalkedTo(Len(fn.code) + 1)'
<1>1. Blocks' = Blocks /\ Regs' = Regs /\ Insns' = Insns
  BY DEF Blocks, Regs, Insns
<1>2. \A b : InsnsOf(b)' = InsnsOf(b)
  BY <1>1 DEF InsnsOf
<1>3. \A b, r : /\ Written(b, r, Len(fn.code) + 1)' <=> Written(b, r, Len(fn.code) + 1)
                /\ Used(b, r, Len(fn.code) + 1)' <=> Used(b, r, Len(fn.code) + 1)
  BY <1>2 DEF Written, Used
<1>4. QED
  BY <1>1, <1>3 DEF WalkedTo

LEMMA NewLiveOutSame ==
    ASSUME fn' = fn, kill' = kill, ue' = ue, liveOut' = liveOut
    PROVE  \A b : NewLiveOut(b)' = NewLiveOut(b)
  BY DEF NewLiveOut, Succs

LEMMA BeginLiveOutKeeps == IInv /\ BeginLiveOut => IInv'
<1> SUFFICES ASSUME IInv, BeginLiveOut PROVE IInv'
  OBVIOUS
<1>1. /\ pc = "killue" /\ pc' = "liveout" /\ pos > Len(fn.code) /\ pos' = 0 /\ changed' = FALSE
      /\ fn' = fn /\ kill' = kill /\ ue' = ue /\ liveOut' = liveOut /\ ranges' = ranges
  BY DEF BeginLiveOut
<1>2. TypeOK /\ Positions /\ SetsWalked /\ BelowSolutions /\ Settled /\ Intervals
  BY DEF IInv
<1>3. Len(fn.code) \in Nat /\ fn.count \in Nat /\ pos = Len(fn.code) + 1
  <2>1. Len(fn.code) \in Nat /\ fn.count \in Nat
    BY <1>2, FunctionFacts DEF TypeOK
  <2>2. QED
    BY <1>1, <1>2, <2>1 DEF Positions
<1>4. TypeOK' /\ Positions'
  <2>1. pos' \in 0..(Len(fn.code) + fn.count) /\ pos' \in 0..fn.count
    BY <1>1, <1>3
  <2>2. Blocks' = Blocks /\ Regs' = Regs
    BY <1>1 DEF Blocks, Regs
  <2>3. QED
    BY <1>1, <1>2, <2>1, <2>2 DEF TypeOK, Positions
<1>5. SetsWalked'
  <2>1. WalkedTo(Len(fn.code) + 1)
    BY <1>1, <1>2, <1>3 DEF SetsWalked
  <2>2. WalkedTo(Len(fn.code) + 1)'
    BY <1>1, <2>1, WalkedSame
  <2>3. QED
    BY <1>1, <2>2 DEF SetsWalked
<1>6. BelowSolutions'
  BY <1>1, <1>2, BelowSame
<1>7. Settled'
  BY <1>1 DEF Settled, Blocks
<1>8. Intervals'
  BY <1>1, <1>2 DEF Intervals
<1>9. QED
  BY <1>4, <1>5, <1>6, <1>7, <1>8 DEF IInv

LEMMA LiveOutKeeps == IInv /\ LiveOut => IInv'
<1> SUFFICES ASSUME IInv, LiveOut PROVE IInv'
  OBVIOUS
<1>1. /\ pc = "liveout" /\ pc' = pc /\ pos < fn.count /\ pos' = pos + 1
      /\ liveOut' = [liveOut EXCEPT ![pos] = NewLiveOut(pos)]
      /\ changed' = (changed \/ NewLiveOut(pos) # liveOut[pos])
      /\ fn' = fn /\ kill' = kill /\ ue' = ue /\ ranges' = ranges
  BY DEF LiveOut
<1>2. TypeOK /\ Positions /\ SetsWalked /\ BelowSolutions /\ Settled /\ Intervals
  BY DEF IInv
<1>3. /\ Len(fn.code) \in Nat /\ fn.count \in Nat /\ fn.count >= 2 /\ pos \in Blocks /\ pos \in Nat
      /\ Succs(pos) \subseteq Blocks
      /\ liveOut \in [Blocks -> SUBSET Regs] /\ kill \in [Blocks -> SUBSET Regs]
      /\ ue \in [Blocks -> SUBSET Regs] /\ WalkedTo(Len(fn.code) + 1)
  <2>1. /\ Len(fn.code) \in Nat /\ fn.count \in Nat /\ fn.count >= 2
        /\ \A b \in Blocks : Succs(b) \subseteq Blocks
    BY <1>2, FunctionFacts DEF TypeOK
  <2>2. pos \in Blocks /\ pos \in Nat
    BY <1>1, <1>2, <2>1 DEF Positions, Blocks
  <2>3. QED
    BY <1>1, <1>2, <2>1, <2>2 DEF TypeOK, SetsWalked
<1>4. \A r : r \in NewLiveOut(pos) <=>
             \E s \in Succs(pos) : (r \in liveOut[s] /\ r \notin kill[s]) \/ r \in ue[pos]
  BY DEF NewLiveOut
<1>5. NewLiveOut(pos) \subseteq Regs
  BY <1>3, <1>4
<1>6. /\ liveOut' \in [Blocks -> SUBSET Regs]
      /\ \A b \in Blocks : liveOut'[b] = IF b = pos THEN NewLiveOut(pos) ELSE liveOut[b]
  BY <1>1, <1>3, <1>5
<1>7. TypeOK' /\ Positions'
  <2>1. pos' \in 0..(Len(fn.code) + fn.count) /\ pos' \in 0..fn.count
    BY <1>1, <1>3
  <2>2. Blocks' = Blocks /\ Regs' = Regs /\ changed' \in BOOLEAN
    BY <1>1, <1>2 DEF Blocks, Regs, TypeOK
  <2>3. QED
    BY <1>1, <1>2, <1>6, <2>1, <2>2 DEF TypeOK, Positions
<1>8. SetsWalked'
  BY <1>1, <1>3, WalkedSame DEF SetsWalked
<1>9. BelowSolutions'
  <2>1. ASSUME NEW r \in Regs, NEW S \in SUBSET Blocks, Solution(r, S),
               NEW b \in Blocks, r \in liveOut'[b]
        PROVE  b \in S
    <3>1. CASE b # pos
      BY <1>2, <1>6, <2>1, <3>1 DEF BelowSolutions
    <3>2. CASE b = pos
      <4>1. PICK s \in Succs(pos) : (r \in liveOut[s] /\ r \notin kill[s]) \/ r \in ue[pos]
        BY <1>4, <1>6, <2>1, <3>2
      <4>2. s \in Blocks
        BY <1>3, <4>1
      <4>3. CASE r \in liveOut[s] /\ r \notin kill[s]
        <5>1. s \in S
          BY <1>2, <2>1, <4>2, <4>3 DEF BelowSolutions
        <5>2. r \notin Killed(s)
          BY <1>2, <1>3, <4>2, <4>3, WalkedSets
        <5>3. QED
          BY <1>3, <2>1, <3>2, <4>1, <5>1, <5>2 DEF Solution, Closed
      <4>4. CASE r \in ue[pos]
        <5>1. r \in UsedFirst(pos)
          BY <1>2, <1>3, <4>4, WalkedSets
        <5>2. QED
          BY <1>3, <2>1, <3>2, <4>1, <5>1 DEF Solution
      <4>5. QED
        BY <4>1, <4>3, <4>4
    <3>3. QED
      BY <3>1, <3>2
  <2>2. Blocks' = Blocks /\ Regs' = Regs /\ Insns' = Insns
    BY <1>1 DEF Blocks, Regs, Insns
  <2>3. \A b : InsnsOf(b)' = InsnsOf(b) /\ Succs(b)' = Succs(b)
    BY <1>1, <2>2 DEF InsnsOf, Succs
  <2>4. \A b : Killed(b)' = Killed(b) /\ UsedFirst(b)' = UsedFirst(b)
    BY <1>1, <2>3 DEF Killed, UsedFirst
  <2>5. \A r, S : Closed(r, S)' <=> Closed(r, S)
    BY <2>2, <2>3, <2>4 DEF Closed
  <2>6. \A r, S : Solution(r, S)' <=> Solution(r, S)
    BY <2>2, <2>3, <2>4, <2>5 DEF Solution
  <2>7. QED
    BY <2>1, <2>2, <2>6 DEF BelowSolutions
<1>10. Settled'
  <2>1. CASE changed'
    BY <1>1, <2>1 DEF Settled
  <2>2. CASE ~ changed'
    <3>1. ~ changed /\ NewLiveOut(pos) = liveOut[pos]
      BY <1>1, <2>2
    <3>2. liveOut' = liveOut
      BY <1>1, <1>3, <3>1
    <3>3. \A b \in Blocks : b < pos + 1 => b < pos \/ b = pos
      BY <1>3 DEF Blocks
    <3>4. \A b \in Blocks : b < pos + 1 => liveOut[b] = NewLiveOut(b)
      BY <1>1, <1>2, <3>1, <3>3 DEF Settled
    <3>5. \A b : NewLiveOut(b)' = NewLiveOut(b)
      BY <1>1, <3>2, NewLiveOutSame
    <3>6. Blocks' = Blocks
      BY <1>1 DEF Blocks
    <3>7. QED
      BY <1>1, <3>2, <3>4, <3>5, <3>6 DEF Settled
  <2>3. QED
    BY <2>1, <2>2
<1>11. Intervals'
  BY <1>1, <1>2 DEF Intervals
<1>12. QED
  BY <1>7, <1>8, <1>9, <1>10, <1>11 DEF IInv

LEMMA NextRoundKeeps == IInv /\ NextRound => IInv'
<1> SUFFICES ASSUME IInv, NextRound PROVE IInv'
  OBVIOUS
<1>1. /\ pc = "liveout" /\ pc' = pc /\ pos' = 0 /\ changed' = FALSE
      /\ fn' = fn /\ kill' = kill /\ ue' = ue /\ liveOut' = liveOut /\ ranges' = ranges
  BY DEF NextRound
<1>2. TypeOK /\ Positions /\ SetsWalked /\ BelowSolutions /\ Settled /\ Intervals
  BY DEF IInv
<1>3. TypeOK' /\ Positions'
  <2>1. pos' \in 0..(Len(fn.code) + fn.count) /\ pos' \in 0..fn.count
    BY <1>1, <1>2, FunctionFacts DEF TypeOK
  <2>2. Blocks' = Blocks /\ Regs' = Regs
    BY <1>1 DEF Blocks, Regs
  <2>3. QED
    BY <1>1, <1>2, <2>1, <2>2 DEF TypeOK, Positions
<1>4. SetsWalked'
  BY <1>1, <1>2, WalkedSame DEF SetsWalked
<1>5. BelowSolutions'
  BY <1>1, <1>2, BelowSame
<1>6. Settled'
  BY <1>1 DEF Settled, Blocks
<1>7. Intervals'
  BY <1>1, <1>2 DEF Intervals
<1>8. QED
  BY <1>3, <1>4, <1>5, <1>6, <1>7 DEF IInv

LEMMA BeginRangesKeeps == IInv /\ BeginRanges => IInv'
<1> SUFFICES ASSUME IInv, BeginRanges PROVE IInv'
  OBVIOUS
<1>1. /\ pc = "liveout" /\ pc' = "ranges" /\ pos = fn.count /\ ~ changed /\ pos' = 1
      /\ ranges' = ArgumentRanges(fn.args)
      /\ fn' = fn /\ kill' = kill /\ ue' = ue /\ liveOut' = liveOut /\ changed' = changed
  BY DEF BeginRanges
<1>2. TypeOK /\ Positions /\ SetsWalked /\ BelowSolutions /\ Settled /\ Intervals
  BY DEF IInv
<1>3. Len(fn.code) \in Nat /\ fn.count \in Nat /\ fn.count >= 2 /\ fn.args.argumentEnd \in Nat
  BY <1>2, FunctionFacts DEF TypeOK
<1>4. /\ DOMAIN ranges' \subseteq Nat
      /\ \A r \in DOMAIN ranges' : Good(ranges'[r], 0)
  <2>1. DOMAIN ranges' = 0..(fn.args.argumentEnd - 1)
        /\ \A r \in DOMAIN ranges' : ranges'[r] = <<[start |-> 0, end |-> 0]>>
    BY <1>1 DEF ArgumentRanges, OpenInterval
  <2>2. Good(<<[start |-> 0, end |-> 0]>>, 0)
    BY OneGood
  <2>3. QED
    BY <1>3, <2>1, <2>2
<1>5. TypeOK' /\ Positions'
  <2>1. pos' \in 0..(Len(fn.code) + fn.count) /\ pos' \in 1..(Len(fn.code) + 1)
    BY <1>1, <1>3
  <2>2. Blocks' = Blocks /\ Regs' = Regs
    BY <1>1 DEF Blocks, Regs
  <2>3. \A r \in DOMAIN ranges' : ranges'[r] \in Seq(LiveInterval)
    BY <1>4 DEF Good
  <2>4. QED
    BY <1>1, <1>2, <1>4, <2>1, <2>2, <2>3 DEF TypeOK, Positions
<1>6. SetsWalked'
  BY <1>1, <1>2, WalkedSame DEF SetsWalked
<1>7. BelowSolutions'
  BY <1>1, <1>2, BelowSame
<1>8. Settled'
  <2>1. \A b \in Blocks : b < pos
    BY <1>1, <1>3 DEF Blocks
  <2>2. \A b \in Blocks : liveOut[b] = NewLiveOut(b)
    BY <1>1, <1>2, <2>1 DEF Settled
  <2>3. Blocks' = Blocks /\ \A b : NewLiveOut(b)' = NewLiveOut(b)
    BY <1>1, NewLiveOutSame DEF Blocks
  <2>4. QED
    BY <1>1, <2>2, <2>3 DEF Settled
<1>9. Intervals'
  <2>1. CoveredBefore(pos)'
    <3>1. \A i \in Insns : ~ (i < 1)
      BY <1>3 DEF Insns
    <3>2. QED
      BY <1>1, <3>1 DEF CoveredBefore, Insns
  <2>2. Offset(pos)' = 0
    BY <1>1 DEF Offset
  <2>3. QED
    BY <1>1, <1>4, <2>1, <2>2 DEF Intervals
<1>10. QED
  BY <1>5, <1>6, <1>7, <1>8, <1>9 DEF IInv

(* The first instruction of a block is not after any other of it. *)
LEMMA FirstOfFacts ==
    ASSUME IsFunction(fn), NEW i \in Insns
    PROVE  FirstOf(fn, i) \in 1..i
<1> DEFINE R == OpToRel(<, Nat)
           Same == { j \in 1..i : fn.block[j] = fn.block[i] }
<1>1. Len(fn.code) \in Nat /\ i \in Nat /\ i >= 1
  BY FunctionFacts DEF Insns
<1>2. Same \subseteq Nat /\ Same # {}
  BY <1>1
<1>3. IsWellFoundedOn(R, Nat)
  BY NatLessThanWellFounded
<1>4. \A x, y \in Nat : y < x => <<y, x>> \in R
  BY DEF OpToRel
<1> HIDE DEF R
<1>5. PICK m \in Same : \A y \in Same : ~ (<<y, m>> \in R)
  BY <1>2, <1>3, WFMin, Zenon
<1>6. m \in 1..i /\ fn.block[m] = fn.block[i]
  BY <1>5
<1>7. m = 1 \/ fn.block[m - 1] # fn.block[i]
  <2>1. ASSUME m # 1, fn.block[m - 1] = fn.block[i] PROVE FALSE
    <3>1. m - 1 \in 1..i /\ m - 1 < m /\ m \in Nat /\ m - 1 \in Nat
      BY <1>1, <1>6, <2>1
    <3>2. m - 1 \in Same
      BY <2>1, <3>1
    <3>3. QED
      BY <1>4, <1>5, <3>1, <3>2
  <2>2. QED
    BY <2>1
<1>8. QED
  BY <1>6, <1>7 DEF FirstOf

(* One instruction of the walk keeps the intervals good, only extends      *)
(* them, and covers its reads. *)
LEMMA ExtendRangesGood ==
    ASSUME NEW rs, NEW n \in Nat, NEW s \in 0..n, NEW ins, DOMAIN rs \subseteq Nat,
           ins.reads \subseteq Nat, ins.write \in Nat \cup {NoReg},
           \A r \in DOMAIN rs : Good(rs[r], n)
    PROVE  LET new == ExtendRanges(rs, ins, s, n)
           IN  /\ DOMAIN new \subseteq Nat /\ DOMAIN rs \subseteq DOMAIN new
               /\ \A r \in DOMAIN new : Good(new[r], n)
               /\ \A r \in DOMAIN rs : Extends(rs[r], new[r])
               /\ ins.write = NoReg =>
                     \A r \in ins.reads : r \in DOMAIN new /\ Covers(new[r], n)
<1> DEFINE new == ExtendRanges(rs, ins, s, n)
<1>1. \A r \in DOMAIN rs : /\ Good(EndLast(rs[r], n), n) /\ Extends(rs[r], EndLast(rs[r], n))
                           /\ Covers(EndLast(rs[r], n), n)
  BY EndLastGood
<1>2. \A r \in DOMAIN rs : Extends(rs[r], rs[r])
  <2>1. TAKE r \in DOMAIN rs
  <2>2. rs[r] \in Seq(LiveInterval)
    BY DEF Good
  <2>3. Len(rs[r]) \in Nat /\ \A k \in 1..Len(rs[r]) : rs[r][k].end \in Nat
    BY <2>2, IntervalFields
  <2>4. QED
    BY <2>3 DEF Extends
<1>3. CASE ins.write # NoReg
  <2> DEFINE w == ins.write
  <2>1. w \in Nat
    BY <1>3
  <2>2. /\ DOMAIN new = DOMAIN rs \cup {w}
        /\ \A r \in DOMAIN new : new[r] =
              IF r # w THEN rs[r]
              ELSE IF r \in DOMAIN rs THEN Append(EndLast(rs[r], n), OpenInterval(n))
              ELSE <<OpenInterval(n)>>
    BY <1>3 DEF ExtendRanges, WriteRange
  <2> HIDE DEF new
  <2>3. Good(<<OpenInterval(n)>>, n)
    <3>1. Good(<<[start |-> n, end |-> 0]>>, n)
      <4>1. n \in Nat /\ n <= n
        OBVIOUS
      <4>2. QED
        BY <4>1, OneGood
    <3>2. QED
      BY <3>1 DEF OpenInterval
  <2>4. \A r \in DOMAIN rs : /\ Good(Append(EndLast(rs[r], n), OpenInterval(n)), n)
                             /\ Extends(rs[r], Append(EndLast(rs[r], n), OpenInterval(n)))
    BY AppendGood
  <2>5. \A r \in DOMAIN new : Good(new[r], n)
    <3>1. TAKE r \in DOMAIN new
    <3>2. CASE r # w
      BY <2>2, <3>2
    <3>3. CASE r = w /\ r \in DOMAIN rs
      <4>1. new[r] = Append(EndLast(rs[r], n), OpenInterval(n))
        BY <2>2, <3>3
      <4>2. QED
        BY <2>4, <3>3, <4>1
    <3>4. CASE r = w /\ r \notin DOMAIN rs
      <4>1. new[r] = <<OpenInterval(n)>>
        BY <2>2, <3>4
      <4>2. QED
        BY <2>3, <4>1
    <3>5. QED
      BY <3>2, <3>3, <3>4
  <2>6. \A r \in DOMAIN rs : Extends(rs[r], new[r])
    <3>1. TAKE r \in DOMAIN rs
    <3>2. CASE r # w
      <4>1. new[r] = rs[r]
        BY <2>2, <3>2
      <4>2. QED
        BY <1>2, <4>1
    <3>3. CASE r = w
      <4>1. new[r] = Append(EndLast(rs[r], n), OpenInterval(n))
        BY <2>2, <3>3
      <4>2. QED
        BY <2>4, <4>1
    <3>4. QED
      BY <3>2, <3>3
  <2>7. DOMAIN new \subseteq Nat /\ DOMAIN rs \subseteq DOMAIN new
    BY <2>1, <2>2
  <2>8. QED
    BY <1>3, <2>5, <2>6, <2>7 DEF new
<1>4. CASE ins.write = NoReg
  <2>1. /\ DOMAIN new = DOMAIN rs \cup ins.reads
        /\ \A r \in DOMAIN new : new[r] =
              IF r \notin ins.reads THEN rs[r]
              ELSE IF r \in DOMAIN rs THEN EndLast(rs[r], n)
              ELSE <<[start |-> s, end |-> n]>>
    BY <1>4 DEF ExtendRanges, ReadRanges
  <2> HIDE DEF new
  <2>2. Good(<<[start |-> s, end |-> n]>>, n) /\ Covers(<<[start |-> s, end |-> n]>>, n)
    <3>1. Good(<<[start |-> s, end |-> n]>>, n)
      <4>1. s \in Nat /\ s <= n
        OBVIOUS
      <4>2. QED
        BY <4>1, OneGood
    <3>2. Covers(<<[start |-> s, end |-> n]>>, n)
      BY DEF Covers
    <3>3. QED
      BY <3>1, <3>2
  <2>3. ASSUME NEW r \in DOMAIN new
        PROVE  /\ Good(new[r], n)
               /\ r \in DOMAIN rs => Extends(rs[r], new[r])
               /\ r \in ins.reads => Covers(new[r], n)
    <3>1. CASE r \notin ins.reads
      <4>1. new[r] = rs[r] /\ r \in DOMAIN rs
        BY <2>1, <3>1
      <4>2. QED
        BY <1>2, <3>1, <4>1
    <3>2. CASE r \in ins.reads /\ r \in DOMAIN rs
      <4>1. new[r] = EndLast(rs[r], n)
        BY <2>1, <3>2
      <4>2. QED
        BY <1>1, <3>2, <4>1
    <3>3. CASE r \in ins.reads /\ r \notin DOMAIN rs
      <4>1. new[r] = <<[start |-> s, end |-> n]>>
        BY <2>1, <3>3
      <4>2. QED
        BY <2>2, <3>3, <4>1
    <3>4. QED
      BY <3>1, <3>2, <3>3
  <2>4. DOMAIN new \subseteq Nat /\ DOMAIN rs \subseteq DOMAIN new /\ ins.reads \subseteq DOMAIN new
    BY <2>1
  <2>5. QED
    BY <2>3, <2>4 DEF new
<1>5. QED
  BY <1>3, <1>4

LEMMA ExtendRangeKeeps == IInv /\ ExtendRange => IInv'
<1> SUFFICES ASSUME IInv, ExtendRange PROVE IInv'
  OBVIOUS
<1> DEFINE ins == fn.code[pos]
           n == Offset(pos)
           s == Offset(FirstOf(fn, pos))
<1>1. /\ pc = "ranges" /\ pc' = pc /\ pos <= Len(fn.code) /\ pos' = pos + 1
      /\ ranges' = ExtendRanges(ranges, ins, s, n)
      /\ fn' = fn /\ kill' = kill /\ ue' = ue /\ liveOut' = liveOut /\ changed' = changed
  BY DEF ExtendRange
<1>2. TypeOK /\ Positions /\ SetsWalked /\ BelowSolutions /\ Settled /\ Intervals
  BY DEF IInv
<1>3. /\ Len(fn.code) \in Nat /\ fn.count \in Nat /\ fn.count >= 2 /\ pos \in Insns
      /\ pos \in Nat
      /\ ins.reads \subseteq Nat /\ ins.write \in Nat \cup {NoReg}
      /\ DOMAIN ranges \subseteq Nat /\ \A r \in DOMAIN ranges : Good(ranges[r], n)
      /\ CoveredBefore(pos)
  <2>1. IsFunction(fn)
    BY <1>2 DEF TypeOK
  <2>2. Len(fn.code) \in Nat /\ fn.count \in Nat /\ fn.count >= 2 /\ Regs \subseteq Nat
    BY <2>1, FunctionFacts
  <2>3. pos \in Insns /\ pos \in Nat
    BY <1>1, <1>2, <2>2 DEF Positions, Insns
  <2>4. ins.reads \subseteq Regs /\ ins.write \in Regs \cup {NoReg}
    BY <2>1, <2>3, FunctionFacts
  <2>5. QED
    BY <1>1, <1>2, <2>2, <2>3, <2>4 DEF TypeOK, Intervals
<1>4. n \in Nat /\ s \in 0..n /\ n <= pos
  <2>1. FirstOf(fn, pos) \in 1..pos
    BY <1>2, <1>3, FirstOfFacts DEF TypeOK
  <2>2. QED
    BY <1>3, <2>1 DEF Offset, Insns
<1> HIDE DEF ins, n, s
<1>5. /\ DOMAIN ranges' \subseteq Nat /\ DOMAIN ranges \subseteq DOMAIN ranges'
      /\ \A r \in DOMAIN ranges' : Good(ranges'[r], n)
      /\ \A r \in DOMAIN ranges : Extends(ranges[r], ranges'[r])
      /\ ins.write = NoReg => \A r \in ins.reads : r \in DOMAIN ranges' /\ Covers(ranges'[r], n)
  BY <1>1, <1>3, <1>4, ExtendRangesGood
<1>6. TypeOK' /\ Positions'
  <2>1. pos' \in 0..(Len(fn.code) + fn.count) /\ pos' \in 1..(Len(fn.code) + 1)
    BY <1>1, <1>3
  <2>2. Blocks' = Blocks /\ Regs' = Regs
    BY <1>1 DEF Blocks, Regs
  <2>3. \A r \in DOMAIN ranges' : ranges'[r] \in Seq(LiveInterval)
    BY <1>5 DEF Good
  <2>4. QED
    BY <1>1, <1>2, <1>5, <2>1, <2>2, <2>3 DEF TypeOK, Positions
<1>7. SetsWalked'
  BY <1>1, <1>2, WalkedSame DEF SetsWalked
<1>8. BelowSolutions'
  BY <1>1, <1>2, BelowSame
<1>9. Settled'
  <2>1. Blocks' = Blocks /\ \A b : NewLiveOut(b)' = NewLiveOut(b)
    BY <1>1, NewLiveOutSame DEF Blocks
  <2>2. QED
    BY <1>1, <1>2, <2>1 DEF Settled
<1>10. Intervals'
  <2>1. \A r \in DOMAIN ranges' : Good(ranges'[r], pos)
    BY <1>3, <1>4, <1>5, GoodLater
  <2>2. Offset(pos)' = pos
    BY <1>1, <1>3 DEF Offset
  <2>3. ASSUME NEW i \in Insns, i < pos + 1, fn.code[i].write = NoReg, NEW r \in fn.code[i].reads
        PROVE  r \in DOMAIN ranges' /\ Covers(ranges'[r], Offset(i))
    <3>1. CASE i = pos
      <4>1. ins.write = NoReg /\ r \in ins.reads /\ Offset(i) = n
        BY <2>3, <3>1 DEF ins, n
      <4>2. QED
        BY <1>5, <4>1
    <3>2. CASE i # pos
      <4>1. i < pos /\ i \in Nat /\ Offset(i) \in Nat
        BY <1>3, <2>3, <3>2 DEF Insns, Offset
      <4>2. r \in DOMAIN ranges /\ Covers(ranges[r], Offset(i))
        BY <1>3, <2>3, <4>1 DEF CoveredBefore
      <4>3. Good(ranges[r], n) /\ Good(ranges'[r], n) /\ Extends(ranges[r], ranges'[r])
        BY <1>3, <1>5, <4>2
      <4>4. Covers(ranges'[r], Offset(i))
        BY <1>4, <4>1, <4>2, <4>3, CoversLater
      <4>5. QED
        BY <1>5, <4>2, <4>4
    <3>3. QED
      BY <3>1, <3>2
  <2>4. CoveredBefore(pos)'
    <3>1. Insns' = Insns /\ pos' = pos + 1
      BY <1>1 DEF Insns
    <3>2. QED
      BY <1>1, <2>3, <3>1 DEF CoveredBefore
  <2>5. QED
    BY <1>1, <2>1, <2>2, <2>4 DEF Intervals
<1>11. QED
  BY <1>6, <1>7, <1>8, <1>9, <1>10 DEF IInv

LEMMA FinishKeeps == IInv /\ Finish => IInv'
<1> SUFFICES ASSUME IInv, Finish PROVE IInv'
  OBVIOUS
<1>1. /\ pc = "ranges" /\ pc' = "done" /\ pos > Len(fn.code)
      /\ fn' = fn /\ pos' = pos /\ kill' = kill /\ ue' = ue /\ liveOut' = liveOut
      /\ changed' = changed /\ ranges' = ranges
  BY DEF Finish
<1>2. TypeOK /\ Positions /\ SetsWalked /\ BelowSolutions /\ Settled /\ Intervals
  BY DEF IInv
<1>3. Len(fn.code) \in Nat /\ pos = Len(fn.code) + 1 /\ Offset(pos) \in Nat
  <2>1. Len(fn.code) \in Nat
    BY <1>2, FunctionFacts DEF TypeOK
  <2>2. QED
    BY <1>1, <1>2, <2>1 DEF Positions, Offset
<1>4. TypeOK' /\ Positions'
  BY <1>1, <1>2 DEF TypeOK, Positions, Blocks, Regs
<1>5. SetsWalked' /\ Settled'
  BY <1>1 DEF SetsWalked, Settled
<1>6. BelowSolutions'
  BY <1>1, <1>2, BelowSame
<1>7. Intervals'
  <2>1. (\A r \in DOMAIN ranges : Good(ranges[r], Offset(pos))) /\ CoveredBefore(Len(fn.code) + 1)
    BY <1>1, <1>2, <1>3 DEF Intervals
  <2>2. CoveredBefore(Len(fn.code) + 1)'
    BY <1>1, <2>1 DEF CoveredBefore, Insns
  <2>3. \E m \in Nat : \A r \in DOMAIN ranges' : Good(ranges'[r], m)
    BY <1>1, <1>3, <2>1
  <2>4. QED
    BY <1>1, <2>2, <2>3 DEF Intervals
<1>8. QED
  BY <1>4, <1>5, <1>6, <1>7 DEF IInv

LEMMA Invariance == IInv /\ [Next]_vars => IInv'
<1> SUFFICES ASSUME IInv, [Next]_vars PROVE IInv'
  OBVIOUS
<1>1. CASE Next
  BY <1>1, BeginKeeps, KillUeKeeps, BeginLiveOutKeeps, LiveOutKeeps, NextRoundKeeps,
     BeginRangesKeeps, ExtendRangeKeeps, FinishKeeps DEF Next
<1>2. CASE UNCHANGED vars
  <2>1. /\ pc' = pc /\ fn' = fn /\ pos' = pos /\ kill' = kill /\ ue' = ue
        /\ liveOut' = liveOut /\ changed' = changed /\ ranges' = ranges
    BY <1>2 DEF vars
  <2>2. TypeOK' /\ Positions'
    BY <2>1 DEF IInv, TypeOK, Positions, Blocks, Regs
  <2>3. SetsWalked'
    <3>1. \A b, r, n : /\ Written(b, r, n)' <=> Written(b, r, n)
                       /\ Used(b, r, n)' <=> Used(b, r, n)
      BY <2>1 DEF Written, Used, InsnsOf, Insns
    <3>2. WalkedTo(pos)' <=> WalkedTo(pos)
      BY <2>1 DEF WalkedTo, Written, Used, InsnsOf, Insns, Blocks, Regs
    <3>3. WalkedTo(Len(fn.code) + 1)' <=> WalkedTo(Len(fn.code) + 1)
      BY <2>1 DEF WalkedTo, Written, Used, InsnsOf, Insns, Blocks, Regs
    <3>4. Empty(fn)' = Empty(fn)
      BY <2>1 DEF Empty
    <3>5. QED
      BY <2>1, <3>2, <3>3, <3>4 DEF IInv, SetsWalked
  <2>4. BelowSolutions'
    BY <2>1, BelowSame DEF IInv
  <2>5. Settled'
    <3>1. Blocks' = Blocks /\ \A b : NewLiveOut(b)' = NewLiveOut(b)
      BY <2>1, NewLiveOutSame DEF Blocks
    <3>2. QED
      BY <2>1, <3>1 DEF IInv, Settled
  <2>6. Intervals'
    BY <2>1 DEF IInv, Intervals, CoveredBefore, Insns, Offset
  <2>7. QED
    BY <2>2, <2>3, <2>4, <2>5, <2>6 DEF IInv
<1>3. QED
  BY <1>1, <1>2

LEMMA Inductive == Spec => []IInv
  BY InitIInv, Invariance, PTL DEF Spec

-----------------------------------------------------------------------------
(* The state of the pass has its type: the sets hold registers only, and   *)
(* intervals have a start and an end. *)
THEOREM TypeCorrect == Spec => []TypeOK
<1>1. IInv => TypeOK
  BY DEF IInv
<1>2. QED
  BY <1>1, Inductive, PTL

(* The intervals of a register abut, at every moment of the walk. *)
THEOREM IntervalsAbut == Spec => []RangesAbut
<1>1. ASSUME IInv PROVE RangesAbut
  <2>1. PICK n : \A r \in DOMAIN ranges : Good(ranges[r], n)
    <3>1. DOMAIN <<>> = {}
      OBVIOUS
    <3>2. QED
      BY <1>1, <3>1 DEF IInv, TypeOK, Intervals
  <2>2. \A r \in DOMAIN ranges : ranges[r] # <<>> /\ Abut(ranges[r])
    BY <2>1 DEF Good
  <2>3. QED
    BY <2>2 DEF RangesAbut, Abut
<1>2. QED
  BY <1>1, Inductive, PTL

(* Where an instruction that writes nothing reads a register, the register *)
(* is live in the ranges the pass leaves behind. *)
THEOREM ReadsAreLive == Spec => []ReadsCovered
<1>1. ASSUME IInv PROVE ReadsCovered
  <2>1. SUFFICES ASSUME pc = "done", fn.args.registerEnd > 0, NEW i \in Insns,
                        fn.code[i].write = NoReg, NEW r \in fn.code[i].reads
                 PROVE  r \in DOMAIN ranges /\ Covers(ranges[r], Offset(i))
    BY DEF ReadsCovered, Covers
  <2>2. Len(fn.code) \in Nat
    BY <1>1, FunctionFacts DEF IInv, TypeOK
  <2>3. i < Len(fn.code) + 1
    BY <2>2 DEF Insns
  <2>4. QED
    BY <1>1, <2>1, <2>3 DEF IInv, Intervals, CoveredBefore
<1>2. QED
  BY <1>1, Inductive, PTL

(* The least solution of the equations the code iterates: register r is in *)
(* the sets of exactly the blocks from which one that reads r before       *)
(* writing it, and has a successor, is reached without passing a block     *)
(* that writes r, that one included.                                       *)
LiveOutIsLeast ==
    pc = "ranges" =>
        \A r \in Regs :
            /\ OwnUses(r) \subseteq Found(r) /\ Closed(r, Found(r))
            /\ \A S \in SUBSET Found(r) : OwnUses(r) \subseteq S /\ Closed(r, S) => S = Found(r)

(* When computeLiveOuts stops, it has found the least solution of the      *)
(* equations it iterates, which are not those of the comment in it. *)
THEOREM FixpointIsLeast == Spec => []LiveOutIsLeast
<1>1. ASSUME IInv PROVE LiveOutIsLeast
  <2>1. SUFFICES ASSUME pc = "ranges", NEW r \in Regs
                 PROVE  /\ OwnUses(r) \subseteq Found(r) /\ Closed(r, Found(r))
                        /\ \A S \in SUBSET Found(r) :
                              OwnUses(r) \subseteq S /\ Closed(r, S) => S = Found(r)
    BY DEF LiveOutIsLeast
  <2>2. /\ TypeOK /\ WalkedTo(Len(fn.code) + 1)
        /\ \A b \in Blocks : liveOut[b] = NewLiveOut(b)
        /\ \A b \in Blocks : Succs(b) \subseteq Blocks
    <3>1. TypeOK /\ IsFunction(fn)
      BY <1>1 DEF IInv, TypeOK
    <3>2. QED
      BY <1>1, <2>1, <3>1, FunctionFacts DEF IInv, SetsWalked, Settled
  <2>3. \A b \in Blocks : r \in liveOut[b] <=>
             \E s \in Succs(b) : (r \in liveOut[s] /\ r \notin kill[s]) \/ r \in ue[b]
    BY <2>2 DEF NewLiveOut
  <2>4. \A b \in Blocks : (r \in kill[b] <=> r \in Killed(b)) /\ (r \in ue[b] <=> r \in UsedFirst(b))
    BY <2>2, WalkedSets
  <2>5. OwnUses(r) \subseteq Found(r)
    BY <2>3, <2>4 DEF OwnUses, Found
  <2>6. Closed(r, Found(r))
    <3>1. ASSUME NEW b \in Blocks, NEW s \in Succs(b), s \in Found(r), r \notin Killed(s)
          PROVE  b \in Found(r)
      <4>1. s \in Blocks /\ r \in liveOut[s] /\ r \notin kill[s]
        BY <2>2, <2>4, <3>1 DEF Found
      <4>2. QED
        BY <2>3, <3>1, <4>1 DEF Found
    <3>2. QED
      BY <3>1 DEF Closed
  <2>7. ASSUME NEW S \in SUBSET Found(r), OwnUses(r) \subseteq S, Closed(r, S)
        PROVE  S = Found(r)
    <3>1. S \in SUBSET Blocks /\ Solution(r, S)
      BY <2>7 DEF Solution, OwnUses, Found
    <3>2. Found(r) \subseteq S
      BY <1>1, <3>1 DEF IInv, BelowSolutions, Found
    <3>3. QED
      BY <3>2
  <2>8. QED
    BY <2>5, <2>6, <2>7
<1>2. QED
  BY <1>1, Inductive, PTL

(* What the sets have to do with liveness: a block has the registers it    *)
(* uses first itself, and beyond them exactly those that are live, by the  *)
(* equation in the comment, for users that do not write them as well. *)
THEOREM FixpointExplained == Spec => []LiveOutExplained
<1>1. ASSUME LiveOutIsLeast, TypeOK PROVE LiveOutExplained
  <2> DEFINE users(r) == { b \in OwnUses(r) : r \notin Killed(b) }
  <2>1. SUFFICES ASSUME pc = "ranges", NEW r \in Regs
                 PROVE  Found(r) = OwnUses(r) \cup LiveFor(r, users(r))
    BY DEF LiveOutExplained
  <2>2. /\ OwnUses(r) \subseteq Found(r) /\ Closed(r, Found(r))
        /\ \A S \in SUBSET Found(r) : OwnUses(r) \subseteq S /\ Closed(r, S) => S = Found(r)
    BY <1>1, <2>1 DEF LiveOutIsLeast
  <2>3. Found(r) \subseteq Blocks
    BY DEF Found
  <2>4. LiveFor(r, users(r)) \subseteq Found(r)
    <3>1. Solves(r, users(r), Found(r))
      BY <2>2 DEF Solves, Closed
    <3>2. QED
      BY <2>3, <3>1 DEF LiveFor
  <2>5. ASSUME NEW b \in Found(r), b \notin OwnUses(r),
               NEW S \in SUBSET Blocks, Solves(r, users(r), S)
        PROVE  b \in S
    <3> DEFINE T == { c \in Found(r) : c \in S \/ c \in OwnUses(r) }
    <3>1. OwnUses(r) \subseteq T
      BY <2>2
    <3>2. Closed(r, T)
      <4>1. SUFFICES ASSUME NEW c \in Blocks, NEW s \in Succs(c), s \in T, r \notin Killed(s)
                     PROVE  c \in T
        BY DEF Closed
      <4>2. c \in Found(r)
        BY <2>2, <4>1 DEF Closed
      <4>3. s \in S \/ s \in users(r)
        BY <4>1
      <4>4. c \in S
        BY <2>5, <4>1, <4>3 DEF Solves
      <4>5. QED
        BY <4>2, <4>4
    <3>3. T = Found(r)
      BY <2>2, <3>1, <3>2
    <3>4. QED
      BY <2>5, <3>3
  <2>6. Found(r) \subseteq OwnUses(r) \cup LiveFor(r, users(r))
    BY <2>3, <2>5 DEF LiveFor
  <2>7. QED
    BY <2>2, <2>4, <2>6
<1>2. QED
  BY <1>1, FixpointIsLeast, TypeCorrect, PTL

-----------------------------------------------------------------------------
(* What the walk promises the allocator.  The intervals of a register are  *)
(* in order not only pairwise next to each other (Ordered); every write    *)
(* passed began one (Begun); and what lies between a write of a register   *)
(* and the walk's position lies inside an interval or behind the start of  *)
(* the last one (Behind), which a read closes over it (Kept).              *)
Ordered(list) ==
    \A k, l \in 1..Len(list) :
        k < l => list[k].start <= list[k].end /\ list[k].end <= list[l].start

Inside(list, o) == \E k \in 1..Len(list) : list[k].start < o /\ o < list[k].end

PastLast(list, o) == list[Len(list)].start < o

(* Instruction w writes r, and i after it does not. *)
Between(w, i, r) ==
    w < i /\ r # NoReg /\ fn.code[w].write = r /\ fn.code[i].write # r

StartedBefore(n) ==
    \A r \in DOMAIN ranges : \A k \in 1..Len(ranges[r]) :
        n > 1 => ranges[r][k].start < Offset(n)

Begun(n) ==
    \A i \in Insns :
        i < n /\ fn.code[i].write # NoReg =>
            /\ fn.code[i].write \in DOMAIN ranges
            /\ \E k \in 1..Len(ranges[fn.code[i].write]) :
                  /\ ranges[fn.code[i].write][k].start = Offset(i)
                  /\ i > 1 => ranges[fn.code[i].write][k].end # Offset(i)

Behind(n) ==
    \A w, i \in Insns, r \in DOMAIN ranges :
        i < n /\ Between(w, i, r) =>
            PastLast(ranges[r], Offset(i)) \/ Inside(ranges[r], Offset(i))

Kept(n) ==
    \A w, i, u \in Insns, r \in DOMAIN ranges :
        /\ i < u /\ u < n /\ Between(w, i, r)
        /\ fn.code[u].write = NoReg /\ r \in fn.code[u].reads
        => Inside(ranges[r], Offset(i))

Promised(n) ==
    /\ DOMAIN ranges \subseteq Regs
    /\ \A r \in DOMAIN ranges : Ordered(ranges[r])
    /\ StartedBefore(n) /\ Begun(n) /\ Behind(n) /\ Kept(n)

Promise ==
    /\ fn.args.argumentEnd <= fn.args.registerEnd
    /\ pc \notin {"begin", "done"} => fn.args.registerEnd # 0
    /\ pc = "ranges" => Promised(pos)
    /\ pc = "done" => IF fn.args.registerEnd = 0 THEN ranges = <<>>
                      ELSE Promised(Len(fn.code) + 1)

(* Ending the last interval later keeps the order and what is inside.      *)
LEMMA EndLastOrdered ==
    ASSUME NEW n \in Nat, NEW list, Good(list, n), Ordered(list)
    PROVE  Ordered(EndLast(list, n))
<1> DEFINE new == EndLast(list, n)
           last == Len(list)
<1>1. /\ Len(new) = last /\ last \in Nat
      /\ \A k \in 1..(last - 1) : new[k] = list[k]
      /\ new[last].start = list[last].start
  BY EndLastGood DEF Good
<1> HIDE DEF new
<1> SUFFICES ASSUME NEW k \in 1..last, NEW l \in 1..last, k < l
             PROVE  new[k].start <= new[k].end /\ new[k].end <= new[l].start
  BY <1>1 DEF Ordered, new
<1>2. k \in 1..(last - 1) /\ new[k] = list[k]
  BY <1>1
<1>3. new[l].start = list[l].start
  <2>1. l \in 1..(last - 1) \/ l = last
    BY <1>1
  <2>2. QED
    BY <1>1, <2>1
<1>4. list[k].start <= list[k].end /\ list[k].end <= list[l].start
  BY DEF Ordered
<1>5. QED
  BY <1>2, <1>3, <1>4

LEMMA AppendOrdered ==
    ASSUME NEW n \in Nat, NEW list, Good(list, n), Ordered(list)
    PROVE  Ordered(Append(EndLast(list, n), OpenInterval(n)))
<1> DEFINE ended == EndLast(list, n)
           last == Len(list)
           open == OpenInterval(n)
           new == Append(ended, open)
<1>1. /\ ended \in Seq(LiveInterval) /\ Len(ended) = last /\ last \in Nat
      /\ Good(ended, n) /\ Ordered(ended)
      /\ ended[last].end = n
  BY EndLastGood, EndLastOrdered DEF Good
<1>2. open \in LiveInterval /\ open.start = n
  BY DEF LiveInterval, OpenInterval
<1> HIDE DEF ended, open
<1>3. /\ Len(new) = last + 1 /\ \A k \in 1..last : new[k] = ended[k]
      /\ new[last + 1] = open
  BY <1>1, <1>2
<1> HIDE DEF new
<1>4. \A k \in 1..last : ended[k].start <= n /\ ended[k].end <= n
  BY <1>1 DEF Good
<1>5. Ordered(new)
  <2> SUFFICES ASSUME NEW k \in 1..(last + 1), NEW l \in 1..(last + 1), k < l
               PROVE  new[k].start <= new[k].end /\ new[k].end <= new[l].start
    BY <1>3 DEF Ordered
  <2>1. k \in 1..last
    BY <1>1
  <2>2. CASE l \in 1..last
    BY <1>1, <1>3, <2>1, <2>2 DEF Ordered
  <2>3. CASE l = last + 1 /\ k < last
    <3>1. last \in 1..last
      BY <1>1, <2>1
    <3>2. ended[k].start <= ended[k].end
      BY <1>1, <2>1, <2>3, <3>1 DEF Ordered
    <3>3. QED
      BY <1>2, <1>3, <1>4, <2>1, <2>3, <3>2
  <2>4. CASE l = last + 1 /\ k = last
    BY <1>1, <1>2, <1>3, <1>4, <2>1, <2>4
  <2>5. QED
    BY <1>1, <2>1, <2>2, <2>3, <2>4
<1>6. QED
  BY <1>5 DEF new, ended, open

(* What lies inside an interval keeps lying inside one. *)
LEMMA InsideLater ==
    ASSUME NEW n \in Nat, NEW o \in Nat, NEW old, NEW new,
           Good(old, n), Good(new, n), Extends(old, new), Inside(old, o)
    PROVE  Inside(new, o)
<1>1. PICK k \in 1..Len(old) : old[k].start < o /\ o < old[k].end
  BY DEF Inside
<1>2. old \in Seq(LiveInterval) /\ new \in Seq(LiveInterval) /\ Len(old) <= Len(new)
  BY DEF Good, Extends
<1>3. k \in 1..Len(new) /\ new[k].start = old[k].start /\ old[k].end <= new[k].end
  BY <1>2 DEF Extends
<1>4. old[k].end \in Nat /\ new[k].end \in Nat
  BY <1>1, <1>2, <1>3, IntervalFields
<1>5. QED
  BY <1>1, <1>3, <1>4 DEF Inside

(* One instruction of the walk leaves a register's intervals alone, ends   *)
(* the last one at the instruction, opens another, or begins the list.     *)
Step(old, new, n) ==
    \/ new = old
    \/ new = EndLast(old, n)
    \/ new = Append(EndLast(old, n), OpenInterval(n))

LEMMA StepKeeps ==
    ASSUME NEW n \in Nat, NEW old, NEW new, Good(old, n), Ordered(old), Step(old, new, n)
    PROVE  /\ Good(new, n) /\ Ordered(new) /\ Extends(old, new)
           /\ \A k \in 1..Len(old) : k \in 1..Len(new) /\ new[k].start = old[k].start
           /\ \A k \in 1..Len(old) : new[k].end = old[k].end \/ new[k].end = n
           /\ new # Append(EndLast(old, n), OpenInterval(n)) =>
                 Len(new) = Len(old) /\ new[Len(new)].start = old[Len(old)].start
<1> DEFINE last == Len(old)
           ended == EndLast(old, n)
<1>1. old \in Seq(LiveInterval) /\ last \in Nat /\ last \in 1..last
      /\ \A k \in 1..last : old[k].end \in Nat
  BY IntervalFields DEF Good
<1>2. /\ Good(ended, n) /\ Ordered(ended) /\ Extends(old, ended)
      /\ ended \in Seq(LiveInterval) /\ Len(ended) = last
      /\ \A k \in 1..(last - 1) : ended[k] = old[k]
      /\ ended[last].start = old[last].start /\ ended[last].end = n
  <2>1. Good(ended, n) /\ Ordered(ended) /\ Extends(old, ended)
    BY EndLastGood, EndLastOrdered
  <2>2. /\ ended \in Seq(LiveInterval) /\ Len(ended) = last
        /\ ended[last].start = old[last].start /\ ended[last].end = n
    BY EndLastGood
  <2>3. \A k \in 1..(last - 1) : ended[k] = old[k]
    BY EndLastGood
  <2>4. QED
    BY <2>1, <2>2, <2>3
<1>3. \A k \in 1..last : /\ ended[k].start = old[k].start
                         /\ ended[k].end = old[k].end \/ ended[k].end = n
  <2>1. \A k \in 1..last : k \in 1..(last - 1) \/ k = last
    BY <1>1
  <2>2. QED
    BY <1>2, <2>1
<1>4. CASE new = old
  <2>1. Extends(old, old)
    BY <1>1 DEF Extends
  <2>2. QED
    BY <1>1, <1>4, <2>1
<1>5. CASE new = ended
  <2> HIDE DEF ended
  <2>1. QED
    BY <1>1, <1>2, <1>3, <1>5
<1>6. CASE new = Append(ended, OpenInterval(n))
  <2>1. Good(new, n) /\ Extends(old, new) /\ Ordered(new)
    BY <1>6, AppendGood, AppendOrdered
  <2>2. OpenInterval(n) \in LiveInterval
    BY DEF OpenInterval, LiveInterval
  <2> HIDE DEF ended
  <2>3. Len(new) = last + 1 /\ \A k \in 1..last : new[k] = ended[k] /\ k \in 1..Len(new)
    BY <1>1, <1>2, <1>6, <2>2
  <2>4. QED
    BY <1>3, <1>6, <2>1, <2>3 DEF ended
<1>7. QED
  BY <1>4, <1>5, <1>6 DEF Step

(* What instruction ins, at n, does to the map rs, register by register.   *)
Walked(rs, new, ins, s, n) ==
    /\ DOMAIN rs \subseteq DOMAIN new
    /\ DOMAIN new \subseteq DOMAIN rs \cup ins.reads \cup ({ins.write} \ {NoReg})
    /\ \A r \in DOMAIN rs : Step(rs[r], new[r], n)
    /\ \A r \in DOMAIN rs :
          IF r = ins.write THEN new[r] = Append(EndLast(rs[r], n), OpenInterval(n))
          ELSE new[r] = rs[r] \/ new[r] = EndLast(rs[r], n)
    /\ ins.write = NoReg =>
          \A r \in DOMAIN rs \cap ins.reads : new[r] = EndLast(rs[r], n)
    /\ \A r \in DOMAIN new \ DOMAIN rs :
          IF r = ins.write THEN new[r] = <<OpenInterval(n)>>
          ELSE new[r] = <<[start |-> s, end |-> n]>>
    /\ ins.write # NoReg => ins.write \in DOMAIN new

LEMMA RangesStep ==
    ASSUME NEW rs, NEW n \in Nat, NEW s, NEW ins,
           NoReg \notin DOMAIN rs, NoReg \notin ins.reads
    PROVE  Walked(rs, ExtendRanges(rs, ins, s, n), ins, s, n)
<1> DEFINE new == ExtendRanges(rs, ins, s, n)
<1>1. CASE ins.write # NoReg
  <2>1. /\ DOMAIN new = DOMAIN rs \cup {ins.write}
        /\ \A r \in DOMAIN new : new[r] =
              IF r # ins.write THEN rs[r]
              ELSE IF r \in DOMAIN rs THEN Append(EndLast(rs[r], n), OpenInterval(n))
              ELSE <<OpenInterval(n)>>
    BY <1>1 DEF ExtendRanges, WriteRange
  <2> HIDE DEF new
  <2>2. QED
    BY <1>1, <2>1, Zenon DEF Walked, Step, new
<1>2. CASE ins.write = NoReg
  <2>1. /\ DOMAIN new = DOMAIN rs \cup ins.reads
        /\ \A r \in DOMAIN new : new[r] =
              IF r \notin ins.reads THEN rs[r]
              ELSE IF r \in DOMAIN rs THEN EndLast(rs[r], n)
              ELSE <<[start |-> s, end |-> n]>>
    BY <1>2 DEF ExtendRanges, ReadRanges
  <2> HIDE DEF new
  <2>2. QED
    BY <1>2, <2>1 DEF Walked, Step, new
<1>3. QED
  BY <1>1, <1>2

-----------------------------------------------------------------------------
(* The promise is kept. *)
LEMMA PromiseBeginRanges ==
    ASSUME IInv, Promise, BeginRanges
    PROVE  Promise'
<1>1. /\ pc' = "ranges" /\ pos' = 1 /\ ranges' = ArgumentRanges(fn.args) /\ fn' = fn
      /\ fn.args.registerEnd \in Nat /\ fn.args.argumentEnd \in Nat
      /\ Len(fn.code) \in Nat /\ fn.args.argumentEnd <= fn.args.registerEnd
  BY FunctionFacts DEF BeginRanges, IInv, TypeOK, Promise
<1>2. /\ DOMAIN ranges' = 0..(fn.args.argumentEnd - 1)
      /\ \A r \in DOMAIN ranges' : ranges'[r] = <<OpenInterval(0)>>
  BY <1>1 DEF ArgumentRanges
<1>3. DOMAIN ranges' \subseteq Regs'
  BY <1>1, <1>2 DEF Regs
<1>4. \A r \in DOMAIN ranges' : Ordered(ranges'[r])
  BY <1>2 DEF Ordered
<1>5. StartedBefore(1)' /\ Begun(1)' /\ Behind(1)' /\ Kept(1)'
  BY <1>1 DEF StartedBefore, Begun, Behind, Kept, Insns
<1>6. QED
  BY <1>1, <1>3, <1>4, <1>5 DEF Promise, Promised, BeginRanges

(* What a step of the walk gives, in the words of the invariant.           *)
LEMMA WalkStep ==
    ASSUME IInv, ExtendRange, Promised(pos)
    PROVE  LET ins == fn.code[pos]
               n == Offset(pos)
           IN  /\ fn' = fn /\ pos' = pos + 1 /\ pos \in Insns /\ Insns \subseteq Nat
               /\ n \in Nat /\ n = pos - 1 /\ pos >= 1
               /\ ins.reads \subseteq Regs /\ ins.write \in Regs \cup {NoReg}
               /\ Regs \subseteq Nat /\ DOMAIN ranges \subseteq Regs
               /\ \A r \in DOMAIN ranges : Good(ranges[r], n) /\ Ordered(ranges[r])
               /\ \A r \in DOMAIN ranges' : Good(ranges'[r], n)
               /\ ranges' = ExtendRanges(ranges, ins, Offset(FirstOf(fn, pos)), n)
<1> DEFINE ins == fn.code[pos]
           n == Offset(pos)
           s == Offset(FirstOf(fn, pos))
<1>1. /\ pc = "ranges" /\ pos <= Len(fn.code) /\ pos' = pos + 1 /\ fn' = fn
      /\ ranges' = ExtendRanges(ranges, ins, s, n)
  BY DEF ExtendRange
<1>2. IsFunction(fn) /\ pos \in 1..(Len(fn.code) + 1)
      /\ DOMAIN ranges \subseteq Nat /\ \A r \in DOMAIN ranges : Good(ranges[r], n)
  BY <1>1 DEF IInv, TypeOK, Positions, Intervals
<1>3. Len(fn.code) \in Nat /\ Regs \subseteq Nat
  BY <1>2, FunctionFacts
<1>4. pos \in Insns /\ Insns \subseteq Nat /\ n \in Nat /\ n = pos - 1 /\ pos >= 1
  BY <1>1, <1>2, <1>3 DEF Insns, Offset
<1>5. ins.reads \subseteq Regs /\ ins.write \in Regs \cup {NoReg}
  BY <1>2, <1>4, FunctionFacts
<1>6. s \in 0..n
  <2>1. FirstOf(fn, pos) \in 1..pos
    BY <1>2, <1>4, FirstOfFacts
  <2>2. QED
    BY <1>4, <2>1 DEF Offset
<1>7. \A r \in DOMAIN ranges' : Good(ranges'[r], n)
  <2>1. ins.reads \subseteq Nat /\ ins.write \in Nat \cup {NoReg}
    BY <1>3, <1>5
  <2> HIDE DEF ins, n, s
  <2>2. QED
    BY <1>1, <1>2, <1>4, <1>6, <2>1, ExtendRangesGood
<1>8. QED
  BY <1>1, <1>2, <1>3, <1>4, <1>5, <1>7 DEF Promised

LEMMA PromiseExtendRange ==
    ASSUME IInv, Promise, ExtendRange
    PROVE  Promise'
<1> DEFINE ins == fn.code[pos]
           n == Offset(pos)
           s == Offset(FirstOf(fn, pos))
<1>1. pc = "ranges" /\ pc' = "ranges" /\ Promised(pos)
  BY DEF ExtendRange, Promise
<1>2. /\ fn' = fn /\ pos' = pos + 1 /\ pos \in Insns /\ Insns \subseteq Nat
      /\ n \in Nat /\ n = pos - 1 /\ pos >= 1
      /\ ins.reads \subseteq Regs /\ ins.write \in Regs \cup {NoReg}
      /\ Regs \subseteq Nat /\ DOMAIN ranges \subseteq Regs
      /\ \A r \in DOMAIN ranges : Good(ranges[r], n) /\ Ordered(ranges[r])
      /\ \A r \in DOMAIN ranges' : Good(ranges'[r], n)
      /\ ranges' = ExtendRanges(ranges, ins, s, n)
  BY <1>1, WalkStep
<1>3. NoReg \notin DOMAIN ranges /\ NoReg \notin ins.reads
  BY <1>2, NoRegAssumption
<1> HIDE DEF s
<1>a. Walked(ranges, ranges', ins, s, n)
  BY <1>2, <1>3, RangesStep
<1>4. /\ DOMAIN ranges \subseteq DOMAIN ranges'
      /\ DOMAIN ranges' \subseteq DOMAIN ranges \cup ins.reads \cup ({ins.write} \ {NoReg})
      /\ \A r \in DOMAIN ranges :
            /\ Step(ranges[r], ranges'[r], n)
            /\ IF r = ins.write
               THEN ranges'[r] = Append(EndLast(ranges[r], n), OpenInterval(n))
               ELSE ranges'[r] = ranges[r] \/ ranges'[r] = EndLast(ranges[r], n)
      /\ ins.write = NoReg =>
            \A r \in DOMAIN ranges \cap ins.reads : ranges'[r] = EndLast(ranges[r], n)
      /\ \A r \in DOMAIN ranges' \ DOMAIN ranges :
            IF r = ins.write THEN ranges'[r] = <<OpenInterval(n)>>
            ELSE ranges'[r] = <<[start |-> s, end |-> n]>>
      /\ ins.write # NoReg => ins.write \in DOMAIN ranges'
  <2> HIDE DEF ins, n
  <2>1. QED
    BY <1>a DEF Walked
<1>5. Regs' = Regs /\ Insns' = Insns /\ \A w, i, r : Between(w, i, r)' <=> Between(w, i, r)
  BY <1>2 DEF Regs, Insns, Between
<1>6. DOMAIN ranges' \subseteq Regs'
  BY <1>2, <1>4, <1>5
<1>7. \A r \in DOMAIN ranges' : Ordered(ranges'[r])
  <2> TAKE r \in DOMAIN ranges'
  <2>1. CASE r \in DOMAIN ranges
    BY <1>2, <1>4, <2>1, StepKeeps
  <2>2. CASE r \notin DOMAIN ranges
    <3>1. \A x : Ordered(<<x>>)
      BY DEF Ordered
    <3>2. QED
      BY <1>4, <2>2, <3>1
  <2>3. QED
    BY <2>1, <2>2
<1>8. \A r \in DOMAIN ranges : Good(ranges'[r], n) /\ Extends(ranges[r], ranges'[r])
  BY <1>2, <1>4, StepKeeps
<1>9. StartedBefore(pos)'
  <2>1. \A r \in DOMAIN ranges' : \A k \in 1..Len(ranges'[r]) :
           ranges'[r][k].start <= n /\ ranges'[r][k].start \in Nat
    BY <1>2, IntervalFields DEF Good
  <2>2. n < Offset(pos + 1) /\ Offset(pos + 1) \in Nat
    BY <1>2 DEF Offset
  <2>3. QED
    BY <1>2, <2>1, <2>2 DEF StartedBefore
<1>10. Begun(pos)'
  <2> SUFFICES ASSUME NEW i \in Insns, i < pos + 1, fn.code[i].write # NoReg
               PROVE  /\ fn.code[i].write \in DOMAIN ranges'
                      /\ \E k \in 1..Len(ranges'[fn.code[i].write]) :
                            /\ ranges'[fn.code[i].write][k].start = Offset(i)
                            /\ i > 1 => ranges'[fn.code[i].write][k].end # Offset(i)
    BY <1>2, <1>5 DEF Begun
  <2> DEFINE r == fn.code[i].write
  <2>1. CASE i = pos
    <3>1. r = ins.write /\ r \in DOMAIN ranges' /\ Offset(i) = n
      BY <1>4, <2>1
    <3>2. \E k \in 1..Len(ranges'[r]) : ranges'[r][k] = OpenInterval(n)
      <4>1. CASE r \in DOMAIN ranges
        <5>1. ranges'[r] = Append(EndLast(ranges[r], n), OpenInterval(n))
          BY <1>4, <3>1, <4>1
        <5>2. EndLast(ranges[r], n) \in Seq(LiveInterval) /\ OpenInterval(n) \in LiveInterval
          <6>1. Good(ranges[r], n)
            BY <1>2, <4>1
          <6>2. OpenInterval(n) \in LiveInterval
            BY <1>2 DEF OpenInterval, LiveInterval
          <6>3. QED
            BY <1>2, <6>1, <6>2, EndLastGood
        <5> DEFINE m == Len(EndLast(ranges[r], n)) + 1
        <5>3. m \in 1..Len(ranges'[r]) /\ ranges'[r][m] = OpenInterval(n)
          BY <5>1, <5>2
        <5>4. QED
          BY <5>3
      <4>2. CASE r \notin DOMAIN ranges
        <5>1. ranges'[r] = <<OpenInterval(n)>>
          BY <1>4, <3>1, <4>2
        <5>2. 1 \in 1..Len(ranges'[r]) /\ ranges'[r][1] = OpenInterval(n)
          BY <5>1
        <5>3. QED
          BY <5>2
      <4>3. QED
        BY <4>1, <4>2
    <3>3. OpenInterval(n).start = n /\ OpenInterval(n).end = 0
      BY DEF OpenInterval
    <3>4. i > 1 => n # 0
      BY <1>2, <2>1
    <3>5. QED
      BY <3>1, <3>2, <3>3, <3>4
  <2>2. CASE i # pos
    <3>1. i < pos /\ Offset(i) < n /\ i \in Nat
      BY <1>2, <2>2 DEF Offset
    <3>2. /\ r \in DOMAIN ranges
          /\ \E k \in 1..Len(ranges[r]) :
                ranges[r][k].start = Offset(i) /\ (i > 1 => ranges[r][k].end # Offset(i))
      BY <1>1, <3>1 DEF Promised, Begun
    <3>3. PICK k \in 1..Len(ranges[r]) :
             ranges[r][k].start = Offset(i) /\ (i > 1 => ranges[r][k].end # Offset(i))
      BY <3>2
    <3>4. /\ k \in 1..Len(ranges'[r]) /\ ranges'[r][k].start = ranges[r][k].start
          /\ ranges'[r][k].end = ranges[r][k].end \/ ranges'[r][k].end = n
      BY <1>2, <1>4, <3>2, StepKeeps
    <3>5. n # Offset(i)
      BY <1>2, <3>1 DEF Offset
    <3>6. QED
      BY <1>4, <3>2, <3>3, <3>4, <3>5
  <2>3. QED
    BY <2>1, <2>2
<1>11. \A r \in DOMAIN ranges, o \in Nat :
         Inside(ranges[r], o) => Inside(ranges'[r], o)
  BY <1>2, <1>8, InsideLater
(* What was behind the last start still is, or is enclosed by a new write. *)
<1>12. ASSUME NEW w \in Insns, NEW i \in Insns, NEW r \in DOMAIN ranges',
              i < pos + 1, Between(w, i, r)
       PROVE  /\ r \in DOMAIN ranges /\ Offset(i) \in Nat
              /\ r # ins.write => PastLast(ranges[r], Offset(i)) \/ Inside(ranges[r], Offset(i))
              /\ i < pos => PastLast(ranges[r], Offset(i)) \/ Inside(ranges[r], Offset(i))
  <2>1. w < i /\ w < pos /\ r = fn.code[w].write /\ r # NoReg /\ w \in Nat /\ i \in Nat
        /\ w >= 1
    BY <1>2, <1>12 DEF Between, Insns
  <2>2. r \in DOMAIN ranges
    BY <1>1, <2>1 DEF Promised, Begun
  <2>3. Offset(i) \in Nat
    BY <2>1 DEF Offset
  <2>4. i < pos => PastLast(ranges[r], Offset(i)) \/ Inside(ranges[r], Offset(i))
    BY <1>1, <1>12, <2>2 DEF Promised, Behind
  <2>5. i = pos => PastLast(ranges[r], Offset(i))
    <3>1. ranges[r] \in Seq(LiveInterval) /\ ranges[r] # <<>>
      BY <1>2, <2>2 DEF Good
    <3>2. Len(ranges[r]) \in 1..Len(ranges[r])
      BY <3>1
    <3>3. i = pos => pos > 1
      BY <1>2, <2>1
    <3>4. QED
      BY <1>1, <2>2, <3>2, <3>3 DEF Promised, StartedBefore, PastLast
  <2>6. i < pos \/ i = pos
    BY <1>2, <1>12, <2>1
  <2>7. QED
    BY <2>2, <2>3, <2>4, <2>5, <2>6
(* An interval ended at n holds whatever lies between its start and n.     *)
<1>13. ASSUME NEW r \in DOMAIN ranges, NEW o \in Nat, o < n, PastLast(ranges[r], o)
       PROVE  /\ Inside(EndLast(ranges[r], n), o)
              /\ Inside(Append(EndLast(ranges[r], n), OpenInterval(n)), o)
  <2> DEFINE list == ranges[r]
             ended == EndLast(list, n)
             last == Len(list)
  <2>1. Good(list, n) /\ list \in Seq(LiveInterval) /\ last \in 1..last
    BY <1>2 DEF Good
  <2>2. /\ ended \in Seq(LiveInterval) /\ Len(ended) = last
        /\ ended[last].start = list[last].start /\ ended[last].end = n
    BY <1>2, <2>1, EndLastGood
  <2>3. OpenInterval(n) \in LiveInterval
    BY <1>2 DEF OpenInterval, LiveInterval
  <2>4. list[last].start < o
    BY <1>13 DEF PastLast
  <2> HIDE DEF ended, list
  <2>5. Inside(ended, o)
    BY <1>13, <2>1, <2>2, <2>4 DEF Inside
  <2>6. /\ last \in 1..Len(Append(ended, OpenInterval(n)))
        /\ Append(ended, OpenInterval(n))[last] = ended[last]
    BY <2>1, <2>2, <2>3
  <2>7. Inside(Append(ended, OpenInterval(n)), o)
    BY <1>13, <2>2, <2>4, <2>6 DEF Inside
  <2>8. QED
    BY <2>5, <2>7 DEF ended, list
<1>14. Behind(pos)'
  <2> SUFFICES ASSUME NEW w \in Insns, NEW i \in Insns, NEW r \in DOMAIN ranges',
                      i < pos + 1, Between(w, i, r)
               PROVE  PastLast(ranges'[r], Offset(i)) \/ Inside(ranges'[r], Offset(i))
    BY <1>2, <1>5 DEF Behind
  <2>1. /\ r \in DOMAIN ranges /\ Offset(i) \in Nat
        /\ r # ins.write => PastLast(ranges[r], Offset(i)) \/ Inside(ranges[r], Offset(i))
        /\ i < pos => PastLast(ranges[r], Offset(i)) \/ Inside(ranges[r], Offset(i))
    BY <1>12
  <2>2. CASE r # ins.write
    <3>1. ranges'[r] = ranges[r] \/ ranges'[r] = EndLast(ranges[r], n)
      BY <1>4, <2>1, <2>2
    <3>2. PastLast(ranges[r], Offset(i)) => PastLast(ranges'[r], Offset(i))
      <4>1. /\ Len(EndLast(ranges[r], n)) = Len(ranges[r])
            /\ EndLast(ranges[r], n)[Len(ranges[r])].start = ranges[r][Len(ranges[r])].start
        BY <1>2, <2>1, EndLastGood
      <4>2. QED
        BY <3>1, <4>1 DEF PastLast
    <3>3. QED
      BY <1>11, <2>1, <2>2, <3>2
  <2>3. CASE r = ins.write
    <3>1. i # pos
      BY <2>3 DEF Between
    <3>2. i < pos /\ Offset(i) < n
      BY <1>2, <3>1 DEF Offset
    <3>3. ranges'[r] = Append(EndLast(ranges[r], n), OpenInterval(n))
      BY <1>4, <2>1, <2>3
    <3>4. QED
      BY <1>11, <1>13, <2>1, <3>2, <3>3
  <2>4. QED
    BY <2>2, <2>3
<1>15. Kept(pos)'
  <2> SUFFICES ASSUME NEW w \in Insns, NEW i \in Insns, NEW u \in Insns,
                      NEW r \in DOMAIN ranges', i < u, u < pos + 1, Between(w, i, r),
                      fn.code[u].write = NoReg, r \in fn.code[u].reads
               PROVE  Inside(ranges'[r], Offset(i))
    BY <1>2, <1>5 DEF Kept
  <2>1. i < pos /\ i < pos + 1 /\ Offset(i) < n
    BY <1>2 DEF Offset
  <2>2. /\ r \in DOMAIN ranges /\ Offset(i) \in Nat
        /\ PastLast(ranges[r], Offset(i)) \/ Inside(ranges[r], Offset(i))
    BY <1>12, <2>1
  <2>3. CASE u = pos
    <3>1. ranges'[r] = EndLast(ranges[r], n)
      BY <1>4, <2>2, <2>3
    <3>2. QED
      BY <1>11, <1>13, <2>1, <2>2, <3>1
  <2>4. CASE u # pos
    <3>1. u < pos
      <4>1. u \in Nat /\ pos \in Nat
        BY <1>2
      <4>2. QED
        BY <2>4, <4>1
    <3>2. Inside(ranges[r], Offset(i))
      BY <1>1, <2>2, <3>1 DEF Promised, Kept
    <3>3. QED
      BY <1>11, <2>2, <3>2
  <2>5. QED
    BY <2>3, <2>4
<1>16. QED
  BY <1>1, <1>2, <1>6, <1>7, <1>9, <1>10, <1>14, <1>15 DEF Promise, Promised

LEMMA PromiseStep ==
    ASSUME IInv, Promise, [Next]_vars
    PROVE  Promise'
<1>1. CASE Begin
  <2>1. fn' = fn /\ ranges' = ranges /\ pc = "begin" /\ ranges = <<>>
        /\ pc' = IF fn.args.registerEnd = 0 THEN "done" ELSE "killue"
    BY <1>1 DEF Begin, IInv, Intervals
  <2>2. QED
    BY <2>1 DEF Promise
<1>2. CASE KillUe \/ BeginLiveOut \/ LiveOut \/ NextRound
  BY <1>2 DEF KillUe, BeginLiveOut, LiveOut, NextRound, Promise
<1>3. CASE Finish
  <2>1. /\ pc = "ranges" /\ pc' = "done" /\ pos = Len(fn.code) + 1
        /\ fn' = fn /\ ranges' = ranges /\ Promised(Len(fn.code) + 1)
    <3>1. pc = "ranges" /\ pos > Len(fn.code) /\ pc' = "done" /\ fn' = fn /\ ranges' = ranges
      BY <1>3 DEF Finish
    <3>2. Len(fn.code) \in Nat /\ pos \in 1..(Len(fn.code) + 1)
      BY <3>1, FunctionFacts DEF IInv, TypeOK, Positions
    <3>3. pos = Len(fn.code) + 1
      BY <3>1, <3>2
    <3>4. QED
      BY <3>1, <3>3 DEF Promise
  <2>2. fn.args.registerEnd # 0
    BY <2>1 DEF Promise
  <2>3. QED
    BY <2>1, <2>2 DEF Promise, Promised, Regs, StartedBefore, Begun, Behind, Kept,
       Insns, Between
<1>4. CASE UNCHANGED vars
  BY <1>4 DEF vars, Promise, Promised, Regs, StartedBefore, Begun, Behind, Kept, Insns, Between
<1>5. QED
  BY <1>1, <1>2, <1>3, <1>4, PromiseBeginRanges, PromiseExtendRange DEF Next

LEMMA PromiseInvariance == Spec => []Promise
<1>1. Init => Promise
  BY ArgumentsAssumption DEF Init, Promise
<1>2. IInv /\ Promise /\ [Next]_vars => Promise'
  BY PromiseStep
<1>3. QED
  BY <1>1, <1>2, Inductive, PTL DEF Spec

(* The ranges the pass leaves behind are as register allocation needs them, *)
(* for every function.                                                      *)
THEOREM RangesReady == Spec => []RangesAsAssumed
<1>1. ASSUME IInv, Promise PROVE RangesAsAssumed
  <2> SUFFICES ASSUME pc = "done"
               PROVE  RangesFit(fn.args, fn.code, RangeEntries(ranges))
    BY DEF RangesAsAssumed
  <2> DEFINE entries == RangeEntries(ranges)
             end == Len(fn.code) + 1
  <2>1. IsFunction(fn)
    BY <1>1 DEF IInv, TypeOK
  <2>2. /\ Len(fn.code) \in Nat /\ fn.args.registerEnd \in Nat /\ Insns \subseteq Nat
        /\ \A i \in Insns : i >= 1 /\ i < end
    BY <2>1, FunctionFacts DEF Insns
  <2>3. \A i \in Insns : fn.code[i].write \in Regs \cup {NoReg}
    BY <2>1, FunctionFacts
  <2>4. \A p : p \in entries <=>
           \E r \in DOMAIN ranges : \E k \in 1..Len(ranges[r]) :
              p = [reg |-> r, index |-> k, start |-> ranges[r][k].start,
                   end |-> ranges[r][k].end]
    BY DEF RangeEntries
  <2> HIDE DEF entries
  <2>5. CASE fn.args.registerEnd = 0
    <3>1. ranges = <<>>
      BY <1>1, <2>5 DEF Promise
    <3>2. DOMAIN ranges = {}
      BY <3>1
    <3>3. entries = {}
      BY <2>4, <3>2
    <3>4. \A i \in Insns : fn.code[i].write = NoReg
      BY <2>3, <2>5 DEF Regs
    <3>5. QED
      BY <3>3, <3>4 DEF RangesFit, RegistersOnly, InOrder, WritesBegin, HeldBetween,
         Insns, entries
  <2>6. CASE fn.args.registerEnd # 0
    <3>1. Promised(end)
      BY <1>1, <2>6 DEF Promise
    <3>2. DOMAIN ranges \subseteq Regs
      BY <3>1 DEF Promised
    <3>3. RegistersOnly(fn.args, entries)
      <4> SUFFICES ASSUME NEW p \in entries PROVE p.reg < fn.args.registerEnd
        BY DEF RegistersOnly
      <4>1. p.reg \in Regs
        BY <2>4, <3>2
      <4>2. QED
        BY <2>2, <4>1 DEF Regs
    <3>4. InOrder(entries)
      <4> SUFFICES ASSUME NEW p \in entries, NEW q \in entries, p.reg = q.reg, p # q
                   PROVE  Precedes(p, q) \/ Precedes(q, p)
        BY DEF InOrder
      <4>1. PICK r \in DOMAIN ranges : \E k \in 1..Len(ranges[r]) :
               p = [reg |-> r, index |-> k, start |-> ranges[r][k].start,
                    end |-> ranges[r][k].end]
        BY <2>4
      <4>2. PICK k \in 1..Len(ranges[r]) :
               p = [reg |-> r, index |-> k, start |-> ranges[r][k].start,
                    end |-> ranges[r][k].end]
        BY <4>1
      <4>3. PICK l \in 1..Len(ranges[r]) :
               q = [reg |-> r, index |-> l, start |-> ranges[r][l].start,
                    end |-> ranges[r][l].end]
        <5>1. PICK r2 \in DOMAIN ranges : \E l \in 1..Len(ranges[r2]) :
                 q = [reg |-> r2, index |-> l, start |-> ranges[r2][l].start,
                      end |-> ranges[r2][l].end]
          BY <2>4
        <5>2. p.reg = r /\ q.reg = r2
          BY <4>2, <5>1
        <5>3. r2 = r
          BY <5>2
        <5>4. QED
          BY <5>1, <5>3
      <4>4. k \in Int /\ l \in Int /\ k # l
        BY <4>2, <4>3
      <4>5. Ordered(ranges[r])
        BY <3>1 DEF Promised
      <4>6. k < l \/ l < k
        BY <4>4
      <4>7. CASE k < l
        <5>1. ranges[r][k].start <= ranges[r][k].end /\ ranges[r][k].end <= ranges[r][l].start
          BY <4>5, <4>7 DEF Ordered
        <5>2. QED
          BY <4>2, <4>3, <5>1 DEF Precedes
      <4>8. CASE l < k
        <5>1. ranges[r][l].start <= ranges[r][l].end /\ ranges[r][l].end <= ranges[r][k].start
          BY <4>5, <4>8 DEF Ordered
        <5>2. QED
          BY <4>2, <4>3, <5>1 DEF Precedes
      <4>9. QED
        BY <4>6, <4>7, <4>8
    <3>5. WritesBegin(fn.code, entries)
      <4> SUFFICES ASSUME NEW i \in Insns, fn.code[i].write # NoReg
                   PROVE  \E p \in entries : /\ p.reg = fn.code[i].write
                                             /\ p.start = Offset(i)
                                             /\ i > 1 => p.end # p.start
        BY DEF WritesBegin, Insns
      <4> DEFINE r == fn.code[i].write
      <4>1. /\ r \in DOMAIN ranges
            /\ \E k \in 1..Len(ranges[r]) :
                  ranges[r][k].start = Offset(i) /\ (i > 1 => ranges[r][k].end # Offset(i))
        BY <2>2, <3>1 DEF Promised, Begun
      <4>2. PICK k \in 1..Len(ranges[r]) :
               ranges[r][k].start = Offset(i) /\ (i > 1 => ranges[r][k].end # Offset(i))
        BY <4>1
      <4> DEFINE p == [reg |-> r, index |-> k, start |-> ranges[r][k].start,
                       end |-> ranges[r][k].end]
      <4>3. p \in entries
        BY <2>4, <4>1
      <4>4. p.reg = r /\ p.start = Offset(i) /\ (i > 1 => p.end # p.start)
        BY <4>2
      <4> HIDE DEF p
      <4>5. QED
        BY <4>3, <4>4
    <3>6. HeldBetween(fn.code, entries)
      <4> SUFFICES ASSUME NEW w \in Insns, NEW i \in Insns, NEW u \in Insns, w < i, i < u,
                          fn.code[w].write # NoReg, fn.code[i].write # fn.code[w].write,
                          fn.code[u].write = NoReg, fn.code[w].write \in fn.code[u].reads
                   PROVE  Holds(entries, fn.code[w].write, i)
        BY DEF HeldBetween, Insns
      <4> DEFINE r == fn.code[w].write
      <4>1. r \in DOMAIN ranges
        BY <2>2, <3>1 DEF Promised, Begun
      <4>2. Inside(ranges[r], Offset(i))
        BY <2>2, <3>1, <4>1 DEF Promised, Kept, Between
      <4>3. PICK k \in 1..Len(ranges[r]) :
               ranges[r][k].start < Offset(i) /\ Offset(i) < ranges[r][k].end
        BY <4>2 DEF Inside
      <4> DEFINE p == [reg |-> r, index |-> k, start |-> ranges[r][k].start,
                       end |-> ranges[r][k].end]
      <4>4. p \in entries
        BY <2>4, <4>1
      <4>5. p.reg = r /\ p.start < Offset(i) /\ Offset(i) < p.end
        BY <4>3
      <4> HIDE DEF p
      <4>6. QED
        BY <4>4, <4>5 DEF Holds
    <3>7. QED
      BY <3>3, <3>4, <3>5, <3>6 DEF RangesFit, entries
  <2>7. QED
    BY <2>5, <2>6
<1>2. QED
  BY <1>1, Inductive, PromiseInvariance, PTL
=============================================================================
