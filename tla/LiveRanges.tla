----------------------------- MODULE LiveRanges -----------------------------
(***************************************************************************)
(* LivenessAnalysis::buildLiveRanges as operators: the map from a register *)
(* to the list of its live intervals, built by one walk over the           *)
(* instructions in program order.  A register no instruction touched has   *)
(* no entry.                                                               *)
(*                                                                         *)
(* Offsets are abstracted to positions: the instruction at index i of the  *)
(* code has offset i - 1.  The walk only compares and stores offsets, and  *)
(* real offsets increase along the code as positions do.                   *)
(***************************************************************************)
EXTENDS Instructions

Offset(i) == i - 1

(* Every formal argument starts with one open interval at 0. *)
ArgumentRanges(args) ==
    [r \in 0..(args.argumentEnd - 1) |-> <<OpenInterval(0)>>]

(* Mutant: an interval ends before the instruction that extends it. *)
EndLastBefore(list, offset) == [list EXCEPT ![Len(list)].end = offset - 1]

(* LiveInterval::setEnd on the last interval of a register. *)
EndLast(list, offset) == [list EXCEPT ![Len(list)].end = offset]

(* Mutant: a write opens an interval and leaves the last one as it is. *)
WriteRangeOpen(ranges, reg, offset) ==
    [r \in DOMAIN ranges \cup {reg} |->
        IF r # reg THEN ranges[r]
        ELSE IF r \in DOMAIN ranges THEN Append(ranges[r], OpenInterval(offset))
        ELSE <<OpenInterval(offset)>>]

(* A write ends the register's last interval and opens another. *)
WriteRange(ranges, reg, offset) ==
    [r \in DOMAIN ranges \cup {reg} |->
        IF r # reg THEN ranges[r]
        ELSE IF r \in DOMAIN ranges THEN Append(EndLast(ranges[r], offset), OpenInterval(offset))
        ELSE <<OpenInterval(offset)>>]

(* A read extends the register's last interval; a register read before any *)
(* other use is live from the first instruction of the block.              *)
ReadRanges(ranges, regs, bbStart, offset) ==
    [r \in DOMAIN ranges \cup regs |->
        IF r \notin regs THEN ranges[r]
        ELSE IF r \in DOMAIN ranges THEN EndLast(ranges[r], offset)
        ELSE <<[start |-> bbStart, end |-> offset]>>]

(* One instruction of the walk.  The "continue" of a writing instruction   *)
(* skips its reads.                                                        *)
ExtendRanges(ranges, ins, bbStart, offset) ==
    IF ins.write # NoReg
    THEN WriteRange(ranges, ins.write, offset)
    ELSE ReadRanges(ranges, ins.reads, bbStart, offset)

(* The whole walk.  first[i] is the index of the first instruction of the  *)
(* block that holds instruction i.                                         *)
BuildLiveRanges(args, code, first) ==
    LET walk[n \in 0..Len(code)] ==
            IF n = 0 THEN ArgumentRanges(args)
            ELSE ExtendRanges(walk[n - 1], code[n], Offset(first[n]), Offset(n))
    IN  walk[Len(code)]

-----------------------------------------------------------------------------
(* One entry of Bytecode::liveRanges(): the index-th interval of reg.      *)
LiveRange == [reg : Nat, index : Nat, start : Nat, end : Nat]

(* The entries of such a map, one by one. *)
RangeEntries(ranges) ==
    UNION { { [reg |-> r, index |-> k, start |-> ranges[r][k].start,
               end |-> ranges[r][k].end] : k \in 1..Len(ranges[r]) } :
            r \in DOMAIN ranges }

(* What register allocation builds on: the four promises of the walk about *)
(* its entries, for a function with header args and the given code.        *)

(* The entries are of registers of the function. *)
RegistersOnly(args, entries) == \A p \in entries : p.reg < args.registerEnd

Precedes(p, q) == p.start <= p.end /\ p.end <= q.start

(* The intervals of one register come one after another.                   *)
InOrder(entries) ==
    \A p, q \in entries :
        p.reg = q.reg /\ p # q => Precedes(p, q) \/ Precedes(q, p)

(* Every write begins an interval, which is not a point unless the write   *)
(* is the first instruction of the function.                               *)
WritesBegin(code, entries) ==
    \A i \in 1..Len(code) :
        code[i].write # NoReg =>
            \E p \in entries :
                /\ p.reg = code[i].write
                /\ p.start = Offset(i)
                /\ i > 1 => p.end # p.start

(* Instruction i lies strictly inside an interval of register r.           *)
Holds(entries, r, i) ==
    \E p \in entries : p.reg = r /\ p.start < Offset(i) /\ Offset(i) < p.end

(* Between a write of a register and a later read of it, by an instruction *)
(* that writes nothing, the register is held at every instruction that     *)
(* does not write it itself.                                               *)
HeldBetween(code, entries) ==
    \A w, i, u \in 1..Len(code) :
        /\ w < i /\ i < u
        /\ code[w].write # NoReg
        /\ code[i].write # code[w].write
        /\ code[u].write = NoReg /\ code[w].write \in code[u].reads
        => Holds(entries, code[w].write, i)

RangesFit(args, code, entries) ==
    /\ RegistersOnly(args, entries)
    /\ InOrder(entries)
    /\ WritesBegin(code, entries)
    /\ HeldBetween(code, entries)
=============================================================================
