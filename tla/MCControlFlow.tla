--------------------------- MODULE MCControlFlow ----------------------------
(***************************************************************************)
(* Instances of ControlFlowAnalysis.                                       *)
(***************************************************************************)
EXTENDS ControlFlowAnalysis

CONSTANTS
    Length,     \* instructions per branching function
    TryLength   \* instructions per function with a try statement

Plain == [kind |-> "plain", target |-> 1]
Exit == [kind |-> "exit", target |-> 1]
Branches(n) == [kind : {"jump", "cond"}, target : 1..n]
Jump(k, t) == [kind |-> k, target |-> t]

(* All functions over plain instructions, exits and branches to anywhere,  *)
(* that end in an exit.                                                    *)
BranchingCodes ==
    { [i \in 1..Length |-> IF i < Length THEN c[i] ELSE Exit] :
        c \in [1..(Length - 1) -> {Plain, Exit} \cup Branches(Length)] }

(* try t, catch c leading to f, where a finally may stand; the last is an  *)
(* exit, another one may be a branch or an exit, the others are plain.     *)
TryCode(t, c, f, hasFinally, b, branch) ==
    [i \in 1..TryLength |->
        CASE i = t -> Jump("try", c)
          [] i = c -> Jump("catch", f)
          [] i = f /\ hasFinally -> Jump("finally", f + 1)
          [] i = b /\ i \notin {t, c, f} /\ i < TryLength -> branch
          [] i = TryLength -> Exit
          [] OTHER -> Plain]

TryCodes ==
    { TryCode(t, c, f, hasFinally, b, branch) :
        t \in 1..2, c \in 3..4, f \in 5..(TryLength - 1), hasFinally \in BOOLEAN,
        b \in 1..TryLength, branch \in {Exit} \cup Branches(TryLength) }

MCCodes == BranchingCodes \cup TryCodes
=============================================================================
