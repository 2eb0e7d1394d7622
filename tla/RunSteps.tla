------------------------------ MODULE RunSteps ------------------------------
(***************************************************************************)
(* What a run promises to the code that started it: its execCtx changes by  *)
(* whole iterations (Messages!Iterations), at most MaxSteps of them, and    *)
(* not at all once its status is decided.                                   *)
(***************************************************************************)
EXTENDS Messages

CONSTANTS By, MaxSteps, MaxUses, Compaction, Prefill
VARIABLE x      \* execCtx between two iterations

Init == x = Fresh(Prefill)

Iterate ==
    /\ x.status = "running" /\ x.step < MaxSteps
    /\ x' \in Iterations(x, By, MaxSteps, MaxUses, Compaction)

Spec == Init /\ [][Iterate]_x
=============================================================================
