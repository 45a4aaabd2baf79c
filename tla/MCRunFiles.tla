----------------------------- MODULE MCRunFiles -----------------------------
(* Bounds for model-checking RunFiles: those of MCRunState, for the run    *)
(* files and for what the slow process computes.                           *)
EXTENDS RunFiles, TLC

CONSTANTS Leader, StrategiesUsed, Bounds

OnDisk == INSTANCE MCRunState WITH runs <- disk
InMemory == INSTANCE MCRunState WITH runs <- memory

(* A run through its first checkpoint phase, with one plan and its         *)
(* receipt.                                                                *)
OnePlan ==
  [rank |-> 7, plans |-> 1, evidence |-> 2, candidates |-> 1,
   managed |-> FALSE, smoke |-> FALSE, stray |-> FALSE, captures |-> FALSE,
   refusals |-> FALSE, paths |-> {Paths},
   statuses |-> {"active", "blocked"}]

OnePlanOnly == "per-fix" :> OnePlan

(* Every step of the run files stays within bounds, and what the slow      *)
(* process read before.                                                    *)
StepWithinBounds == OnDisk!StepWithinBounds /\ InMemory!StepWithinBounds

(* What the process read matters only until its rename. *)
WhileItMatters == <<disk, slow, IF slow THEN memory ELSE Nil>>
=============================================================================
