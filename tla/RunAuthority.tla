---------------------------- MODULE RunAuthority ----------------------------
(***************************************************************************)
(* What the durable run store promises to the guards and executors that    *)
(* consult it, with every file, plan and piece of evidence left out: one   *)
(* run at a time holds the authority to act; it moves stage by stage, and  *)
(* through a gated stage only once that stage has been proved; publication *)
(* receipts are written only under that authority and after some proof.    *)
(***************************************************************************)
EXTENDS Naturals

CONSTANTS
  RunIds,     \* identifiers of runs
  Last,       \* the stage of a finished run; stages are 1..Last
  Gates       \* the stages a run may leave only when they are proved

VARIABLES
  standing,   \* "absent", "live", "held", "done" or "dropped", per run
  stage,      \* the stage each run is at
  proved,     \* the gated stages each run has proved
  receipts    \* the publications recorded for each run

vars == <<standing, stage, proved, receipts>>

Init ==
  /\ standing = [id \in RunIds |-> "absent"]
  /\ stage = [id \in RunIds |-> 1]
  /\ proved = [id \in RunIds |-> {}]
  /\ receipts = [id \in RunIds |-> 0]

Open(id) ==
  /\ standing[id] = "absent"
  /\ \A other \in RunIds : standing[other] \notin {"live", "held"}
  /\ standing' = [standing EXCEPT ![id] = "live"]
  /\ UNCHANGED <<stage, proved, receipts>>

(* A stage is proved by work a run began while it was there, which may     *)
(* end after the run has been held or dropped.                             *)
Prove(id) ==
  /\ standing[id] # "absent"
  /\ \E gate \in proved'[id] \ proved[id] :
       /\ gate \in Gates /\ gate <= stage[id]
       /\ proved' = [proved EXCEPT ![id] = @ \cup {gate}]
  /\ UNCHANGED <<standing, stage, receipts>>

Advance(id) ==
  /\ standing[id] = "live"
  /\ stage[id] < Last
  /\ stage' = [stage EXCEPT ![id] = @ + 1]
  /\ stage[id] \in Gates => stage[id] \in proved[id]
  /\ standing' = [standing EXCEPT ![id] = IF stage[id] + 1 = Last THEN "done" ELSE "live"]
  /\ UNCHANGED <<proved, receipts>>

Publish(id) ==
  /\ standing[id] = "live"
  /\ receipts' = [receipts EXCEPT ![id] = @ + 1]
  /\ proved[id] # {}
  /\ UNCHANGED <<standing, stage, proved>>

Hold(id) ==
  /\ standing[id] = "live"
  /\ standing' = [standing EXCEPT ![id] = "held"]
  /\ UNCHANGED <<stage, proved, receipts>>

Release(id) ==
  /\ standing[id] = "held"
  /\ standing' = [standing EXCEPT ![id] = "live"]
  /\ UNCHANGED <<stage, proved, receipts>>

Drop(id) ==
  /\ standing[id] \in {"live", "held"}
  /\ standing' = [standing EXCEPT ![id] = "dropped"]
  /\ UNCHANGED <<stage, proved, receipts>>

Next ==
  \E id \in RunIds :
    \/ Open(id)
    \/ Prove(id)
    \/ Advance(id)
    \/ Publish(id)
    \/ Hold(id)
    \/ Release(id)
    \/ Drop(id)

Spec == Init /\ [][Next]_vars
=============================================================================
