------------------------------ MODULE RunFiles ------------------------------
(***************************************************************************)
(* The run files of one project root, as several processes share them:     *)
(* MCP servers, and the commands of the command line.  Every operation of  *)
(* the store reads a file, computes the next run and renames a whole new   *)
(* file over it; storeMu keeps the operations of one process apart, and    *)
(* nothing those of two.  One process is followed between its read and its *)
(* rename; the operations of all others fall in between, or outside.       *)
(***************************************************************************)
EXTENDS Naturals, Sequences, FiniteSets

CONSTANTS
  RunIds, Majors, Scopes, Packages, Paths, Candidates, Validations, Backups,
  Snapshots, ContribPlans, Nil \* see RunState

VARIABLES
  disk,    \* the run files
  memory,  \* the run files as the slow process read them
  slow     \* whether an operation of that process is under way

vars == <<disk, memory, slow>>

Disk == INSTANCE RunState WITH runs <- disk
Memory == INSTANCE RunState WITH runs <- memory

(* The assumptions of RunState. *)
ASSUME NilIsNoData ==
  Nil \notin Candidates \cup Backups \cup Snapshots \cup ContribPlans \cup Validations
ASSUME NilIsNoRecord == Nil \notin Disk!StepEvidence \cup Disk!Plan \cup Disk!Run

Init ==
  /\ Disk!Init
  /\ memory = disk
  /\ slow = FALSE

(* getLocked and activeLocked: all an operation looks at, it looks at now. *)
Read ==
  /\ ~slow
  /\ slow' = TRUE
  /\ memory' = disk
  /\ UNCHANGED disk

(* Mutants of Renamed: the operation writes back only the plan it changed, *)
(* or only the steps it changed.                                           *)
RenamedPlan(id) ==
  IF disk[id] = Nil \/ memory[id] = Nil THEN memory'[id]
  ELSE [disk[id] EXCEPT !.plan = memory'[id].plan]

RenamedSteps(id) ==
  IF \E run \in {disk[id], memory[id], memory'[id]} : run = Nil \/ run.plan = Nil
  THEN memory'[id]
  ELSE [disk[id] EXCEPT !.plan.steps =
         [s \in Disk!StepNames |->
            IF memory'[id].plan.steps[s] = memory[id].plan.steps[s]
            THEN disk[id].plan.steps[s] ELSE memory'[id].plan.steps[s]]]

(* The file holds the run the operation computed from what it had read,    *)
(* whatever the file holds by now.                                         *)
Renamed(id) == memory'[id]

(* The operations that write their file even when they change nothing but  *)
(* its time; beginning the plan a run has, and capturing the final         *)
(* inventory it has, return without writing.                               *)
Rewrites(id) ==
  \/ \E name \in Memory!StepNames :
       Memory!RecordCheckpointStep(id, name, "running", Nil)
  \/ \E backup \in Backups : Memory!BindCheckpointBackup(id, backup)
  \/ \E candidate \in Candidates : Memory!CompleteCheckpointPlan(id, candidate)
  \/ \E action \in Memory!Confirmable : Memory!Confirm(id, action)
  \/ \E plan \in ContribPlans : Memory!RecordContribPlan(id, plan)

(* writeLocked of any operation that what was read allows. *)
Rename(id) ==
  /\ slow
  /\ Memory!PlanNext(id) \/ Memory!RunNext(id)
  /\ memory' # memory \/ Rewrites(id)
  /\ disk' = [disk EXCEPT ![id] = Renamed(id)]
  /\ slow' = FALSE

(* The operation refuses, fails before its rename, or the process dies. *)
GiveUp ==
  /\ slow
  /\ slow' = FALSE
  /\ UNCHANGED <<disk, memory>>

(* An operation of another process, from its read to its rename. *)
Others ==
  /\ Disk!Next
  /\ UNCHANGED <<memory, slow>>

Next ==
  \/ Read
  \/ \E id \in RunIds : Rename(id)
  \/ GiveUp
  \/ Others

Spec == Init /\ [][Next]_vars
-----------------------------------------------------------------------------
(***************************************************************************)
(* Properties                                                              *)
(***************************************************************************)

(* What a process read was a run file once, so what it computes from it is *)
(* one too.                                                                *)
TypeOK ==
  /\ Disk!TypeOK
  /\ slow \in BOOLEAN
  /\ Memory!TypeOK

(* However the processes overwrite each other's files, a run is past a     *)
(* checkpoint phase only with the proved plan of that phase in its file,   *)
(* because a rename replaces the phase and the plans together              *)
(* (writeLocked).                                                          *)
ProofsSurviveRaces == Disk!PassedPhasesProved

(* No plan ever shows a step started before its predecessors succeeded,    *)
(* although the processes that recorded them did not see each other.       *)
OrderSurvivesRaces == Disk!StepsInOrder

(* "creates one active run for the canonical root ...; it rejects a second *)
(* active or blocked run for that root" (docs/mcp-tools.md, run_create).   *)
OneLiveRun == Disk!AtMostOneLiveRun
=============================================================================
