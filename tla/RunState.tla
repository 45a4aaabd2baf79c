------------------------------ MODULE RunState ------------------------------
(***************************************************************************)
(* The durable run store of internal/runstate.  One file per upgrade run   *)
(* (.drup/runs/<id>.json), rewritten atomically by every operation under   *)
(* storeMu, so that each operation is one action here.  A run walks twelve *)
(* phases; in six of them it may leave only on the strength of a completed *)
(* checkpoint plan.  What the code keeps only for display (summaries,      *)
(* hashes of payloads, timestamps, pending-human texts) is left out, and   *)
(* evidence is kept only where the code reads it back: validations and     *)
(* publication receipts.                                                   *)
(***************************************************************************)
EXTENDS Naturals, Sequences, FiniteSets

CONSTANTS
  RunIds,           \* identifiers of runs of one project root
  Majors,           \* target majors
  Scopes,           \* run scopes
  Packages,         \* contributed packages a plan may target
  Paths,            \* project-relative paths a plan may declare
  Candidates,       \* identities of publishable diffs (gitops.Candidate.Hash)
  Validations,      \* validation hashes supplied with evidence
  Backups,          \* backup identifiers
  Snapshots,        \* inventories
  ContribPlans,     \* sanitized contrib plans
  Nil               \* the absent value: no file, no plan, empty string

ASSUME NilIsNoData ==
  Nil \notin Candidates \cup Backups \cup Snapshots \cup ContribPlans \cup Validations

VARIABLE runs       \* runs[id] is the run file of id, or Nil

vars == <<runs>>

Strategies == {"none", "single", "per-fix"}
Statuses == {"active", "blocked", "completed", "abandoned"}
Live == {"active", "blocked"}

PhaseRank ==
  [git_safety |-> 1, environment |-> 2, tooling |-> 3, initial_backup |-> 4,
   baseline |-> 5, custom_theme |-> 6, contrib_patch |-> 7, contrib_minor |-> 8,
   contrib_major |-> 9, core_loop |-> 10, cleanup |-> 11, report |-> 12,
   completed |-> 13]

Phases ==
  {"git_safety", "environment", "tooling", "initial_backup", "baseline",
   "custom_theme", "contrib_patch", "contrib_minor", "contrib_major",
   "core_loop", "cleanup", "report", "completed"}

CheckpointPhases ==
  {"custom_theme", "contrib_patch", "contrib_minor", "contrib_major",
   "core_loop", "cleanup"}

ContribPhases == {"contrib_patch", "contrib_minor", "contrib_major"}

(* The action that records each phase, and the phase it leads to. *)
PhaseRecordAction ==
  [git_safety |-> "record_git_safety", environment |-> "record_environment",
   tooling |-> "record_tooling", initial_backup |-> "record_initial_backup",
   baseline |-> "record_baseline", custom_theme |-> "record_custom_theme",
   contrib_patch |-> "record_contrib_patch",
   contrib_minor |-> "record_contrib_minor",
   contrib_major |-> "record_contrib_major", core_loop |-> "record_core_loop",
   cleanup |-> "record_cleanup", report |-> "record_report"]

ActionNextPhase ==
  [record_git_safety |-> "environment", record_environment |-> "tooling",
   record_tooling |-> "initial_backup", record_initial_backup |-> "baseline",
   record_baseline |-> "custom_theme", record_custom_theme |-> "contrib_patch",
   record_contrib_patch |-> "contrib_minor",
   record_contrib_minor |-> "contrib_major",
   record_contrib_major |-> "core_loop", record_core_loop |-> "cleanup",
   record_cleanup |-> "report", record_report |-> "completed"]

Actions == DOMAIN ActionNextPhase \cup {"resolve_block"}
Confirmable == {"core_upgrade", "restore"}

ActionsFor(status, phase) ==
  IF status = "blocked" THEN {"resolve_block"}
  ELSE IF status = "active" /\ phase # "completed" THEN {PhaseRecordAction[phase]}
  ELSE {}
-----------------------------------------------------------------------------
(* Checkpoint plans.  The steps of a plan are always run in the order of   *)
(* StepRank; which of them a plan has depends on its phase and on the      *)
(* project (managed configuration, configured smoke commands).             *)

StepRank ==
  [update |-> 1, backup |-> 2, database_update |-> 3, cache_rebuild |-> 4,
   status |-> 5, config_export |-> 6, smoke |-> 7, validation |-> 8]

StepNames ==
  {"update", "backup", "database_update", "cache_rebuild", "status",
   "config_export", "smoke", "validation"}

(* The status of a step a plan does not have is "absent". *)
StepStatuses ==
  {"absent", "pending", "running", "succeeded", "failed", "unavailable"}
StepEvidence == [paths : SUBSET Paths, candidate : Candidates \cup {Nil}]
StepState == [status : StepStatuses, evidence : StepEvidence \cup {Nil}]

PlanSteps(phase, requireExport, smoke) ==
  {"backup", "database_update", "cache_rebuild", "status", "validation"}
    \cup (IF phase \in ContribPhases THEN {"update"} ELSE {})
    \cup (IF requireExport THEN {"config_export"} ELSE {})
    \cup (IF smoke THEN {"smoke"} ELSE {})

PlanInputs ==
  [phase : CheckpointPhases, targetMajor : Majors, targets : SUBSET Packages,
   paths : SUBSET Paths, requireExport : BOOLEAN, smoke : BOOLEAN]

Plan ==
  [phase : CheckpointPhases, targetMajor : Majors, targets : SUBSET Packages,
   paths : SUBSET Paths, requireExport : BOOLEAN, smoke : BOOLEAN,
   backup : Backups \cup {Nil}, candidate : Candidates \cup {Nil},
   steps : [StepNames -> StepState],
   completed : BOOLEAN]

PlanFromInput(input) ==
  [phase |-> input.phase, targetMajor |-> input.targetMajor,
   targets |-> input.targets, paths |-> input.paths,
   requireExport |-> input.requireExport, smoke |-> input.smoke,
   backup |-> Nil, candidate |-> Nil,
   steps |-> [s \in StepNames |->
     [status |-> IF s \in PlanSteps(input.phase, input.requireExport, input.smoke)
                 THEN "pending" ELSE "absent",
      evidence |-> Nil]],
   completed |-> FALSE]

SameIdentity(plan, input) ==
  /\ plan.phase = input.phase
  /\ plan.targetMajor = input.targetMajor
  /\ plan.requireExport = input.requireExport
  /\ plan.targets = input.targets
  /\ plan.paths = input.paths
  /\ plan.smoke = input.smoke

(* Mutant of StepsDone: anything but a failure will do. *)
StepsNotFailed(plan) ==
  \A s \in StepNames : plan.steps[s].status \notin {"failed", "unavailable"}

(* Every step a completion needs has succeeded, with evidence about the    *)
(* paths of the plan; a validation also names the candidate it saw.        *)
StepsDone(plan) ==
  \A s \in StepNames :
    \/ plan.steps[s].status = "absent"
    \/ s = "smoke" /\ plan.steps[s].status = "pending"
    \/ /\ plan.steps[s].status = "succeeded"
       /\ plan.steps[s].evidence # Nil
       /\ plan.steps[s].evidence.paths = plan.paths
       /\ s = "validation" => plan.steps[s].evidence.candidate # Nil

PlanComplete(plan) ==
  /\ plan.backup # Nil
  /\ plan.candidate # Nil
  /\ plan.completed
  /\ StepsDone(plan)

(* The plan of a run and those it has superseded; the code asks only       *)
(* whether some plan fits, so the history is a set.                        *)
Plans(run) == run.history \cup (IF run.plan = Nil THEN {} ELSE {run.plan})
-----------------------------------------------------------------------------
(* Evidence, in the order it was appended. *)
Evidence ==
  [kind : {"validation", "checkpoint_commit"}, phase : Phases,
   validation : Validations \cup {Nil}, candidate : Candidates \cup {Nil},
   paths : SUBSET Paths, target : Majors]

RecordInputs ==
  [action : Actions, kind : {"validation", "note"},
   validation : Validations \cup {Nil}, candidate : Candidates \cup {Nil},
   paths : SUBSET Paths, target : Majors]

CheckpointInputs ==
  [strategy : Strategies, scope : Scopes, paths : SUBSET Paths,
   validation : Validations \cup {Nil}, candidate : Candidates \cup {Nil},
   target : Majors]

Run ==
  [targetMajor : Majors, strategy : Strategies, scope : Scopes,
   status : Statuses, phase : Phases, allowedActions : SUBSET Actions,
   evidence : Seq(Evidence), confirmations : SUBSET Confirmable,
   plan : Plan \cup {Nil}, history : SUBSET Plan,
   baseline : Snapshots \cup {Nil}, final : Snapshots \cup {Nil},
   contribPlan : ContribPlans \cup {Nil}]

ASSUME NilIsNoRecord == Nil \notin StepEvidence \cup Plan \cup Run

(* evidenceFromInput; a note is never read back and leaves no trace here. *)
WithEvidence(run, input) ==
  IF input.kind # "validation" THEN run.evidence
  ELSE Append(run.evidence,
         [kind |-> "validation", phase |-> run.phase,
          validation |-> input.validation, candidate |-> input.candidate,
          paths |-> input.paths, target |-> input.target])

(* Mutant of PlanFor: a plan of any phase will do. *)
PlanForAnyPhase(run, phase, e) ==
  \E plan \in Plans(run) : PlanComplete(plan) /\ plan.candidate = e.candidate

(* A completed plan of the phase of a piece of evidence, for the very      *)
(* candidate, paths and target the evidence names.                         *)
PlanFor(run, phase, e) ==
  \E plan \in Plans(run) :
    /\ plan.phase = phase
    /\ PlanComplete(plan)
    /\ plan.candidate = e.candidate
    /\ plan.paths = e.paths
    /\ plan.targetMajor = e.target

AuthorizesProgress(run, input) ==
  /\ input.kind = "validation"
  /\ input.validation # Nil /\ input.candidate # Nil /\ input.paths # {}
  /\ PlanFor(run, run.phase, input)

(* The newest validation with the hash of the request decides. *)
Newest(run, validation) ==
  {i \in 1..Len(run.evidence) :
     /\ run.evidence[i].kind = "validation"
     /\ run.evidence[i].validation = validation
     /\ \A j \in (i + 1)..Len(run.evidence) :
          ~(run.evidence[j].kind = "validation" /\ run.evidence[j].validation = validation)}

(* Mutant of Vouches: the candidate is not compared. *)
VouchesStale(e, input) == e.paths = input.paths /\ e.target = input.target

Vouches(e, input) ==
  /\ e.candidate = input.candidate
  /\ e.paths = input.paths
  /\ e.target = input.target

Authorized(run, input) ==
  /\ run.status = "active"
  /\ input.strategy = run.strategy
  /\ \/ /\ input.strategy = "none"
        /\ run.phase \notin CheckpointPhases
        /\ Plans(run) = {}
     \/ /\ input.strategy = "single" => run.phase = "report"
        /\ input.validation # Nil /\ input.candidate # Nil /\ input.paths # {}
        /\ input.scope = run.scope
        /\ \E i \in Newest(run, input.validation) :
             /\ Vouches(run.evidence[i], input)
             /\ PlanFor(run, run.evidence[i].phase, run.evidence[i])
-----------------------------------------------------------------------------
Init == runs = [id \in RunIds |-> Nil]

Exists(id) == runs[id] # Nil
Save(id, run) == runs' = [runs EXCEPT ![id] = run]
SavePlan(id, plan) == Save(id, [runs[id] EXCEPT !.plan = plan])

(* Mutant of NoLiveRun: a blocked run does not count. *)
NoActiveRun == \A id \in RunIds : Exists(id) => runs[id].status # "active"

NoLiveRun == \A id \in RunIds : Exists(id) => runs[id].status \notin Live

NewRun(targetMajor, strategy, scope) ==
  [targetMajor |-> targetMajor, strategy |-> strategy, scope |-> scope,
   status |-> "active", phase |-> "git_safety",
   allowedActions |-> ActionsFor("active", "git_safety"),
   evidence |-> << >>, confirmations |-> {}, plan |-> Nil, history |-> {},
   baseline |-> Nil, final |-> Nil, contribPlan |-> Nil]

(* Create refuses a second run while another one is active or blocked. *)
Create(id, targetMajor, strategy, scope) ==
  /\ ~Exists(id)
  /\ NoLiveRun
  /\ Save(id, NewRun(targetMajor, strategy, scope))

(* Record: the one action a blocked run offers reactivates it in place. *)
RecordResolution(id, input) ==
  LET run == runs[id] IN
  /\ Exists(id)
  /\ input.action \in run.allowedActions
  /\ run.status = "blocked"
  /\ input.action = "resolve_block"
  /\ Save(id, [run EXCEPT
       !.evidence = WithEvidence(run, input),
       !.status = "active",
       !.allowedActions = ActionsFor("active", run.phase)])

(* Mutant of StatusAfter: the end of the last phase changes no status. *)
StatusAfterPhase(next) == "active"

StatusAfter(next) == IF next = "completed" THEN "completed" ELSE "active"

(* Record: an active run moves to the next phase; out of a checkpoint      *)
(* phase only with a validation bound to a completed plan of that phase.   *)
RecordProgress(id, input) ==
  LET run  == runs[id]
      next == ActionNextPhase[input.action]
  IN
  /\ Exists(id)
  /\ input.action \in run.allowedActions \cap DOMAIN ActionNextPhase
  /\ run.status = "active"
  /\ run.phase \in CheckpointPhases => AuthorizesProgress(run, input)
  /\ Save(id, [run EXCEPT
       !.evidence = WithEvidence(run, input),
       !.phase = next,
       !.status = StatusAfter(next),
       !.allowedActions = ActionsFor(StatusAfter(next), next)])

ValidPlanInput(run, input) ==
  /\ run.status = "active"
  /\ input.phase = run.phase /\ input.phase \in CheckpointPhases
  /\ input.targetMajor = run.targetMajor
  /\ input.targets # {} /\ input.paths # {}
  /\ input.phase = "contrib_major" => \E t \in Packages : input.targets = {t}

(* BeginCheckpointPlan: the plan of the same identity is returned as it    *)
(* is; a completed plan of another identity retires into the history.      *)
CanBegin(run, input) ==
  /\ ValidPlanInput(run, input)
  /\ run.plan # Nil => SameIdentity(run.plan, input) \/ run.plan.completed

(* Mutant of Begun: the superseded plan is forgotten. *)
BegunForgetting(run, input) ==
  IF run.plan # Nil /\ SameIdentity(run.plan, input) THEN run
  ELSE [run EXCEPT !.plan = PlanFromInput(input)]

Begun(run, input) ==
  IF run.plan # Nil /\ SameIdentity(run.plan, input) THEN run
  ELSE [run EXCEPT !.history = Plans(run), !.plan = PlanFromInput(input)]

BeginCheckpointPlan(id, input) ==
  /\ Exists(id)
  /\ CanBegin(runs[id], input)
  /\ Save(id, Begun(runs[id], input))

(* Mutant of PriorStepsDone: only the step just before is looked at. *)
LastStepDone(plan, name) ==
  \A prior \in StepNames : StepRank[prior] + 1 = StepRank[name] =>
    plan.steps[prior].status \in {"absent", "succeeded"}

PriorStepsDone(plan, name) ==
  \A prior \in StepNames : StepRank[prior] < StepRank[name] =>
    plan.steps[prior].status \in {"absent", "succeeded"}

(* RecordCheckpointStep looks at neither the status nor the phase of the   *)
(* run: only at the order of the steps and at the state of this one.       *)
CanRecordStep(plan, name, status) ==
  /\ plan # Nil
  /\ PriorStepsDone(plan, name)
  /\ plan.steps[name].status \in {"pending", "running"}
  /\ status # "running" => plan.steps[name].status = "running"

StepRecorded(plan, name, status, evidence) ==
  [plan EXCEPT !.steps[name] = [status |-> status, evidence |-> evidence]]

RecordCheckpointStep(id, name, status, evidence) ==
  /\ Exists(id)
  /\ CanRecordStep(runs[id].plan, name, status)
  /\ SavePlan(id, StepRecorded(runs[id].plan, name, status, evidence))

(* Mutant of CanBind: the last backup wins. *)
CanRebind(plan, backup) == plan # Nil

CanBind(plan, backup) == plan # Nil /\ plan.backup \in {Nil, backup}

Bound(plan, backup) == [plan EXCEPT !.backup = backup]

BindCheckpointBackup(id, backup) ==
  /\ Exists(id)
  /\ CanBind(runs[id].plan, backup)
  /\ SavePlan(id, Bound(runs[id].plan, backup))

CanResume(plan) ==
  /\ plan # Nil
  /\ ~plan.completed
  /\ \E s \in StepNames : plan.steps[s].status = "unavailable"

Resumed(plan) ==
  [plan EXCEPT !.steps =
    [s \in StepNames |->
       IF plan.steps[s].status = "unavailable"
       THEN [status |-> "pending", evidence |-> Nil]
       ELSE plan.steps[s]]]

ResumeUnavailableCheckpoint(id) ==
  /\ Exists(id)
  /\ CanResume(runs[id].plan)
  /\ SavePlan(id, Resumed(runs[id].plan))

CanComplete(plan) == plan # Nil /\ plan.backup # Nil /\ StepsDone(plan)

CompletedWith(plan, candidate) ==
  [plan EXCEPT !.candidate = candidate, !.completed = TRUE]

CompleteCheckpointPlan(id, candidate) ==
  /\ Exists(id)
  /\ CanComplete(runs[id].plan)
  /\ SavePlan(id, CompletedWith(runs[id].plan, candidate))

(* RecordCheckpoint appends the receipt of a commit; its caller never      *)
(* commits under strategy none.                                            *)
Receipted(run, input) ==
  [run EXCEPT !.evidence = Append(@,
     [kind |-> "checkpoint_commit", phase |-> run.phase,
      validation |-> input.validation, candidate |-> input.candidate,
      paths |-> input.paths, target |-> input.target])]

RecordCheckpoint(id, input) ==
  /\ Exists(id)
  /\ input.strategy # "none"
  /\ Authorized(runs[id], input)
  /\ Save(id, Receipted(runs[id], input))

(* Mutant of Confirm: the status of the run is not asked. *)
ConfirmAnyStatus(id, action) ==
  /\ Exists(id)
  /\ Save(id, [runs[id] EXCEPT !.confirmations = @ \cup {action}])

Confirm(id, action) ==
  /\ Exists(id)
  /\ runs[id].status = "active"
  /\ action = "core_upgrade" => runs[id].phase = "core_loop"
  /\ Save(id, [runs[id] EXCEPT !.confirmations = @ \cup {action}])

Block(id) ==
  /\ Exists(id)
  /\ runs[id].status = "active"
  /\ Save(id, [runs[id] EXCEPT !.status = "blocked",
       !.allowedActions = ActionsFor("blocked", runs[id].phase)])

(* ResolveBlock: the exported shortcut that records no evidence. *)
ResolveBlock(id) ==
  /\ Exists(id)
  /\ runs[id].status = "blocked"
  /\ Save(id, [runs[id] EXCEPT !.status = "active",
       !.allowedActions = ActionsFor("active", runs[id].phase)])

Abandon(id) ==
  /\ Exists(id)
  /\ runs[id].status \in Live
  /\ Save(id, [runs[id] EXCEPT !.status = "abandoned", !.allowedActions = {}])

(* The baseline is captured once, in its phase; the final inventory once,  *)
(* in the report phase (the same capture again changes nothing).           *)
RecordInventoryBaseline(id, snapshot) ==
  /\ Exists(id)
  /\ runs[id].status = "active" /\ runs[id].phase = "baseline"
  /\ "record_baseline" \in runs[id].allowedActions
  /\ runs[id].baseline = Nil
  /\ Save(id, [runs[id] EXCEPT !.baseline = snapshot])

RecordInventoryFinal(id, snapshot) ==
  /\ Exists(id)
  /\ runs[id].status = "active" /\ runs[id].phase = "report"
  /\ "record_report" \in runs[id].allowedActions
  /\ runs[id].final \in {Nil, snapshot}
  /\ Save(id, [runs[id] EXCEPT !.final = snapshot])

RecordContribPlan(id, plan) ==
  /\ Exists(id)
  /\ runs[id].status = "active"
  /\ Save(id, [runs[id] EXCEPT !.contribPlan = plan])

PlanNext(id) ==
  \/ \E input \in PlanInputs : BeginCheckpointPlan(id, input)
  \/ \E name \in StepNames :
       \/ RecordCheckpointStep(id, name, "running", Nil)
       \/ \E status \in {"succeeded", "failed", "unavailable"}, paths \in SUBSET Paths,
            candidate \in IF name = "validation" THEN Candidates \cup {Nil} ELSE {Nil} :
            RecordCheckpointStep(id, name, status, [paths |-> paths, candidate |-> candidate])
  \/ \E backup \in Backups : BindCheckpointBackup(id, backup)
  \/ ResumeUnavailableCheckpoint(id)
  \/ \E candidate \in Candidates : CompleteCheckpointPlan(id, candidate)

RunNext(id) ==
  \/ \E major \in Majors, strategy \in Strategies, scope \in Scopes :
       Create(id, major, strategy, scope)
  \/ \E input \in RecordInputs : RecordResolution(id, input) \/ RecordProgress(id, input)
  \/ \E input \in CheckpointInputs : RecordCheckpoint(id, input)
  \/ \E action \in Confirmable : Confirm(id, action)
  \/ Block(id)
  \/ ResolveBlock(id)
  \/ Abandon(id)
  \/ \E snapshot \in Snapshots :
       RecordInventoryBaseline(id, snapshot) \/ RecordInventoryFinal(id, snapshot)
  \/ \E plan \in ContribPlans : RecordContribPlan(id, plan)

Next == \E id \in RunIds : PlanNext(id) \/ RunNext(id)

Spec == Init /\ [][Next]_vars
-----------------------------------------------------------------------------
(***************************************************************************)
(* The authority a reader of the run files sees (module RunAuthority)      *)
(***************************************************************************)

(* What completion must mean: every step the plan was created with has     *)
(* succeeded, with evidence about the plan's paths, bound to a backup and  *)
(* a candidate (smoke included, whatever the exception of StepsDone says). *)
Proved(plan) ==
  /\ plan.completed /\ plan.backup # Nil /\ plan.candidate # Nil
  /\ \A s \in PlanSteps(plan.phase, plan.requireExport, plan.smoke) :
       /\ plan.steps[s].status = "succeeded"
       /\ plan.steps[s].evidence # Nil
       /\ plan.steps[s].evidence.paths = plan.paths

StandingOf(id) ==
  IF ~Exists(id) THEN "absent"
  ELSE [active |-> "live", blocked |-> "held", completed |-> "done",
        abandoned |-> "dropped"][runs[id].status]

StageOf(id) == IF Exists(id) THEN PhaseRank[runs[id].phase] ELSE 1

ProvedBy(id) ==
  IF Exists(id)
  THEN {PhaseRank[plan.phase] : plan \in {p \in Plans(runs[id]) : Proved(p)}}
  ELSE {}

ReceiptsOf(id) ==
  IF Exists(id)
  THEN Cardinality({i \in 1..Len(runs[id].evidence) :
                      runs[id].evidence[i].kind = "checkpoint_commit"})
  ELSE 0

Authority ==
  INSTANCE RunAuthority WITH
    Last <- PhaseRank["completed"],
    Gates <- {PhaseRank[phase] : phase \in CheckpointPhases},
    standing <- [id \in RunIds |-> StandingOf(id)],
    stage <- [id \in RunIds |-> StageOf(id)],
    proved <- [id \in RunIds |-> ProvedBy(id)],
    receipts <- [id \in RunIds |-> ReceiptsOf(id)]

(* Every operation on the run files, and every interleaving of them, is a  *)
(* step of the authority promised by RunAuthority or changes nothing of it *)
(* (so no superseded, resumed or recompleted plan ever takes a proof back).*)
ImplementsAuthority == Authority!Spec
-----------------------------------------------------------------------------
(***************************************************************************)
(* Properties                                                              *)
(***************************************************************************)

(* Every run file is well formed, and the authority it persists is the     *)
(* one its status and phase give (actionsFor); only a completed run is in  *)
(* the completed phase.                                                    *)
TypeOK ==
  /\ runs \in [RunIds -> Run \cup {Nil}]
  /\ \A id \in RunIds : Exists(id) =>
       /\ runs[id].allowedActions = ActionsFor(runs[id].status, runs[id].phase)
       /\ runs[id].status = "completed" <=> runs[id].phase = "completed"

(* However many runs are created, blocked, resolved and abandoned, a       *)
(* project root never has two runs that may still act (Create, Record,     *)
(* ResolveBlock).                                                          *)
AtMostOneLiveRun ==
  \A i, j \in RunIds :
    /\ Exists(i) /\ runs[i].status \in Live
    /\ Exists(j) /\ runs[j].status \in Live
    => i = j

(* In every plan, a step that was ever started has all its predecessors    *)
(* succeeded, so no validation was taken before a mutation of the same     *)
(* plan, across resumptions and superseded plans too.                      *)
StepsInOrder ==
  \A id \in RunIds : Exists(id) =>
    \A plan \in Plans(runs[id]) : \A s, t \in StepNames :
      StepRank[s] < StepRank[t] /\ plan.steps[t].status \notin {"absent", "pending"}
        => plan.steps[s].status \in {"absent", "succeeded"}

(* A run that is past a checkpoint phase keeps, in its file, a proved plan *)
(* of that phase.  Record, BeginCheckpointPlan and the step operations     *)
(* must all keep it so.                                                    *)
PassedPhasesProved ==
  \A id \in RunIds : Exists(id) =>
    \A phase \in CheckpointPhases : PhaseRank[phase] < PhaseRank[runs[id].phase] =>
      \E plan \in Plans(runs[id]) : plan.phase = phase /\ Proved(plan)

(* Every publication receipt follows a validation of the same hash,        *)
(* candidate, paths and target; under the single strategy it was written   *)
(* in the report phase.                                                    *)
Backed(run) ==
  \A i \in 1..Len(run.evidence) : run.evidence[i].kind = "checkpoint_commit" =>
    /\ run.strategy = "single" => run.evidence[i].phase = "report"
    /\ \E j \in 1..(i - 1) :
         /\ run.evidence[j].kind = "validation"
         /\ run.evidence[j].validation = run.evidence[i].validation
         /\ run.evidence[j].candidate = run.evidence[i].candidate
         /\ run.evidence[j].paths = run.evidence[i].paths
         /\ run.evidence[j].target = run.evidence[i].target

ReceiptsBacked == \A id \in RunIds : Exists(id) => Backed(runs[id])

(* A completed plan is never lost or reopened: whatever is written next,   *)
(* the run file still holds it with the same identity, backup and steps.   *)
(* Its candidate and completion are not part of this: completing it again  *)
(* under the next candidate rewrites them (CompleteCheckpointPlan).        *)
CompletedPlansStand ==
  [][\A id \in RunIds : Exists(id) =>
       /\ Exists(id)'
       /\ \A plan \in Plans(runs[id]) : plan.completed =>
            \E kept \in Plans(runs[id])' :
              /\ kept.completed
              /\ SameIdentity(kept, plan)
              /\ kept.backup = plan.backup
              /\ kept.steps = plan.steps]_vars

(* A run that was completed or abandoned never acts again: its status,     *)
(* phase, authority, confirmations and evidence are final.                 *)
TerminalIsFinal ==
  [][\A id \in RunIds : Exists(id) /\ runs[id].status \notin Live =>
       \A field \in {"status", "phase", "allowedActions", "evidence", "confirmations"} :
         runs'[id][field] = runs[id][field]]_vars

(* "CheckpointPlan is the durable, resumable operational boundary for the  *)
(* current phase" (the comment on Run.CheckpointPlan): a plan that is not  *)
(* complete belongs to the phase its active run is in, or no executor can  *)
(* begin, resume or replace it.                                            *)
OpenPlanIsOfCurrentPhase ==
  \A id \in RunIds :
    /\ Exists(id)
    /\ runs[id].status = "active"
    /\ runs[id].plan # Nil
    /\ ~runs[id].plan.completed
    => runs[id].plan.phase = runs[id].phase
=============================================================================
