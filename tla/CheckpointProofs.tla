--------------------------- MODULE CheckpointProofs ---------------------------
(* Theorems about Checkpoint, for any paths, backups, executors and         *)
(* outcomes of their commands.                                              *)
EXTENDS Checkpoint, FiniteSetTheorems, TLAPS

(* The run file is an instance of the store that RunStateProofs proves      *)
(* about.                                                                   *)
Kept ==
  INSTANCE RunStateProofs WITH
    RunIds <- {RunId}, Majors <- {Major}, Scopes <- {Scope}, Packages <- {Package},
    Candidates <- Diffs, Validations <- {Validation},
    Snapshots <- {}, ContribPlans <- {}

(***************************************************************************)
(* The definitions of the store that Checkpoint instantiates are those its  *)
(* lemmas speak of                                                          *)
(***************************************************************************)

LEMMA StoreStep ==
  ASSUME Store!PlanNext(RunId) \/ Store!RunNext(RunId)
  PROVE  Kept!PlanNext(RunId) \/ Kept!RunNext(RunId)
BY DEF Store!PlanNext, Kept!PlanNext, Store!RunNext, Kept!RunNext, Store!Strategies,
       Kept!Strategies, Store!Statuses, Kept!Statuses, Store!Live, Kept!Live, Store!PhaseRank,
       Kept!PhaseRank, Store!Phases, Kept!Phases, Store!CheckpointPhases, Kept!CheckpointPhases,
       Store!ContribPhases, Kept!ContribPhases, Store!PhaseRecordAction, Kept!PhaseRecordAction,
       Store!ActionNextPhase, Kept!ActionNextPhase, Store!Actions, Kept!Actions, Store!Confirmable,
       Kept!Confirmable, Store!ActionsFor, Kept!ActionsFor, Store!StepRank, Kept!StepRank,
       Store!StepNames, Kept!StepNames, Store!StepStatuses, Kept!StepStatuses, Store!StepEvidence,
       Kept!StepEvidence, Store!StepState, Kept!StepState, Store!PlanSteps, Kept!PlanSteps,
       Store!PlanInputs, Kept!PlanInputs, Store!Plan, Kept!Plan, Store!PlanFromInput,
       Kept!PlanFromInput, Store!SameIdentity, Kept!SameIdentity, Store!StepsDone, Kept!StepsDone,
       Store!PlanComplete, Kept!PlanComplete, Store!Plans, Kept!Plans, Store!Evidence,
       Kept!Evidence, Store!RecordInputs, Kept!RecordInputs, Store!CheckpointInputs,
       Kept!CheckpointInputs, Store!Run, Kept!Run, Store!WithEvidence, Kept!WithEvidence,
       Store!PlanFor, Kept!PlanFor, Store!AuthorizesProgress, Kept!AuthorizesProgress, Store!Newest,
       Kept!Newest, Store!Vouches, Kept!Vouches, Store!Authorized, Kept!Authorized, Store!Exists,
       Kept!Exists, Store!Save, Kept!Save, Store!SavePlan, Kept!SavePlan, Store!NoLiveRun,
       Kept!NoLiveRun, Store!NewRun, Kept!NewRun, Store!Create, Kept!Create, Store!RecordResolution,
       Kept!RecordResolution, Store!StatusAfter, Kept!StatusAfter, Store!RecordProgress,
       Kept!RecordProgress, Store!ValidPlanInput, Kept!ValidPlanInput, Store!CanBegin,
       Kept!CanBegin, Store!Begun, Kept!Begun, Store!BeginCheckpointPlan, Kept!BeginCheckpointPlan,
       Store!PriorStepsDone, Kept!PriorStepsDone, Store!CanRecordStep, Kept!CanRecordStep,
       Store!StepRecorded, Kept!StepRecorded, Store!RecordCheckpointStep, Kept!RecordCheckpointStep,
       Store!CanBind, Kept!CanBind, Store!Bound, Kept!Bound, Store!BindCheckpointBackup,
       Kept!BindCheckpointBackup, Store!CanResume, Kept!CanResume, Store!Resumed, Kept!Resumed,
       Store!ResumeUnavailableCheckpoint, Kept!ResumeUnavailableCheckpoint, Store!CanComplete,
       Kept!CanComplete, Store!CompletedWith, Kept!CompletedWith, Store!CompleteCheckpointPlan,
       Kept!CompleteCheckpointPlan, Store!Receipted, Kept!Receipted, Store!RecordCheckpoint,
       Kept!RecordCheckpoint, Store!Confirm, Kept!Confirm, Store!Block, Kept!Block,
       Store!ResolveBlock, Kept!ResolveBlock, Store!Abandon, Kept!Abandon,
       Store!RecordInventoryBaseline, Kept!RecordInventoryBaseline, Store!RecordInventoryFinal,
       Kept!RecordInventoryFinal, Store!RecordContribPlan, Kept!RecordContribPlan

(* The assumptions of RunState hold of the store. *)
LEMMA NilIsNothing ==
  /\ Nil \notin Diffs \cup Backups \cup {} \cup {} \cup {Validation}
  /\ Nil \notin Kept!StepEvidence \cup Kept!Plan \cup Kept!Run
BY NilIsNoData, NilIsNoRecord
   DEF Store!Run, Kept!Run, Store!Plan, Kept!Plan, Store!StepState, Kept!StepState, Store!StepEvidence,
       Kept!StepEvidence, Store!StepStatuses, Kept!StepStatuses, Store!StepNames, Kept!StepNames,
       Store!Evidence, Kept!Evidence, Store!Statuses, Kept!Statuses, Store!Strategies, Kept!Strategies,
       Store!Phases, Kept!Phases, Store!CheckpointPhases, Kept!CheckpointPhases,
       Store!PhaseRecordAction, Kept!PhaseRecordAction, Store!ActionNextPhase, Kept!ActionNextPhase,
       Store!Actions, Kept!Actions, Store!Confirmable, Kept!Confirmable

(* The run file exists and is sound. *)
StoreSound == Kept!FilesSound /\ run # Nil

(* What that says of the run of this model. *)
StoreTyped ==
  /\ Store!TypeOK /\ run \in Store!Run
  /\ runs = [id \in {RunId} |-> run]
  /\ run.plan # Nil =>
       /\ run.plan \in Store!Plan
       /\ run.plan.steps["backup"].status # "absent"

LEMMA SoundIsTyped == StoreSound => StoreTyped
<1> SUFFICES ASSUME StoreSound PROVE StoreTyped
  OBVIOUS
<1>1. /\ runs \in [{RunId} -> Kept!Run \cup {Nil}]
      /\ run # Nil /\ Kept!Sound(run) /\ run \in Kept!Run
  BY DEF StoreSound, run, Kept!FilesSound, Kept!Exists
<1>2. Kept!Run = Store!Run
  BY DEF Store!Run, Kept!Run, Store!Plan, Kept!Plan, Store!StepState, Kept!StepState, Store!StepEvidence,
         Kept!StepEvidence, Store!StepStatuses, Kept!StepStatuses, Store!StepNames, Kept!StepNames,
         Store!Evidence, Kept!Evidence, Store!Statuses, Kept!Statuses, Store!Strategies, Kept!Strategies,
         Store!Phases, Kept!Phases, Store!CheckpointPhases, Kept!CheckpointPhases,
         Store!PhaseRecordAction, Kept!PhaseRecordAction, Store!ActionNextPhase, Kept!ActionNextPhase,
         Store!Actions, Kept!Actions, Store!Confirmable, Kept!Confirmable
<1>3. Kept!ActionsFor(run.status, run.phase) = Store!ActionsFor(run.status, run.phase)
  BY DEF Store!ActionsFor, Kept!ActionsFor, Store!PhaseRecordAction, Kept!PhaseRecordAction, Store!Phases, Kept!Phases, Store!CheckpointPhases, Kept!CheckpointPhases
<1>4. run.allowedActions = Store!ActionsFor(run.status, run.phase) /\ (run.status = "completed" <=> run.phase = "completed")
  BY <1>1, <1>3 DEF Kept!Sound
<1>5. Store!TypeOK
  BY <1>1, <1>2, <1>4 DEF Store!TypeOK, Store!Exists, run
<1>6. ASSUME run.plan # Nil PROVE run.plan \in Store!Plan
  BY <1>1, <1>2, <1>6 DEF Store!Run
<1>7. ASSUME run.plan # Nil PROVE run.plan.steps["backup"].status # "absent"
  BY <1>1, <1>7 DEF Kept!Sound, Kept!Plans, Kept!Orderly, Kept!PlanSteps, Kept!StepNames
<1>8. runs = [id \in {RunId} |-> run]
  BY <1>1 DEF run
<1> QED
  BY <1>1, <1>2, <1>5, <1>6, <1>7, <1>8 DEF StoreTyped

LEMMA StoreMeans ==
  ASSUME StoreSound
  PROVE  /\ Store!TypeOK /\ run \in Store!Run
         /\ runs = [id \in {RunId} |-> run]
         /\ run.plan # Nil =>
              /\ run.plan \in Store!Plan
              /\ run.plan.steps["backup"].status # "absent"
BY SoundIsTyped DEF StoreTyped

LEMMA StoreMeansNext ==
  ASSUME StoreSound'
  PROVE  /\ run' \in Store!Run
         /\ run'.plan # Nil =>
              /\ run'.plan \in Store!Plan
              /\ run'.plan.steps["backup"].status # "absent"
<1>1. StoreSound' => StoreTyped'
  BY SoundIsTyped, PTL
<1> QED
  BY <1>1 DEF StoreTyped

(* An operation of the store leaves it sound. *)
LEMMA StoreStaysSound ==
  ASSUME StoreSound, Store!PlanNext(RunId) \/ Store!RunNext(RunId)
  PROVE  StoreSound'
<1>1. Kept!WritesSound(RunId)
  BY StoreStep, NilIsNothing, Kept!PlanNextSound, Kept!RunNextSound DEF StoreSound
<1>2. PICK next \in Kept!Run : Kept!Sound(next) /\ runs' = [runs EXCEPT ![RunId] = next]
  BY <1>1 DEF Kept!WritesSound, Kept!Save
<1>3. runs' \in [{RunId} -> Kept!Run \cup {Nil}] /\ runs'[RunId] = next
  BY <1>2 DEF StoreSound, Kept!FilesSound
<1>4. runs'[RunId] # Nil
  BY <1>3, NilIsNothing
<1> QED
  BY <1>2, <1>3, <1>4 DEF StoreSound, Kept!FilesSound, Kept!Exists, run

(***************************************************************************)
(* Where the processes are, and what they then hold                        *)
(***************************************************************************)

Steps == {"idle", "resume", "step", "effect", "bind", "validating", "report", "complete"}

(* The steps of a call at which one step of its plan is under way, and all *)
(* those after the plan was read.                                          *)
InStep == {"effect", "bind", "validating", "report"}
InCall == InStep \cup {"step", "complete"}

(* The records an executor can be. *)
Calls ==
  [pc : Steps, plan : Store!Plan \cup {Nil}, step : Store!StepNames \cup {Nil},
   outcome : Outcomes \cup {"ok", "failed", Nil}, candidate : Diffs \cup {Nil},
   backup : Backups \cup {Nil}, validated : Diffs \cup {Nil}]

(* What a call holds at each of its steps. *)
CallTyped(call) ==
  /\ call \in Calls
  /\ call.pc \in InCall => call.plan # Nil
  /\ call.pc \in InStep => call.step \in Remaining(call.plan)
  /\ call.pc = "bind" => call.step = "backup" /\ call.backup # Nil /\ call.outcome = "ok"
  /\ call.pc = "validating" => call.step = "validation"
  /\ call.pc \in {"validating", "complete"} => call.candidate # Nil
  /\ call.candidate # Nil =>
       /\ call.pc \in {"validating", "report", "complete"}
       /\ DOMAIN call.candidate = call.plan.paths
       /\ call.pc = "report" => call.step = "validation"

ExecTyped == exec \in [Executors -> Calls] /\ \A e \in Executors : CallTyped(exec[e])

FilesTyped ==
  /\ head \in [Paths -> Versions] /\ index \in [Paths -> Versions] /\ tree \in [Paths -> Versions]
  /\ backups \subseteq Backups /\ pristine \subseteq backups

(* What a commit can hold of some paths. *)
Contents == UNION {[paths -> Versions] : paths \in SUBSET Paths}

(* A publication under way has a candidate, and not an empty one. *)
PubTyped ==
  /\ pub \in [pc : {"idle", "authorize", "stage", "commit", "receipt"}, candidate : Diffs \cup {Nil}]
  /\ pub.pc # "idle" => pub.candidate # Nil /\ DOMAIN pub.candidate # {}

ObservationTyped ==
  /\ applied \in [Store!StepNames -> Nat]
  /\ commits \in Seq([candidate : Diffs, content : Contents])

(* The type invariant, strengthened. *)
Typed == StoreSound /\ ExecTyped /\ FilesTyped /\ PubTyped /\ ObservationTyped

(* What CandidateForPaths finds is a diff of just the declared paths. *)
LEMMA CandidateIsDiff ==
  ASSUME FilesTyped, NEW paths \in SUBSET Paths
  PROVE  /\ Identity(paths) \in Diffs
         /\ CandidateForPaths(paths) \in {Identity(paths), Nil}
         /\ CandidateForPaths(paths) # Nil => paths # {} /\ paths = Changed
         /\ DOMAIN Identity(paths) = paths
<1>1. \A p \in paths : <<head[p], index[p], tree[p]>> \in Versions \X Versions \X Versions
  BY DEF FilesTyped
<1>2. Identity(paths) \in [paths -> Versions \X Versions \X Versions]
  BY <1>1 DEF Identity
<1>3. Identity(paths) \in Diffs
  BY <1>2 DEF Diffs
<1> QED
  BY <1>2, <1>3 DEF CandidateForPaths, Identity

LEMMA DiffIsOfPaths ==
  ASSUME NEW diff \in Diffs
  PROVE  DOMAIN diff \in SUBSET Paths
BY DEF Diffs

(* A step under way is one of the plan that the call read. *)
LEMMA StepUnderWay ==
  ASSUME ExecTyped, NEW e \in Executors, exec[e].pc \in InStep
  PROVE  /\ exec[e].plan \in Store!Plan /\ exec[e].step \in Store!StepNames
         /\ exec[e].step \in Remaining(exec[e].plan)
BY DEF ExecTyped, CallTyped, Calls, InCall, Remaining

(* The new record of one executor leaves the others as they are. *)
LEMMA ExecSet ==
  ASSUME ExecTyped, NEW e \in Executors, NEW call, CallTyped(call), exec' = [exec EXCEPT ![e] = call]
  PROVE  ExecTyped'
<1>1. call \in Calls
  BY DEF CallTyped
<1>2. exec' \in [Executors -> Calls] /\ \A f \in Executors : exec'[f] = IF f = e THEN call ELSE exec[f]
  BY <1>1 DEF ExecTyped
<1> QED
  BY <1>2 DEF ExecTyped

LEMMA IdleTyped == CallTyped(IdleExec)
BY NilIsNoRecord DEF CallTyped, Calls, IdleExec, Steps, InCall, InStep

LEMMA StoreUnchanged == StoreSound /\ UNCHANGED runs => StoreSound'
BY DEF StoreSound, run, Kept!FilesSound, Kept!Exists

(***************************************************************************)
(* Each step of a process that touches the run file is an operation of the *)
(* store                                                                   *)
(***************************************************************************)

LEMMA PlanInputTyped ==
  ASSUME StoreSound, NEW paths \in SUBSET Paths, NEW phase \in Store!CheckpointPhases
  PROVE  PlanInput(phase, paths) \in Store!PlanInputs
BY BoundsAreTyped DEF PlanInput, Store!PlanInputs

LEMMA BeginOperates ==
  ASSUME StoreSound, NEW paths \in SUBSET Paths, Store!BeginCheckpointPlan(RunId, PlanInput(run.phase, paths))
  PROVE  Store!PlanNext(RunId)
<1>1. run.phase \in Store!CheckpointPhases
  BY DEF Store!BeginCheckpointPlan, Store!CanBegin, Store!ValidPlanInput, PlanInput
<1> QED
  BY <1>1, PlanInputTyped DEF Store!PlanNext

LEMMA StartOperates ==
  ASSUME NEW s \in Store!StepNames, Store!RecordCheckpointStep(RunId, s, "running", Nil)
  PROVE  Store!PlanNext(RunId)
BY DEF Store!PlanNext

LEMMA ReportOperates ==
  ASSUME NEW s \in Store!StepNames, NEW status \in {"succeeded", "failed", "unavailable"},
         NEW paths \in SUBSET Paths, NEW candidate \in Diffs \cup {Nil},
         s # "validation" => candidate = Nil,
         Store!RecordCheckpointStep(RunId, s, status, [paths |-> paths, candidate |-> candidate])
  PROVE  Store!PlanNext(RunId)
<1>1. candidate \in IF s = "validation" THEN Diffs \cup {Nil} ELSE {Nil}
  OBVIOUS
<1> QED
  BY <1>1 DEF Store!PlanNext

LEMMA BindOperates ==
  ASSUME NEW backup \in Backups, Store!BindCheckpointBackup(RunId, backup)
  PROVE  Store!PlanNext(RunId)
BY DEF Store!PlanNext

LEMMA CompleteOperates ==
  ASSUME NEW candidate \in Diffs, Store!CompleteCheckpointPlan(RunId, candidate)
  PROVE  Store!PlanNext(RunId)
BY DEF Store!PlanNext

LEMMA ReceiptOperates ==
  ASSUME StoreSound, NEW candidate \in Diffs, Store!RecordCheckpoint(RunId, Receipt(candidate))
  PROVE  Store!RunNext(RunId)
<1>1. Receipt(candidate) \in Store!CheckpointInputs
  BY StoreMeans, DiffIsOfPaths DEF Receipt, Store!CheckpointInputs, Store!Run
<1> QED
  BY <1>1 DEF Store!RunNext

LEMMA ValidationOperates ==
  ASSUME StoreSound, NEW plan \in Store!Plans(run), RecordValidation(plan)
  PROVE  Store!RunNext(RunId)
<1> DEFINE input == [action |-> Store!PhaseRecordAction[run.phase], kind |-> "validation",
                     validation |-> Validation, candidate |-> plan.candidate,
                     paths |-> plan.paths, target |-> plan.targetMajor]
<1>1. plan \in Store!Plan
  BY StoreMeans DEF Store!Plans, Store!Run
<1>2. Store!RecordProgress(RunId, input)
  BY DEF RecordValidation
<1>3. input.action \in Store!Actions
  BY <1>2 DEF Store!RecordProgress, Store!Actions
<1>4. input \in Store!RecordInputs
  BY <1>1, <1>3 DEF Store!RecordInputs, Store!Plan
<1> QED
  BY <1>2, <1>4 DEF Store!RunNext

(***************************************************************************)
(* Types                                                                   *)
(***************************************************************************)

(* The run of the initial state is sound: it has passed no checkpoint.     *)
LEMMA InitSound == Init => StoreSound
<1> SUFFICES ASSUME Init PROVE StoreSound
  OBVIOUS
<1> DEFINE created == Store!NewRun(Major, "per-fix", Scope)
<1>1. \A phase \in {"git_safety", "custom_theme"} :
        /\ Store!ActionsFor("active", phase) = Kept!ActionsFor("active", phase)
        /\ Kept!ActionsFor("active", phase) \subseteq Kept!Actions
  BY DEF Store!ActionsFor, Kept!ActionsFor, Store!PhaseRecordAction, Kept!PhaseRecordAction,
         Kept!Actions, Kept!ActionNextPhase
<1>2. created \in Kept!Run
  BY <1>1 DEF Store!NewRun, Kept!Run, Kept!Strategies, Kept!Statuses, Kept!Phases
<1>3. created.plan = Nil /\ created.history = {} /\ created.evidence = << >> /\ created.status = "active"
  BY DEF Store!NewRun
<1>4. /\ AtCustomTheme.phase = "custom_theme" /\ AtCustomTheme.status = created.status
      /\ AtCustomTheme.allowedActions = Kept!ActionsFor("active", "custom_theme")
      /\ AtCustomTheme.plan = created.plan /\ AtCustomTheme.history = created.history
      /\ AtCustomTheme.evidence = created.evidence
      /\ AtCustomTheme \in Kept!Run
  <2> HIDE DEF created
  <2>1. AtCustomTheme = [created EXCEPT !.phase = "custom_theme",
                           !.allowedActions = Store!ActionsFor("active", "custom_theme")]
    BY DEF AtCustomTheme, created
  <2> QED
    BY <2>1, <1>1, <1>2 DEF Kept!Run, Kept!Phases
<1> HIDE DEF created
<1>5. Kept!Plans(AtCustomTheme) = {}
  BY <1>3, <1>4 DEF Kept!Plans
<1>6. \A phase \in Kept!CheckpointPhases : ~(Kept!PhaseRank[phase] < Kept!PhaseRank["custom_theme"])
  BY DEF Kept!CheckpointPhases, Kept!PhaseRank
<1>7. Kept!Backed(AtCustomTheme)
  BY <1>3, <1>4 DEF Kept!Backed
<1>8. Kept!Sound(AtCustomTheme)
  BY <1>3, <1>4, <1>5, <1>6, <1>7 DEF Kept!Sound
<1>9. runs \in [{RunId} -> Kept!Run \cup {Nil}] /\ runs[RunId] = AtCustomTheme
  BY <1>4 DEF Init
<1>10. AtCustomTheme # Nil
  BY <1>4, NilIsNothing
<1> QED
  BY <1>8, <1>9, <1>10 DEF StoreSound, Kept!FilesSound, Kept!Exists, run

LEMMA TypedInit == Init => Typed
<1> SUFFICES ASSUME Init PROVE Typed
  OBVIOUS
<1>1. ExecTyped
  <2>1. exec = [e \in Executors |-> IdleExec]
    BY DEF Init, Fresh, Rest
  <2> QED
    BY <2>1, IdleTyped DEF ExecTyped, CallTyped
<1>2. FilesTyped
  BY BoundsAreTyped DEF Init, Fresh, Rest, FilesTyped, Versions
<1>3. PubTyped
  BY DEF Init, Fresh, Rest, PubTyped, IdlePub
<1>4. ObservationTyped
  BY DEF Init, Fresh, Rest, ObservationTyped, NoEffects
<1> QED
  BY <1>1, <1>2, <1>3, <1>4, InitSound DEF Typed

LEMMA RewritesTyped ==
  ASSUME FilesTyped, NEW p \in Paths, Rewrites(p), UNCHANGED <<head, index, backups, pristine>>
  PROVE  FilesTyped'
<1>1. tree' \in [Paths -> Versions]
  BY DEF FilesTyped, Rewrites
<1> QED
  BY <1>1 DEF FilesTyped

LEMMA TouchesTyped ==
  ASSUME FilesTyped, TouchesFiles, UNCHANGED <<head, index, backups, pristine>>
  PROVE  FilesTyped'
BY RewritesTyped DEF TouchesFiles, FilesTyped

(* A call that reads a plan holds it, and what it says of the validation.  *)
LEMMA ReadingTyped ==
  ASSUME NEW plan \in Store!Plan
  PROVE  CallTyped(Reading(plan))
<1>1. plan.steps["validation"].evidence # Nil => plan.steps["validation"].evidence.candidate \in Diffs \cup {Nil}
  BY DEF Store!Plan, Store!StepNames, Store!StepState, Store!StepEvidence
<1>2. ValidatedCandidate(plan) \in Diffs \cup {Nil}
  BY <1>1 DEF ValidatedCandidate
<1>3. plan # Nil
  BY NilIsNoRecord
<1>4. Reading(plan) \in Calls
  BY <1>2 DEF Reading, IdleExec, Calls, Steps
<1>5. Reading(plan).pc = "step" /\ Reading(plan).plan = plan /\ Reading(plan).candidate = Nil
  BY <1>2 DEF Reading, IdleExec
<1> QED
  BY <1>3, <1>4, <1>5 DEF CallTyped, InCall, InStep

(* What an operation on the plan of the run leaves there. *)
LEMMA PlanSaved ==
  ASSUME StoreSound, NEW plan, Store!SavePlan(RunId, plan)
  PROVE  /\ run' = [run EXCEPT !.plan = plan]
         /\ run'.plan = plan /\ run'.history = run.history /\ run'.evidence = run.evidence
<1>1. run' = [run EXCEPT !.plan = plan]
  BY StoreMeans DEF Store!SavePlan, Store!Save, run
<1> QED
  BY <1>1, StoreMeans DEF Store!Run

(* What each operation on the plan makes of it. *)
LEMMA StepIsRecorded ==
  ASSUME StoreSound, NEW s, NEW status, NEW evidence, Store!RecordCheckpointStep(RunId, s, status, evidence)
  PROVE  /\ Store!CanRecordStep(run.plan, s, status) /\ run.plan \in Store!Plan
         /\ run'.plan = Store!StepRecorded(run.plan, s, status, evidence)
         /\ run'.history = run.history /\ run'.evidence = run.evidence
<1>1. Store!CanRecordStep(run.plan, s, status) /\ Store!SavePlan(RunId, Store!StepRecorded(run.plan, s, status, evidence))
  BY DEF Store!RecordCheckpointStep, run
<1>2. run.plan # Nil
  BY <1>1 DEF Store!CanRecordStep
<1> QED
  BY <1>1, <1>2, PlanSaved, StoreMeans

LEMMA BackupIsBound ==
  ASSUME StoreSound, NEW backup, Store!BindCheckpointBackup(RunId, backup)
  PROVE  /\ Store!CanBind(run.plan, backup) /\ run.plan \in Store!Plan
         /\ run'.plan = Store!Bound(run.plan, backup)
         /\ run'.history = run.history /\ run'.evidence = run.evidence
<1>1. Store!CanBind(run.plan, backup) /\ Store!SavePlan(RunId, Store!Bound(run.plan, backup))
  BY DEF Store!BindCheckpointBackup, run
<1>2. run.plan # Nil
  BY <1>1 DEF Store!CanBind
<1> QED
  BY <1>1, <1>2, PlanSaved, StoreMeans

LEMMA PlanIsResumed ==
  ASSUME StoreSound, Store!ResumeUnavailableCheckpoint(RunId)
  PROVE  /\ Store!CanResume(run.plan) /\ run.plan \in Store!Plan
         /\ run'.plan = Store!Resumed(run.plan) /\ run'.plan \in Store!Plan
         /\ run'.history = run.history /\ run'.evidence = run.evidence
<1>1. Store!CanResume(run.plan) /\ Store!SavePlan(RunId, Store!Resumed(run.plan))
  BY DEF Store!ResumeUnavailableCheckpoint, run
<1>2. run.plan # Nil
  BY <1>1 DEF Store!CanResume
<1>3. run.plan \in Store!Plan
  BY <1>2, StoreMeans
<1>4. Store!Resumed(run.plan) \in Store!Plan
  BY <1>3 DEF Store!Resumed, Store!Plan, Store!StepState, Store!StepStatuses
<1> QED
  BY <1>1, <1>3, <1>4, PlanSaved

LEMMA PlanIsCompleted ==
  ASSUME StoreSound, NEW candidate, Store!CompleteCheckpointPlan(RunId, candidate)
  PROVE  /\ Store!CanComplete(run.plan) /\ run.plan \in Store!Plan
         /\ run'.plan = Store!CompletedWith(run.plan, candidate)
         /\ run'.history = run.history /\ run'.evidence = run.evidence
<1>1. Store!CanComplete(run.plan) /\ Store!SavePlan(RunId, Store!CompletedWith(run.plan, candidate))
  BY DEF Store!CompleteCheckpointPlan, run
<1>2. run.plan # Nil
  BY <1>1 DEF Store!CanComplete
<1> QED
  BY <1>1, <1>2, PlanSaved, StoreMeans

LEMMA RunSaved ==
  ASSUME StoreSound, NEW next, Store!Save(RunId, next)
  PROVE  run' = next
BY StoreMeans DEF Store!Save, run

(* The steps that leave the run file alone. *)
LEMMA RunsKept ==
  ASSUME \/ \E e \in Executors :
              \/ \E s \in Store!StepNames : RefuseStep(e, s)
              \/ \E backup \in Backups, outcome \in Outcomes : CreateBackup(e, backup, outcome)
              \/ \E outcome \in Outcomes : RunCommand(e, outcome) \/ EndValidation(e, outcome)
              \/ BeginValidation(e) \/ Close(e) \/ CrashExec(e)
         \/ \E paths \in SUBSET Paths : ComputeCandidate(paths)
         \/ Authorize \/ Stage \/ Commit \/ CommitFails \/ CrashPub
         \/ \E p \in Paths : Edit(p) \/ StageEdit(p)
         \/ UNCHANGED vars
  PROVE  UNCHANGED runs
BY DEF RefuseStep, CreateBackup, RunCommand, EndValidation, BeginValidation, Close, CrashExec,
       ComputeCandidate, Authorize, Stage, Commit, CommitFails, CrashPub, Edit, StageEdit, vars

(* The file stays sound: every other step is an operation of the store, or *)
(* one it refused.                                                         *)
LEMMA StoreNext == Typed /\ [Next]_vars => StoreSound'
<1> SUFFICES ASSUME Typed, [Next]_vars PROVE StoreSound'
  OBVIOUS
<1>1. StoreSound /\ ExecTyped /\ PubTyped
  BY DEF Typed
<1>2. ASSUME UNCHANGED runs \/ Store!PlanNext(RunId) \/ Store!RunNext(RunId)
      PROVE  StoreSound'
  BY <1>1, <1>2, StoreUnchanged, StoreStaysSound
<1>3. ASSUME NEW e \in Executors, NEW paths \in SUBSET Paths, NEW resume \in BOOLEAN,
             Begin(e, PlanInput(run.phase, paths), resume)
      PROVE  Store!PlanNext(RunId)
  BY <1>1, <1>3, BeginOperates DEF Begin
<1>4. ASSUME NEW e \in Executors, CallNext(e)
      PROVE  UNCHANGED runs \/ Store!PlanNext(RunId)
  <2>1. exec[e] \in Calls /\ CallTyped(exec[e])
    BY <1>1 DEF ExecTyped
  <2>2. CASE Resume(e)
    BY <2>2 DEF Resume, Store!PlanNext
  <2>3. ASSUME NEW s \in Store!StepNames, StartStep(e, s)
        PROVE  Store!PlanNext(RunId)
    BY <2>3, StartOperates DEF StartStep
  <2>4. CASE BindBackup(e)
    <3>1. exec[e].backup \in Backups
      BY <2>1, <2>4 DEF BindBackup, CallTyped, Calls
    <3> QED
      BY <2>4, <3>1, BindOperates DEF BindBackup
  <2>5. CASE ReportStep(e)
    <3>1. /\ exec[e].step \in Store!StepNames /\ exec[e].candidate \in Diffs \cup {Nil}
          /\ exec[e].step # "validation" => exec[e].candidate = Nil
          /\ exec[e].plan \in Store!Plan
      BY <2>1, <2>5 DEF ReportStep, CallTyped, Calls, InCall, InStep, Remaining
    <3>2. exec[e].plan.paths \in SUBSET Paths
      BY <3>1 DEF Store!Plan
    <3>3. StatusOf(exec[e].outcome) \in {"succeeded", "failed", "unavailable"}
      BY DEF StatusOf
    <3> QED
      BY <2>5, <3>1, <3>2, <3>3, ReportOperates DEF ReportStep
  <2>6. CASE Complete(e)
    <3>1. exec[e].candidate \in Diffs
      BY <2>1, <2>6 DEF Complete, CallTyped, Calls
    <3> QED
      BY <2>6, <3>1, CompleteOperates DEF Complete
  <2> QED
    BY <1>4, <2>2, <2>3, <2>4, <2>5, <2>6, RunsKept DEF CallNext
<1>5. CASE RecordReceipt
  <2>1. pub.candidate \in Diffs
    BY <1>1, <1>5 DEF RecordReceipt, PubTyped
  <2> QED
    BY <1>1, <1>2, <1>5, <2>1, ReceiptOperates DEF RecordReceipt
<1>6. CASE Others
  <2>1. CASE Abandon
    BY <1>2, <2>1 DEF Abandon, Store!RunNext
  <2> QED
    BY <1>1, <1>2, <1>6, <2>1, ValidationOperates, RunsKept DEF Others
<1> QED
  BY <1>2, <1>3, <1>4, <1>5, <1>6, RunsKept DEF Next, ExecNext, PubNext

(* What the steps of a call that update it in part leave of it. *)
LEMMA StartBecomes ==
  ASSUME ExecTyped, NEW e \in Executors, NEW s \in Store!StepNames, StartStep(e, s)
  PROVE  exec' = [exec EXCEPT ![e] = [exec[e] EXCEPT !.pc = "effect", !.step = s]]
BY DEF ExecTyped, StartStep

(* The record of a call whose backup command has ended. *)
AfterBackup(call, backup, outcome) ==
  [call EXCEPT !.pc = IF outcome = "ok" THEN "bind" ELSE "report",
               !.outcome = outcome, !.backup = backup]

LEMMA BackupBecomes ==
  ASSUME ExecTyped, NEW e \in Executors, NEW backup \in Backups, NEW outcome \in Outcomes,
         CreateBackup(e, backup, outcome)
  PROVE  exec' = [exec EXCEPT ![e] = AfterBackup(exec[e], backup, outcome)]
BY DEF ExecTyped, CreateBackup, AfterBackup

LEMMA BindBecomes ==
  ASSUME ExecTyped, NEW e \in Executors, BindBackup(e)
  PROVE  \/ /\ Store!BindCheckpointBackup(RunId, exec[e].backup)
            /\ exec' = [exec EXCEPT ![e] = [exec[e] EXCEPT !.pc = "report"]]
         \/ UNCHANGED runs /\ exec' = [exec EXCEPT ![e] = IdleExec]
BY DEF ExecTyped, BindBackup

LEMMA CommandBecomes ==
  ASSUME ExecTyped, NEW e \in Executors, NEW outcome \in Outcomes, RunCommand(e, outcome)
  PROVE  exec' = [exec EXCEPT ![e] = [exec[e] EXCEPT !.pc = "report", !.outcome = outcome]]
BY DEF ExecTyped, RunCommand

LEMMA ValidationBegins ==
  ASSUME ExecTyped, NEW e \in Executors, BeginValidation(e)
  PROVE  \/ exec' = [exec EXCEPT ![e] = [exec[e] EXCEPT !.pc = "report", !.outcome = "failed"]]
         \/ \E before : /\ before # Nil /\ before = CandidateForPaths(exec[e].plan.paths)
                        /\ exec' = [exec EXCEPT ![e] = [exec[e] EXCEPT !.pc = "validating",
                                                                       !.candidate = before]]
<1> DEFINE before == CandidateForPaths(exec[e].plan.paths)
<1>1. exec' = IF before = Nil
             THEN [exec EXCEPT ![e].pc = "report", ![e].outcome = "failed"]
             ELSE [exec EXCEPT ![e].pc = "validating", ![e].candidate = before]
  BY DEF BeginValidation
<1> HIDE DEF before
<1>2. CASE before = Nil
  BY <1>1, <1>2 DEF ExecTyped
<1>3. CASE before # Nil
  <2>1. exec' = [exec EXCEPT ![e] = [exec[e] EXCEPT !.pc = "validating", !.candidate = before]]
    BY <1>1, <1>3 DEF ExecTyped
  <2> QED
    BY <1>3, <2>1 DEF before
<1> QED
  BY <1>2, <1>3

LEMMA ValidationEnds ==
  ASSUME ExecTyped, NEW e \in Executors, NEW outcome \in Outcomes, EndValidation(e, outcome)
  PROVE  \/ /\ outcome = "ok" /\ exec[e].candidate = CandidateForPaths(exec[e].plan.paths)
            /\ exec' = [exec EXCEPT ![e] = [exec[e] EXCEPT !.pc = "report", !.outcome = "ok"]]
         \/ \E end \in Outcomes \cup {"failed"} :
              /\ end # "ok"
              /\ exec' = [exec EXCEPT ![e] = [exec[e] EXCEPT !.pc = "report", !.candidate = Nil,
                                                             !.outcome = end]]
<1>1. CASE outcome = "ok" /\ SameCandidate(exec[e].candidate, CandidateForPaths(exec[e].plan.paths))
  BY <1>1 DEF ExecTyped, EndValidation, SameCandidate
<1>2. CASE ~(outcome = "ok" /\ SameCandidate(exec[e].candidate, CandidateForPaths(exec[e].plan.paths)))
  <2> DEFINE end == IF outcome = "ok" THEN "failed" ELSE outcome
  <2>1. exec' = [exec EXCEPT ![e] = [exec[e] EXCEPT !.pc = "report", !.candidate = Nil, !.outcome = end]]
    BY <1>2 DEF ExecTyped, EndValidation
  <2> QED
    BY <2>1
<1> QED
  BY <1>1, <1>2

LEMMA CloseBecomes ==
  ASSUME ExecTyped, NEW e \in Executors, Close(e)
  PROVE  \/ \E candidate : /\ candidate # Nil /\ candidate = CandidateForPaths(exec[e].plan.paths)
                           /\ candidate = exec[e].validated
                           /\ exec' = [exec EXCEPT ![e] = [exec[e] EXCEPT !.pc = "complete",
                                                                          !.candidate = candidate]]
         \/ exec' = [exec EXCEPT ![e] = IdleExec]
<1> DEFINE candidate == CandidateForPaths(exec[e].plan.paths)
<1>1. exec' = IF ClosesOn(e, candidate)
             THEN [exec EXCEPT ![e].pc = "complete", ![e].candidate = candidate]
             ELSE [exec EXCEPT ![e] = IdleExec]
  BY DEF Close
<1>2. CASE ClosesOn(e, candidate)
  <2>1. candidate # Nil /\ candidate = CandidateForPaths(exec[e].plan.paths) /\ candidate = exec[e].validated
    BY <1>2 DEF ClosesOn
  <2> HIDE DEF candidate
  <2>2. exec' = [exec EXCEPT ![e] = [exec[e] EXCEPT !.pc = "complete", !.candidate = candidate]]
    BY <1>1, <1>2 DEF ExecTyped
  <2> QED
    BY <2>1, <2>2
<1> QED
  BY <1>1, <1>2

(* The call that goes on after a step has succeeded. *)
Continued(call) ==
  [IdleExec EXCEPT
     !.pc = "step",
     !.plan = [call.plan EXCEPT !.steps[call.step].status = StatusOf(call.outcome)],
     !.validated = IF call.step = "validation" THEN call.candidate ELSE call.validated]

LEMMA StepsAreTyped ==
  ASSUME NEW plan \in Store!Plan, NEW s \in Store!StepNames, NEW status \in Store!StepStatuses
  PROVE  /\ [plan EXCEPT !.steps[s].status = status] \in Store!Plan
         /\ \A t \in Store!StepNames :
              [plan EXCEPT !.steps[s].status = status].steps[t].status =
                IF t = s THEN status ELSE plan.steps[t].status
BY DEF Store!Plan, Store!StepState

LEMMA ReportBecomes ==
  ASSUME ExecTyped, NEW e \in Executors, ReportStep(e)
  PROVE  \/ /\ StatusOf(exec[e].outcome) = "succeeded"
            /\ exec' = [exec EXCEPT ![e] = Continued(exec[e])]
            /\ CallTyped(Continued(exec[e]))
            /\ Continued(exec[e]).pc = "step"
            /\ Continued(exec[e]).candidate = Nil
            /\ Continued(exec[e]).plan = [exec[e].plan EXCEPT !.steps[exec[e].step].status = "succeeded"]
            /\ Continued(exec[e]).validated =
                 IF exec[e].step = "validation" THEN exec[e].candidate ELSE exec[e].validated
            /\ Store!RecordCheckpointStep(RunId, exec[e].step, "succeeded",
                 [paths |-> exec[e].plan.paths, candidate |-> exec[e].candidate])
         \/ exec' = [exec EXCEPT ![e] = IdleExec]
<1> DEFINE call == exec[e]
           plan == [call.plan EXCEPT !.steps[call.step].status = "succeeded"]
<1>1. CASE exec' = [exec EXCEPT ![e] = IdleExec]
  BY <1>1
<1>2. CASE exec' # [exec EXCEPT ![e] = IdleExec]
  <2>1. /\ StatusOf(call.outcome) = "succeeded"
        /\ exec' = [exec EXCEPT ![e] = Continued(call)]
        /\ Store!RecordCheckpointStep(RunId, exec[e].step, "succeeded",
                 [paths |-> exec[e].plan.paths, candidate |-> exec[e].candidate])
    <3> HIDE DEF plan
    <3>1. /\ exec' = [exec EXCEPT ![e] = IF StatusOf(call.outcome) # "succeeded" THEN IdleExec ELSE Continued(call)]
          /\ Store!RecordCheckpointStep(RunId, call.step, StatusOf(call.outcome),
                 [paths |-> call.plan.paths, candidate |-> call.candidate])
      BY <1>2 DEF ReportStep, Continued
    <3>2. StatusOf(call.outcome) = "succeeded"
      BY <1>2, <3>1
    <3> QED
      BY <3>1, <3>2
  <2>2. /\ call \in Calls /\ call.plan \in Store!Plan /\ call.step \in Store!StepNames
    BY NilIsNoRecord DEF ReportStep, ExecTyped, CallTyped, Calls, InCall, InStep, Remaining
  <2>3. plan \in Store!Plan /\ plan # Nil
    BY <2>2, StepsAreTyped, NilIsNoRecord DEF Store!StepStatuses
  <2>4. /\ Continued(call).pc = "step" /\ Continued(call).candidate = Nil
        /\ Continued(call).plan = plan
        /\ Continued(call).validated = IF call.step = "validation" THEN call.candidate ELSE call.validated
    BY <2>1 DEF Continued, IdleExec
  <2>5. Continued(call) \in Calls
    <3> HIDE DEF plan
    <3> DEFINE validated == IF call.step = "validation" THEN call.candidate ELSE call.validated
    <3>1. validated \in Diffs \cup {Nil}
      BY <2>2 DEF Calls
    <3> HIDE DEF validated
    <3>2. Continued(call) = [IdleExec EXCEPT !.pc = "step", !.plan = plan, !.validated = validated]
      BY <2>1 DEF Continued, plan, validated
    <3>3. IdleExec \in Calls
      BY IdleTyped DEF CallTyped
    <3> QED
      BY <2>3, <3>1, <3>2, <3>3 DEF Calls, Steps
  <2>6. CallTyped(Continued(call))
    BY <2>3, <2>4, <2>5 DEF CallTyped, InCall, InStep
  <2> QED
    BY <2>1, <2>4, <2>6
<1> QED
  BY <1>1, <1>2

(* What the rest leaves of a call. *)
LEMMA ExecKept ==
  ASSUME PubNext \/ Others \/ UNCHANGED vars
  PROVE  UNCHANGED exec
BY DEF PubNext, Others, ComputeCandidate, Authorize, Stage, Commit, CommitFails, RecordReceipt, CrashPub,
       RecordValidation, Edit, StageEdit, Abandon, vars

(* A call that begins finds the plan of its input or makes it, and what it *)
(* then reads is the plan in the file.                                     *)
Makes(input) ==
  /\ run'.plan = Store!PlanFromInput(input)
  /\ run'.history = Store!Plans(run)
  /\ run'.evidence = run.evidence

LEMMA BeginReads ==
  ASSUME StoreSound, StoreSound', NEW e \in Executors, NEW paths \in SUBSET Paths, NEW resume \in BOOLEAN,
         Begin(e, PlanInput(run.phase, paths), resume)
  PROVE  /\ run'.plan \in Store!Plan
         /\ (run' = run /\ run.plan # Nil) \/ \E input \in Store!PlanInputs : Makes(input)
         /\ \/ exec' = [exec EXCEPT ![e] = IdleExec]
            \/ exec' = [exec EXCEPT ![e] = [IdleExec EXCEPT !.pc = "resume"]]
            \/ exec' = [exec EXCEPT ![e] = Reading(run'.plan)]
<1> DEFINE input == PlanInput(run.phase, paths)
<1>1. /\ run' = Store!Begun(run, input) /\ run \in Store!Run
      /\ Store!CanBegin(run, input)
  BY StoreMeans, RunSaved DEF Begin, Store!BeginCheckpointPlan, run
<1>2. CASE run.plan # Nil /\ Store!SameIdentity(run.plan, input)
  <2>1. run' = run
    BY <1>1, <1>2 DEF Store!Begun
  <2> QED
    BY <1>2, <2>1, StoreMeansNext DEF Begin, run
<1>3. CASE ~(run.plan # Nil /\ Store!SameIdentity(run.plan, input))
  <2>1. run' = [run EXCEPT !.history = Store!Plans(run), !.plan = Store!PlanFromInput(input)]
    BY <1>1, <1>3 DEF Store!Begun
  <2>2. input \in Store!PlanInputs
    BY <1>1, PlanInputTyped DEF Store!CanBegin, Store!ValidPlanInput, PlanInput
  <2>3. Makes(input)
    BY <1>1, <2>1 DEF Makes, Store!Run
  <2>4. Store!PlanFromInput(input) \in Store!Plan
    BY <2>2 DEF Store!PlanFromInput, Store!Plan, Store!PlanInputs, Store!StepState, Store!StepStatuses
  <2> QED
    BY <2>2, <2>3, <2>4 DEF Begin, run, Makes
<1> QED
  BY <1>2, <1>3

LEMMA ExecNextTyped == Typed /\ [Next]_vars => ExecTyped'
<1> SUFFICES ASSUME Typed, [Next]_vars PROVE ExecTyped'
  OBVIOUS
<1>1. StoreSound /\ StoreSound' /\ ExecTyped /\ FilesTyped
  BY StoreNext DEF Typed
<1>2. ASSUME NEW e \in Executors, NEW call, CallTyped(call), exec' = [exec EXCEPT ![e] = call]
      PROVE  ExecTyped'
  BY <1>1, <1>2, ExecSet
<1>3. ASSUME NEW e \in Executors, NEW paths \in SUBSET Paths, NEW resume \in BOOLEAN,
             Begin(e, PlanInput(run.phase, paths), resume)
      PROVE  ExecTyped'
  <2>1. CallTyped([IdleExec EXCEPT !.pc = "resume"])
    <3> DEFINE call == [IdleExec EXCEPT !.pc = "resume"]
    <3>1. call \in Calls
      BY IdleTyped DEF CallTyped, Calls, Steps
    <3>2. call.pc = "resume" /\ call.candidate = Nil
      BY DEF IdleExec
    <3> QED
      BY <3>1, <3>2 DEF CallTyped, InCall, InStep
  <2>2. CallTyped(Reading(run'.plan))
    BY <1>1, <1>3, BeginReads, ReadingTyped
  <2> QED
    BY <1>1, <1>2, <1>3, <2>1, <2>2, BeginReads, IdleTyped
<1>4. ASSUME NEW e \in Executors, CallNext(e)
      PROVE  ExecTyped'
  <2> DEFINE call == exec[e]
  <2>1. call \in Calls /\ CallTyped(call)
    BY <1>1 DEF ExecTyped
  <2>2. CASE Resume(e)
    <3>1. CASE exec' = [exec EXCEPT ![e] = IdleExec]
      BY <1>2, <3>1, IdleTyped
    <3>2. CASE Store!ResumeUnavailableCheckpoint(RunId) /\ exec' = [exec EXCEPT ![e] = Reading(runs'[RunId].plan)]
      BY <1>1, <1>2, <3>2, PlanIsResumed, ReadingTyped DEF run
    <3> QED
      BY <2>2, <3>1, <3>2 DEF Resume
  <2>3. ASSUME NEW s \in Store!StepNames, StartStep(e, s)
        PROVE  ExecTyped'
    <3> DEFINE next == [call EXCEPT !.pc = "effect", !.step = s]
    <3>1. next \in Calls /\ next.pc = "effect" /\ next.step = s /\ next.plan = call.plan /\ next.candidate = call.candidate
      BY <2>1 DEF Calls, Steps
    <3>2. call.pc = "step" /\ s \in Remaining(call.plan)
      BY <2>3 DEF StartStep, IsNext
    <3>3. CallTyped(next)
      BY <2>1, <3>1, <3>2 DEF CallTyped, InCall, InStep
    <3> QED
      BY <1>1, <1>2, <2>3, <3>3, StartBecomes
  <2>4. ASSUME NEW s \in Store!StepNames, RefuseStep(e, s)
        PROVE  ExecTyped'
    BY <1>2, <2>4, IdleTyped DEF RefuseStep
  <2>5. ASSUME NEW backup \in Backups, NEW outcome \in Outcomes, CreateBackup(e, backup, outcome)
        PROVE  ExecTyped'
    <3> DEFINE next == AfterBackup(call, backup, outcome)
    <3>1. /\ next \in Calls /\ next.pc = (IF outcome = "ok" THEN "bind" ELSE "report")
          /\ next.outcome = outcome /\ next.backup = backup
          /\ next.step = call.step /\ next.plan = call.plan /\ next.candidate = call.candidate
      BY <2>1 DEF Calls, Steps, AfterBackup
    <3>2. call.pc = "effect" /\ call.step = "backup"
      BY <2>5 DEF CreateBackup
    <3>3. CallTyped(next)
      BY <2>1, <3>1, <3>2, NilIsNoData DEF CallTyped, InCall, InStep
    <3>4. exec' = [exec EXCEPT ![e] = next]
      BY <1>1, <2>5, BackupBecomes
    <3> QED
      BY <1>2, <3>3, <3>4
  <2>6. CASE BindBackup(e)
    <3> DEFINE next == [call EXCEPT !.pc = "report"]
    <3>1. /\ next \in Calls /\ next.pc = "report"
          /\ next.step = call.step /\ next.plan = call.plan /\ next.candidate = call.candidate
      BY <2>1 DEF Calls, Steps
    <3>2. call.pc = "bind"
      BY <2>6 DEF BindBackup
    <3>3. CallTyped(next)
      BY <2>1, <3>1, <3>2 DEF CallTyped, InCall, InStep
    <3> QED
      BY <1>1, <1>2, <2>6, <3>3, BindBecomes, IdleTyped
  <2>7. ASSUME NEW outcome \in Outcomes, RunCommand(e, outcome)
        PROVE  ExecTyped'
    <3> DEFINE next == [call EXCEPT !.pc = "report", !.outcome = outcome]
    <3>1. /\ next \in Calls /\ next.pc = "report"
          /\ next.step = call.step /\ next.plan = call.plan /\ next.candidate = call.candidate
      BY <2>1 DEF Calls, Steps
    <3>2. call.pc = "effect"
      BY <2>7 DEF RunCommand
    <3>3. CallTyped(next)
      BY <2>1, <3>1, <3>2 DEF CallTyped, InCall, InStep
    <3> QED
      BY <1>1, <1>2, <2>7, <3>3, CommandBecomes
  <2>8. CASE BeginValidation(e)
    <3>1. call.pc = "effect" /\ call.step = "validation" /\ call.plan \in Store!Plan
      BY <2>1, <2>8 DEF BeginValidation, CallTyped, Calls, InCall, InStep
    <3>2. CallTyped([call EXCEPT !.pc = "report", !.outcome = "failed"])
      <4> DEFINE next == [call EXCEPT !.pc = "report", !.outcome = "failed"]
      <4>1. /\ next \in Calls /\ next.pc = "report"
            /\ next.step = call.step /\ next.plan = call.plan /\ next.candidate = call.candidate
        BY <2>1 DEF Calls, Steps
      <4> QED
        BY <2>1, <3>1, <4>1 DEF CallTyped, InCall, InStep
    <3>3. ASSUME NEW before, before # Nil, before = CandidateForPaths(call.plan.paths)
          PROVE  CallTyped([call EXCEPT !.pc = "validating", !.candidate = before])
      <4> DEFINE next == [call EXCEPT !.pc = "validating", !.candidate = before]
      <4>1. before \in Diffs /\ DOMAIN before = call.plan.paths
        BY <1>1, <3>1, <3>3, CandidateIsDiff DEF Store!Plan
      <4>2. /\ next \in Calls /\ next.pc = "validating"
            /\ next.step = call.step /\ next.plan = call.plan /\ next.candidate = before
        BY <2>1, <4>1 DEF Calls, Steps
      <4> QED
        BY <2>1, <3>1, <3>3, <4>1, <4>2 DEF CallTyped, InCall, InStep
    <3> QED
      BY <1>1, <1>2, <2>8, <3>2, <3>3, ValidationBegins
  <2>9. ASSUME NEW outcome \in Outcomes, EndValidation(e, outcome)
        PROVE  ExecTyped'
    <3>1. call.pc = "validating" /\ call.step = "validation"
      BY <2>1, <2>9 DEF EndValidation, CallTyped
    <3>2. CallTyped([call EXCEPT !.pc = "report", !.outcome = "ok"])
      <4> DEFINE next == [call EXCEPT !.pc = "report", !.outcome = "ok"]
      <4>1. /\ next \in Calls /\ next.pc = "report"
            /\ next.step = call.step /\ next.plan = call.plan /\ next.candidate = call.candidate
        BY <2>1 DEF Calls, Steps
      <4> QED
        BY <2>1, <3>1, <4>1 DEF CallTyped, InCall, InStep
    <3>3. ASSUME NEW end \in Outcomes \cup {"failed"}
          PROVE  CallTyped([call EXCEPT !.pc = "report", !.candidate = Nil, !.outcome = end])
      <4> DEFINE next == [call EXCEPT !.pc = "report", !.candidate = Nil, !.outcome = end]
      <4>1. /\ next \in Calls /\ next.pc = "report"
            /\ next.step = call.step /\ next.plan = call.plan /\ next.candidate = Nil
        BY <2>1 DEF Calls, Steps
      <4> QED
        BY <2>1, <3>1, <4>1 DEF CallTyped, InCall, InStep
    <3> QED
      BY <1>1, <1>2, <2>9, <3>2, <3>3, ValidationEnds
  <2>10. CASE ReportStep(e)
    BY <1>1, <1>2, <2>10, ReportBecomes, IdleTyped
  <2>11. CASE Close(e)
    <3>1. call.pc = "step" /\ call.plan \in Store!Plan
      BY <2>1, <2>11 DEF Close, CallTyped, Calls, InCall, InStep
    <3>2. ASSUME NEW candidate, candidate # Nil, candidate = CandidateForPaths(call.plan.paths)
          PROVE  CallTyped([call EXCEPT !.pc = "complete", !.candidate = candidate])
      <4> DEFINE next == [call EXCEPT !.pc = "complete", !.candidate = candidate]
      <4>1. candidate \in Diffs /\ DOMAIN candidate = call.plan.paths
        BY <1>1, <3>1, <3>2, CandidateIsDiff DEF Store!Plan
      <4>2. /\ next \in Calls /\ next.pc = "complete"
            /\ next.step = call.step /\ next.plan = call.plan /\ next.candidate = candidate
        BY <2>1, <4>1 DEF Calls, Steps
      <4> QED
        BY <2>1, <3>1, <3>2, <4>1, <4>2 DEF CallTyped, InCall, InStep
    <3>3. CASE exec' = [exec EXCEPT ![e] = IdleExec]
      BY <1>2, <3>3, IdleTyped
    <3>4. ASSUME exec' # [exec EXCEPT ![e] = IdleExec]
          PROVE  ExecTyped'
      <4>1. PICK candidate : /\ candidate # Nil /\ candidate = CandidateForPaths(call.plan.paths)
                             /\ exec' = [exec EXCEPT ![e] = [call EXCEPT !.pc = "complete", !.candidate = candidate]]
        BY <1>1, <2>11, <3>4, CloseBecomes
      <4> QED
        BY <1>2, <3>2, <4>1
    <3> QED
      BY <3>3, <3>4
  <2>12. CASE Complete(e)
    BY <1>2, <2>12, IdleTyped DEF Complete
  <2> QED
    BY <1>4, <2>2, <2>3, <2>4, <2>5, <2>6, <2>7, <2>8, <2>9, <2>10, <2>11, <2>12 DEF CallNext
<1>5. ASSUME NEW e \in Executors, CrashExec(e)
      PROVE  ExecTyped'
  BY <1>2, <1>5, IdleTyped DEF CrashExec
<1>6. ASSUME UNCHANGED exec
      PROVE  ExecTyped'
  BY <1>1, <1>6 DEF ExecTyped
<1> QED
  BY <1>3, <1>4, <1>5, <1>6, ExecKept DEF Next, ExecNext

(* The steps that touch the files of the repository or the backups are few. *)
FilesKept == UNCHANGED <<files, backups, pristine>>

LEMMA MostKeepFiles ==
  ASSUME \/ \E e \in Executors :
              \/ Resume(e) \/ BindBackup(e) \/ BeginValidation(e) \/ ReportStep(e) \/ Close(e)
              \/ Complete(e) \/ CrashExec(e)
              \/ \E s \in Store!StepNames : StartStep(e, s) \/ RefuseStep(e, s)
              \/ \E outcome \in Outcomes : EndValidation(e, outcome)
         \/ \E paths \in SUBSET Paths : ComputeCandidate(paths)
         \/ Authorize \/ CommitFails \/ RecordReceipt \/ CrashPub
         \/ \E plan \in Store!Plans(run) : RecordValidation(plan)
         \/ Abandon \/ UNCHANGED vars
  PROVE  FilesKept
BY DEF FilesKept, files, observed, vars, Resume, BindBackup, BeginValidation, ReportStep, Close, Complete,
       CrashExec, StartStep, RefuseStep, EndValidation, ComputeCandidate, Authorize, CommitFails,
       RecordReceipt, CrashPub, RecordValidation, Abandon

LEMMA FilesNextTyped == Typed /\ [Next]_vars => FilesTyped'
<1> SUFFICES ASSUME Typed, [Next]_vars PROVE FilesTyped'
  OBVIOUS
<1>1. FilesTyped
  BY DEF Typed
<1>2. CASE FilesKept
  BY <1>1, <1>2 DEF FilesKept, files, FilesTyped
<1>3. ASSUME NEW e \in Executors, NEW paths \in SUBSET Paths, NEW resume \in BOOLEAN,
             Begin(e, PlanInput(run.phase, paths), resume)
      PROVE  FilesTyped'
  BY <1>1, <1>3 DEF Begin, files, FilesTyped
<1>4. ASSUME NEW e \in Executors, NEW backup \in Backups, NEW outcome \in Outcomes,
             CreateBackup(e, backup, outcome)
      PROVE  FilesTyped'
  BY <1>1, <1>4 DEF CreateBackup, files, FilesTyped
<1>5. ASSUME NEW e \in Executors, NEW outcome \in Outcomes, RunCommand(e, outcome)
      PROVE  FilesTyped'
  <2>1. UNCHANGED <<head, index, backups, pristine>> /\ (TouchesFiles \/ UNCHANGED tree)
    BY <1>5 DEF RunCommand
  <2> QED
    BY <1>1, <2>1, TouchesTyped DEF TouchesFiles
<1>6. CASE Stage
  BY <1>1, <1>6 DEF Stage, FilesTyped, observed
<1>7. CASE Commit
  BY <1>1, <1>7 DEF Commit, FilesTyped
<1>8. ASSUME NEW p \in Paths, Edit(p)
      PROVE  FilesTyped'
  BY <1>1, <1>8, RewritesTyped DEF Edit, observed
<1>9. ASSUME NEW p \in Paths, StageEdit(p)
      PROVE  FilesTyped'
  BY <1>1, <1>9 DEF StageEdit, FilesTyped, observed
<1> QED
  BY <1>2, <1>3, <1>4, <1>5, <1>6, <1>7, <1>8, <1>9, MostKeepFiles
     DEF Next, ExecNext, CallNext, PubNext, Others

LEMMA PubKept ==
  ASSUME (\E e \in Executors : ExecNext(e)) \/ Others \/ UNCHANGED vars
  PROVE  UNCHANGED pub
<1>1. ASSUME NEW e \in Executors, ExecNext(e)
      PROVE  UNCHANGED pub
  BY <1>1 DEF ExecNext, CallNext, Begin, Resume, StartStep, RefuseStep, CreateBackup, BindBackup,
              RunCommand, BeginValidation, EndValidation, ReportStep, Close, Complete, CrashExec
<1> QED
  BY <1>1 DEF Others, RecordValidation, Edit, StageEdit, Abandon, vars

LEMMA PubNextTyped == Typed /\ [Next]_vars => PubTyped'
<1> SUFFICES ASSUME Typed, [Next]_vars PROVE PubTyped'
  OBVIOUS
<1>1. PubTyped /\ FilesTyped
  BY DEF Typed
<1>2. CASE UNCHANGED pub
  BY <1>1, <1>2 DEF PubTyped
<1>3. CASE pub' = IdlePub
  BY <1>3 DEF PubTyped, IdlePub
<1>4. ASSUME NEW paths \in SUBSET Paths, ComputeCandidate(paths)
      PROVE  PubTyped'
  <2> DEFINE candidate == CandidateForPaths(paths)
  <2>1. candidate # Nil /\ pub' = [pc |-> "authorize", candidate |-> candidate]
    BY <1>4 DEF ComputeCandidate
  <2>2. candidate \in Diffs /\ DOMAIN candidate # {}
    BY <1>1, <2>1, CandidateIsDiff
  <2> HIDE DEF candidate
  <2> QED
    BY <2>1, <2>2 DEF PubTyped
<1>5. CASE Authorize
  BY <1>1, <1>3, <1>5 DEF Authorize, PubTyped
<1>6. CASE Stage
  BY <1>1, <1>3, <1>6 DEF Stage, PubTyped
<1>7. CASE Commit
  BY <1>1, <1>7 DEF Commit, PubTyped
<1> QED
  BY <1>2, <1>3, <1>4, <1>5, <1>6, <1>7, PubKept
     DEF Next, PubNext, CommitFails, RecordReceipt, CrashPub

(* What a commit holds, and when one is made. *)
Committed ==
  [candidate |-> pub.candidate,
   content |-> [p \in {q \in Paths : index[q] # head[q]} |-> index[p]]]

LEMMA CommittedTyped ==
  ASSUME FilesTyped, PubTyped, pub.pc # "idle"
  PROVE  Committed \in [candidate : Diffs, content : Contents]
<1> DEFINE paths == {q \in Paths : index[q] # head[q]}
<1>1. [p \in paths |-> index[p]] \in [paths -> Versions]
  BY DEF FilesTyped
<1>2. paths \in SUBSET Paths
  OBVIOUS
<1>3. [p \in paths |-> index[p]] \in Contents
  BY <1>1, <1>2 DEF Contents
<1>4. pub.candidate \in Diffs
  BY DEF PubTyped
<1> QED
  BY <1>3, <1>4 DEF Committed

LEMMA MostKeepCommits ==
  ASSUME [Next]_vars, ~Commit
  PROVE  UNCHANGED commits
<1>1. ASSUME NEW e \in Executors, ExecNext(e)
      PROVE  UNCHANGED commits
  BY <1>1 DEF ExecNext, CallNext, Begin, Resume, StartStep, RefuseStep, CreateBackup, BindBackup,
              RunCommand, BeginValidation, EndValidation, ReportStep, Close, Complete, CrashExec, observed
<1> QED
  BY <1>1 DEF Next, PubNext, Others, ComputeCandidate, Authorize, Stage, CommitFails, RecordReceipt,
              CrashPub, RecordValidation, Edit, StageEdit, Abandon, vars, observed

LEMMA MostKeepApplied ==
  ASSUME [Next]_vars
  PROVE  \/ UNCHANGED applied
         \/ \E e \in Executors, paths \in SUBSET Paths, resume \in BOOLEAN :
              Begin(e, PlanInput(run.phase, paths), resume) /\ applied' = NoEffects
         \/ \E e \in Executors, outcome \in Outcomes :
              /\ RunCommand(e, outcome) /\ outcome # "missing"
              /\ applied' = [applied EXCEPT ![exec[e].step] = @ + 1]
<1>1. ASSUME NEW e \in Executors, NEW paths \in SUBSET Paths, NEW resume \in BOOLEAN,
             Begin(e, PlanInput(run.phase, paths), resume)
      PROVE  UNCHANGED applied \/ applied' = NoEffects
  BY <1>1 DEF Begin
<1>2. ASSUME NEW e \in Executors, CallNext(e)
      PROVE  \/ UNCHANGED applied
             \/ \E outcome \in Outcomes :
                  /\ RunCommand(e, outcome) /\ outcome # "missing"
                  /\ applied' = [applied EXCEPT ![exec[e].step] = @ + 1]
  <2>1. ASSUME NEW outcome \in Outcomes, RunCommand(e, outcome)
        PROVE  \/ UNCHANGED applied
               \/ outcome # "missing" /\ applied' = [applied EXCEPT ![exec[e].step] = @ + 1]
    BY <2>1 DEF RunCommand, Runs
  <2> QED
    BY <1>2, <2>1 DEF CallNext, Resume, StartStep, RefuseStep, CreateBackup, BindBackup, BeginValidation,
                      EndValidation, ReportStep, Close, Complete, observed
<1> QED
  BY <1>1, <1>2 DEF Next, ExecNext, CrashExec, PubNext, Others, ComputeCandidate, Authorize, Stage, Commit,
                    CommitFails, RecordReceipt, CrashPub, RecordValidation, Edit, StageEdit, Abandon,
                    vars, observed

LEMMA ObservationNextTyped == Typed /\ [Next]_vars => ObservationTyped'
<1> SUFFICES ASSUME Typed, [Next]_vars PROVE ObservationTyped'
  OBVIOUS
<1>1. ObservationTyped /\ FilesTyped /\ PubTyped
  BY DEF Typed
<1>2. applied' \in [Store!StepNames -> Nat]
  <2>1. NoEffects \in [Store!StepNames -> Nat]
    BY DEF NoEffects
  <2>2. \A s \in Store!StepNames : [applied EXCEPT ![s] = @ + 1] \in [Store!StepNames -> Nat]
    BY <1>1 DEF ObservationTyped
  <2>3. \A e \in Executors, outcome \in Outcomes :
          RunCommand(e, outcome) => exec[e].step \in Store!StepNames
    BY StepUnderWay DEF Typed, RunCommand, InStep
  <2> QED
    BY <1>1, <2>1, <2>2, <2>3, MostKeepApplied DEF ObservationTyped
<1>3. commits' \in Seq([candidate : Diffs, content : Contents])
  <2>1. CASE Commit
    <3>1. commits' = Append(commits, Committed) /\ pub.pc # "idle"
      BY <2>1 DEF Commit, Committed
    <3> QED
      BY <1>1, <3>1, CommittedTyped DEF ObservationTyped
  <2>2. CASE ~Commit
    BY <1>1, <2>2, MostKeepCommits DEF ObservationTyped
  <2> QED
    BY <2>1, <2>2
<1> QED
  BY <1>2, <1>3 DEF ObservationTyped

LEMMA TypedNext == Typed /\ [Next]_vars => Typed'
BY StoreNext, ExecNextTyped, FilesNextTyped, PubNextTyped, ObservationNextTyped DEF Typed

LEMMA AlwaysTyped == Spec => []Typed
BY TypedInit, TypedNext, PTL DEF Spec

LEMMA TypedIsTypeOK == Typed => TypeOK
<1> SUFFICES ASSUME Typed PROVE TypeOK
  OBVIOUS
<1>1. Store!TypeOK
  BY StoreMeans DEF Typed
<1>2. FilesTyped /\ ExecTyped /\ PubTyped
  BY DEF Typed
<1>3. \A e \in Executors :
        /\ exec[e].pc \in Steps
        /\ exec[e].pc \notin {"idle", "resume"} => exec[e].plan # Nil
        /\ exec[e].pc \in InStep => exec[e].step \in Remaining(exec[e].plan)
        /\ exec[e].candidate # Nil => DOMAIN exec[e].candidate = exec[e].plan.paths
  BY <1>2 DEF ExecTyped, CallTyped, Calls, Steps, InCall, InStep
<1>4. pub.pc \in {"idle", "authorize", "stage", "commit", "receipt"}
  BY <1>2 DEF PubTyped
<1> QED
  BY <1>1, <1>2, <1>3, <1>4 DEF TypeOK, FilesTyped, Steps, InStep

(* The processes are where their code can be, and the files and the run    *)
(* are well formed, however many executors share them.                     *)
THEOREM TypeCorrect == Spec => []TypeOK
BY AlwaysTyped, TypedIsTypeOK, PTL

(***************************************************************************)
(* What completion rests on                                                *)
(***************************************************************************)

(* The plans of the run are left alone. *)
PlanKept == run'.plan = run.plan /\ run'.history = run.history

LEMMA RunKept == UNCHANGED runs => run' = run
BY DEF run

(* Whatever is not done by an executor leaves the plans alone. *)
LEMMA OthersKeepPlans ==
  ASSUME StoreSound, PubNext \/ Others \/ UNCHANGED vars
  PROVE  PlanKept
<1>1. run \in Store!Run
  BY StoreMeans
<1>2. CASE UNCHANGED runs
  BY <1>2, RunKept DEF PlanKept
<1>3. CASE RecordReceipt
  <2>1. ASSUME Store!RecordCheckpoint(RunId, Receipt(pub.candidate)) PROVE PlanKept
    <3> DEFINE input == Receipt(pub.candidate)
    <3>1. run' = Store!Receipted(run, input)
      BY <2>1, RunSaved DEF Store!RecordCheckpoint, run
    <3> HIDE DEF input
    <3> QED
      BY <1>1, <3>1 DEF Store!Receipted, Store!Run, PlanKept
  <2> QED
    BY <1>2, <1>3, <2>1 DEF RecordReceipt
<1>4. ASSUME NEW plan \in Store!Plans(run), RecordValidation(plan)
      PROVE  PlanKept
  <2>1. PICK input : Store!RecordProgress(RunId, input)
    BY <1>4 DEF RecordValidation
  <2> DEFINE next == Store!ActionNextPhase[input.action]
             status == Store!StatusAfter(next)
             offered == Store!ActionsFor(status, next)
             kept == Store!WithEvidence(run, input)
  <2>2. run' = [run EXCEPT !.evidence = kept, !.phase = next, !.status = status, !.allowedActions = offered]
    BY <2>1, RunSaved DEF Store!RecordProgress, run
  <2> HIDE DEF next, status, offered, kept
  <2> QED
    BY <1>1, <2>2 DEF Store!Run, PlanKept
<1>5. CASE Abandon
  <2>1. run' = [run EXCEPT !.status = "abandoned", !.allowedActions = {}]
    BY <1>5, RunSaved DEF Abandon, Store!Abandon, run
  <2> QED
    BY <1>1, <2>1 DEF Store!Run, PlanKept
<1> QED
  BY <1>2, <1>3, <1>4, <1>5, RunsKept DEF PubNext, Others

(* A plan is completed, and its validation passed, on one of the diffs. *)
ProvedIn(plan, diffs) ==
  /\ plan.completed => plan.candidate \in diffs
  /\ plan.steps["validation"].status = "succeeded" /\ plan.steps["validation"].evidence # Nil
       => plan.steps["validation"].evidence.candidate \in diffs \cup {Nil}

(* So is what a call is about to record or to complete the plan with. *)
CallProvedIn(call, diffs) ==
  /\ call.validated \in diffs \cup {Nil}
  /\ call.pc = "complete" => call.candidate \in diffs
  /\ call.pc = "report" => call.candidate \in diffs \cup {Nil}

(* The candidates on their way to a completion, in the file and in the     *)
(* calls, are all diffs that the validator found no error in.              *)
Validated ==
  /\ \A plan \in Store!Plans(run) : ProvedIn(plan, green)
  /\ \A e \in Executors : CallProvedIn(exec[e], green)

LEMMA GreenGrows == [Next]_vars => green \subseteq green'
<1>1. ASSUME NEW e \in Executors, NEW outcome \in Outcomes, EndValidation(e, outcome)
      PROVE  green \subseteq green'
  BY <1>1 DEF EndValidation
<1>2. ASSUME NEW e \in Executors, ExecNext(e)
      PROVE  green \subseteq green'
  BY <1>1, <1>2 DEF ExecNext, CallNext, Begin, Resume, StartStep, RefuseStep, CreateBackup, BindBackup,
                    RunCommand, BeginValidation, ReportStep, Close, Complete, CrashExec, observed
<1>3. ASSUME PubNext \/ Others \/ UNCHANGED vars
      PROVE  UNCHANGED green
  BY <1>3 DEF PubNext, Others, ComputeCandidate, Authorize, Stage, Commit, CommitFails, RecordReceipt,
              CrashPub, RecordValidation, Edit, StageEdit, Abandon, vars, observed
<1> QED
  BY <1>2, <1>3 DEF Next

LEMMA ProofsGrow ==
  ASSUME NEW diffs, NEW more, diffs \subseteq more
  PROVE  /\ \A plan : ProvedIn(plan, diffs) => ProvedIn(plan, more)
         /\ \A call : CallProvedIn(call, diffs) => CallProvedIn(call, more)
BY DEF ProvedIn, CallProvedIn

(* What the validation step of a plan vouches for, a call may trust. *)
LEMMA ReadingIsProved ==
  ASSUME NEW plan \in Store!Plan, NEW diffs, ProvedIn(plan, diffs)
  PROVE  CallProvedIn(Reading(plan), diffs)
<1>1. ValidatedCandidate(plan) \in diffs \cup {Nil}
  BY DEF ValidatedCandidate, ProvedIn
<1>2. Reading(plan).pc = "step" /\ Reading(plan).validated = ValidatedCandidate(plan)
  BY DEF Reading, IdleExec
<1> QED
  BY <1>1, <1>2 DEF CallProvedIn

LEMMA IdleIsProved == \A diffs : CallProvedIn(IdleExec, diffs)
BY DEF CallProvedIn, IdleExec

(* The new record of one executor, when the diffs found good have grown. *)
LEMMA CallsStayProved ==
  ASSUME ExecTyped, green \subseteq green', \A f \in Executors : CallProvedIn(exec[f], green),
         NEW e \in Executors, NEW call, CallProvedIn(call, green'), exec' = [exec EXCEPT ![e] = call]
  PROVE  \A f \in Executors : CallProvedIn(exec'[f], green')
BY ProofsGrow DEF ExecTyped

(* Each operation on the plan leaves it proved. *)
LEMMA NewPlanIsProved ==
  ASSUME NEW input, NEW diffs
  PROVE  ProvedIn(Store!PlanFromInput(input), diffs)
BY DEF ProvedIn, Store!PlanFromInput, Store!StepNames

LEMMA RecordedIsProved ==
  ASSUME NEW plan \in Store!Plan, NEW diffs, ProvedIn(plan, diffs), NEW s \in Store!StepNames, NEW status,
         NEW evidence, s = "validation" /\ status = "succeeded" => evidence.candidate \in diffs \cup {Nil}
  PROVE  ProvedIn(Store!StepRecorded(plan, s, status, evidence), diffs)
BY DEF ProvedIn, Store!StepRecorded, Store!Plan, Store!StepNames

LEMMA BoundIsProved ==
  ASSUME NEW plan \in Store!Plan, NEW diffs, ProvedIn(plan, diffs), NEW backup
  PROVE  ProvedIn(Store!Bound(plan, backup), diffs)
BY DEF ProvedIn, Store!Bound, Store!Plan

LEMMA ResumedIsProved ==
  ASSUME NEW plan \in Store!Plan, NEW diffs, ProvedIn(plan, diffs)
  PROVE  ProvedIn(Store!Resumed(plan), diffs)
<1>1. /\ Store!Resumed(plan).completed = plan.completed
      /\ Store!Resumed(plan).candidate = plan.candidate
      /\ Store!Resumed(plan).steps["validation"] =
           IF plan.steps["validation"].status = "unavailable"
           THEN [status |-> "pending", evidence |-> Nil] ELSE plan.steps["validation"]
  BY DEF Store!Resumed, Store!Plan, Store!StepNames
<1> QED
  BY <1>1 DEF ProvedIn

LEMMA CompletedIsProved ==
  ASSUME NEW plan \in Store!Plan, NEW diffs, ProvedIn(plan, diffs), NEW candidate \in diffs
  PROVE  ProvedIn(Store!CompletedWith(plan, candidate), diffs)
<1>1. /\ Store!CompletedWith(plan, candidate).candidate = candidate
      /\ Store!CompletedWith(plan, candidate).steps = plan.steps
  BY DEF Store!CompletedWith, Store!Plan
<1> QED
  BY <1>1 DEF ProvedIn

LEMMA ValidatedInit == Init => Validated
<1> SUFFICES ASSUME Init PROVE Validated
  OBVIOUS
<1>1. Store!Plans(run) = {}
  <2>1. run = AtCustomTheme /\ exec = [e \in Executors |-> IdleExec]
    BY DEF Init, run, Fresh, Rest
  <2> DEFINE created == Store!NewRun(Major, "per-fix", Scope)
             offered == Store!ActionsFor("active", "custom_theme")
  <2>2. created.plan = Nil /\ created.history = {}
    BY DEF Store!NewRun
  <2>3. AtCustomTheme = [created EXCEPT !.phase = "custom_theme", !.allowedActions = offered]
    BY DEF AtCustomTheme
  <2> HIDE DEF created, offered
  <2>4. AtCustomTheme.plan = created.plan /\ AtCustomTheme.history = created.history
    BY <2>3
  <2> QED
    BY <2>1, <2>2, <2>4 DEF Store!Plans
<1>2. \A e \in Executors : exec[e] = IdleExec
  BY DEF Init, Fresh, Rest
<1> QED
  BY <1>1, <1>2, IdleIsProved DEF Validated

LEMMA PlansStayProved == Typed /\ Validated /\ [Next]_vars => \A plan \in Store!Plans(run') : ProvedIn(plan, green')
<1> SUFFICES ASSUME Typed, Validated, [Next]_vars
             PROVE  \A plan \in Store!Plans(run') : ProvedIn(plan, green')
  OBVIOUS
<1>1. StoreSound /\ StoreSound' /\ ExecTyped
  BY StoreNext DEF Typed
<1>2. \A plan \in Store!Plans(run) : ProvedIn(plan, green')
  BY GreenGrows, ProofsGrow DEF Validated
<1>3. CASE PlanKept
  BY <1>2, <1>3 DEF PlanKept, Store!Plans
<1>4. ASSUME NEW plan, run'.plan = plan, ProvedIn(plan, green'), run'.history \subseteq Store!Plans(run)
      PROVE  \A p \in Store!Plans(run') : ProvedIn(p, green')
  BY <1>2, <1>4 DEF Store!Plans
<1>5. run.history \subseteq Store!Plans(run) /\ (run.plan # Nil => run.plan \in Store!Plans(run))
  BY DEF Store!Plans
<1>6. run.plan \in Store!Plan => run.plan # Nil
  BY NilIsNoRecord
<1>7. UNCHANGED runs => PlanKept
  BY RunKept DEF PlanKept
<1>8. ASSUME NEW e \in Executors, NEW paths \in SUBSET Paths, NEW resume \in BOOLEAN,
             Begin(e, PlanInput(run.phase, paths), resume)
      PROVE  \A plan \in Store!Plans(run') : ProvedIn(plan, green')
  <2>1. CASE run' = run
    BY <1>3, <2>1 DEF PlanKept
  <2>2. ASSUME NEW input, Makes(input)
        PROVE  \A plan \in Store!Plans(run') : ProvedIn(plan, green')
    BY <1>4, <2>2, NewPlanIsProved DEF Makes
  <2> QED
    BY <1>1, <1>8, <2>1, <2>2, BeginReads
<1>9. ASSUME NEW e \in Executors, CallNext(e)
      PROVE  \A plan \in Store!Plans(run') : ProvedIn(plan, green')
  <2>1. CASE Resume(e)
    <3>1. CASE Store!ResumeUnavailableCheckpoint(RunId)
      BY <1>1, <1>2, <1>4, <1>5, <1>6, <3>1, PlanIsResumed, ResumedIsProved
    <3> QED
      BY <1>3, <1>7, <2>1, <3>1 DEF Resume
  <2>2. ASSUME NEW s \in Store!StepNames, StartStep(e, s)
        PROVE  \A plan \in Store!Plans(run') : ProvedIn(plan, green')
    <3>1. Store!RecordCheckpointStep(RunId, s, "running", Nil)
      BY <2>2 DEF StartStep
    <3>2. /\ run.plan \in Store!Plan /\ run'.history = run.history
          /\ run'.plan = Store!StepRecorded(run.plan, s, "running", Nil)
      BY <1>1, <3>1, StepIsRecorded
    <3>3. ProvedIn(run.plan, green')
      BY <1>2, <1>5, <1>6, <3>2
    <3>4. ProvedIn(run'.plan, green')
      BY <3>2, <3>3, RecordedIsProved
    <3> QED
      BY <1>4, <1>5, <3>2, <3>4
  <2>3. CASE BindBackup(e)
    <3>1. CASE Store!BindCheckpointBackup(RunId, exec[e].backup)
      BY <1>1, <1>2, <1>4, <1>5, <1>6, <3>1, BackupIsBound, BoundIsProved
    <3> QED
      BY <1>3, <1>7, <2>3, <3>1 DEF BindBackup
  <2>4. CASE ReportStep(e)
    <3> DEFINE status == StatusOf(exec[e].outcome)
               evidence == [paths |-> exec[e].plan.paths, candidate |-> exec[e].candidate]
               s == exec[e].step
    <3>1. ASSUME Store!RecordCheckpointStep(RunId, s, status, evidence)
          PROVE  \A plan \in Store!Plans(run') : ProvedIn(plan, green')
      <4>1. s \in Store!StepNames
        BY <1>1, <2>4, StepUnderWay DEF ReportStep, InStep
      <4>2. evidence.candidate \in green' \cup {Nil}
        BY <2>4, GreenGrows DEF ReportStep, Validated, CallProvedIn
      <4> HIDE DEF status, evidence, s
      <4>3. /\ run.plan \in Store!Plan /\ run'.history = run.history
            /\ run'.plan = Store!StepRecorded(run.plan, s, status, evidence)
        BY <1>1, <3>1, StepIsRecorded
      <4>4. ProvedIn(run.plan, green')
        BY <1>2, <1>5, <1>6, <4>3
      <4>5. ProvedIn(run'.plan, green')
        BY <4>1, <4>2, <4>3, <4>4, RecordedIsProved
      <4> QED
        BY <1>4, <1>5, <4>3, <4>5
    <3> QED
      BY <1>3, <1>7, <2>4, <3>1 DEF ReportStep
  <2>5. CASE Complete(e)
    <3>1. exec[e].candidate \in green'
      BY <2>5, GreenGrows DEF Complete, Validated, CallProvedIn
    <3>2. CASE Store!CompleteCheckpointPlan(RunId, exec[e].candidate)
      BY <1>1, <1>2, <1>4, <1>5, <1>6, <3>1, <3>2, PlanIsCompleted, CompletedIsProved
    <3> QED
      BY <1>3, <1>7, <2>5, <3>2 DEF Complete
  <2> QED
    BY <1>3, <1>7, <1>9, <2>1, <2>2, <2>3, <2>4, <2>5, RunsKept DEF CallNext
<1>10. ASSUME PubNext \/ Others \/ UNCHANGED vars
       PROVE  \A plan \in Store!Plans(run') : ProvedIn(plan, green')
  BY <1>1, <1>3, <1>10, OthersKeepPlans
<1> QED
  BY <1>3, <1>7, <1>8, <1>9, <1>10, RunsKept DEF Next, ExecNext

LEMMA CallsStayValidated ==
  Typed /\ Validated /\ [Next]_vars => \A e \in Executors : CallProvedIn(exec'[e], green')
<1> SUFFICES ASSUME Typed, Validated, [Next]_vars
             PROVE  \A e \in Executors : CallProvedIn(exec'[e], green')
  OBVIOUS
<1>1. StoreSound /\ StoreSound' /\ ExecTyped /\ green \subseteq green'
  BY StoreNext, GreenGrows DEF Typed
<1>2. \A e \in Executors : CallProvedIn(exec[e], green) /\ CallProvedIn(exec[e], green')
  BY <1>1, ProofsGrow DEF Validated
<1>3. ASSUME NEW e \in Executors, NEW call, CallProvedIn(call, green'), exec' = [exec EXCEPT ![e] = call]
      PROVE  \A f \in Executors : CallProvedIn(exec'[f], green')
  BY <1>1, <1>2, <1>3, CallsStayProved
<1>4. run'.plan \in Store!Plan => ProvedIn(run'.plan, green')
  BY PlansStayProved, NilIsNoRecord DEF Store!Plans
<1>5. run'.plan \in Store!Plan => CallProvedIn(Reading(run'.plan), green')
  BY <1>4, ReadingIsProved
<1>6. ASSUME NEW e \in Executors, NEW paths \in SUBSET Paths, NEW resume \in BOOLEAN,
             Begin(e, PlanInput(run.phase, paths), resume)
      PROVE  \A f \in Executors : CallProvedIn(exec'[f], green')
  <2>1. CallProvedIn([IdleExec EXCEPT !.pc = "resume"], green')
    BY DEF CallProvedIn, IdleExec
  <2> QED
    BY <1>1, <1>3, <1>5, <1>6, <2>1, BeginReads, IdleIsProved
<1>7. ASSUME NEW e \in Executors, CallNext(e)
      PROVE  \A f \in Executors : CallProvedIn(exec'[f], green')
  <2> DEFINE call == exec[e]
  <2>1. call \in Calls /\ CallTyped(call)
    BY <1>1 DEF ExecTyped
  <2>2. CallProvedIn(call, green')
    BY <1>2
  <2>3. CASE Resume(e)
    <3>1. CASE exec' = [exec EXCEPT ![e] = IdleExec]
      BY <1>3, <3>1, IdleIsProved
    <3>2. CASE Store!ResumeUnavailableCheckpoint(RunId) /\ exec' = [exec EXCEPT ![e] = Reading(runs'[RunId].plan)]
      BY <1>1, <1>3, <1>5, <3>2, PlanIsResumed DEF run
    <3> QED
      BY <2>3, <3>1, <3>2 DEF Resume
  <2>4. ASSUME NEW s \in Store!StepNames, StartStep(e, s)
        PROVE  \A f \in Executors : CallProvedIn(exec'[f], green')
    <3> DEFINE next == [call EXCEPT !.pc = "effect", !.step = s]
    <3>1. CallProvedIn(next, green')
      BY <2>1, <2>2 DEF CallProvedIn, Calls
    <3>2. exec' = [exec EXCEPT ![e] = next]
      BY <1>1, <2>4, StartBecomes
    <3> QED
      BY <1>3, <3>1, <3>2
  <2>5. ASSUME NEW s \in Store!StepNames, RefuseStep(e, s)
        PROVE  \A f \in Executors : CallProvedIn(exec'[f], green')
    BY <1>3, <2>5, IdleIsProved DEF RefuseStep
  <2>6. ASSUME NEW backup \in Backups, NEW outcome \in Outcomes, CreateBackup(e, backup, outcome)
        PROVE  \A f \in Executors : CallProvedIn(exec'[f], green')
    <3> DEFINE next == AfterBackup(call, backup, outcome)
    <3>1. next.validated = call.validated /\ next.candidate = call.candidate /\ next.pc # "complete"
      BY <2>1 DEF Calls, AfterBackup
    <3>2. call.candidate = Nil
      BY <2>1, <2>6 DEF CallTyped, CreateBackup
    <3>3. CallProvedIn(next, green')
      BY <2>2, <3>1, <3>2 DEF CallProvedIn
    <3>4. exec' = [exec EXCEPT ![e] = next]
      BY <1>1, <2>6, BackupBecomes
    <3> QED
      BY <1>3, <3>3, <3>4
  <2>7. CASE BindBackup(e)
    <3> DEFINE next == [call EXCEPT !.pc = "report"]
    <3>1. call.candidate = Nil
      BY <2>1, <2>7 DEF CallTyped, BindBackup
    <3>2. CallProvedIn(next, green')
      BY <2>1, <2>2, <3>1 DEF CallProvedIn, Calls
    <3>3. exec' = [exec EXCEPT ![e] = next] \/ exec' = [exec EXCEPT ![e] = IdleExec]
      BY <1>1, <2>7, BindBecomes
    <3> QED
      BY <1>3, <3>2, <3>3, IdleIsProved
  <2>8. ASSUME NEW outcome \in Outcomes, RunCommand(e, outcome)
        PROVE  \A f \in Executors : CallProvedIn(exec'[f], green')
    <3> DEFINE next == [call EXCEPT !.pc = "report", !.outcome = outcome]
    <3>1. call.candidate = Nil
      BY <2>1, <2>8 DEF CallTyped, RunCommand
    <3>2. CallProvedIn(next, green')
      BY <2>1, <2>2, <3>1 DEF CallProvedIn, Calls
    <3>3. exec' = [exec EXCEPT ![e] = next]
      BY <1>1, <2>8, CommandBecomes
    <3> QED
      BY <1>3, <3>2, <3>3
  <2>9. CASE BeginValidation(e)
    <3>1. call.candidate = Nil
      BY <2>1, <2>9 DEF CallTyped, BeginValidation
    <3>2. CallProvedIn([call EXCEPT !.pc = "report", !.outcome = "failed"], green')
      BY <2>1, <2>2, <3>1 DEF CallProvedIn, Calls
    <3>3. \A before : CallProvedIn([call EXCEPT !.pc = "validating", !.candidate = before], green')
      BY <2>1, <2>2 DEF CallProvedIn, Calls
    <3> QED
      BY <1>1, <1>3, <2>9, <3>2, <3>3, ValidationBegins
  <2>10. ASSUME NEW outcome \in Outcomes, EndValidation(e, outcome)
         PROVE  \A f \in Executors : CallProvedIn(exec'[f], green')
    <3>1. ASSUME outcome = "ok", call.candidate = CandidateForPaths(call.plan.paths)
          PROVE  CallProvedIn([call EXCEPT !.pc = "report", !.outcome = "ok"], green')
      <4>1. call.candidate # Nil
        BY <2>1, <2>10 DEF CallTyped, EndValidation
      <4>2. call.candidate \in green'
        BY <2>10, <3>1, <4>1 DEF EndValidation, CandidateForPaths
      <4> QED
        BY <2>1, <2>2, <4>2 DEF CallProvedIn, Calls
    <3>2. \A end : CallProvedIn([call EXCEPT !.pc = "report", !.candidate = Nil, !.outcome = end], green')
      <4> SUFFICES ASSUME NEW end
                   PROVE  CallProvedIn([call EXCEPT !.pc = "report", !.candidate = Nil, !.outcome = end], green')
        OBVIOUS
      <4> DEFINE next == [call EXCEPT !.pc = "report", !.candidate = Nil, !.outcome = end]
      <4>1. next.pc = "report" /\ next.candidate = Nil /\ next.validated = call.validated
        BY <2>1 DEF Calls
      <4> QED
        BY <2>2, <4>1 DEF CallProvedIn
    <3> QED
      BY <1>1, <1>3, <2>10, <3>1, <3>2, ValidationEnds
  <2>11. CASE ReportStep(e)
    <3>1. call.candidate \in green' \cup {Nil}
      BY <2>2, <2>11 DEF CallProvedIn, ReportStep
    <3>2. ASSUME Continued(call).pc = "step",
                 Continued(call).validated = IF call.step = "validation" THEN call.candidate ELSE call.validated
          PROVE  CallProvedIn(Continued(call), green')
      BY <2>2, <3>1, <3>2 DEF CallProvedIn
    <3> QED
      BY <1>1, <1>3, <2>11, <3>2, ReportBecomes, IdleIsProved
  <2>12. CASE Close(e)
    <3>1. CASE exec' = [exec EXCEPT ![e] = IdleExec]
      BY <1>3, <3>1, IdleIsProved
    <3>2. CASE exec' # [exec EXCEPT ![e] = IdleExec]
      <4>1. PICK candidate : /\ candidate # Nil /\ candidate = CandidateForPaths(call.plan.paths)
                             /\ candidate = call.validated
                             /\ exec' = [exec EXCEPT ![e] = [call EXCEPT !.pc = "complete", !.candidate = candidate]]
        BY <1>1, <2>12, <3>2, CloseBecomes
      <4> DEFINE next == [call EXCEPT !.pc = "complete", !.candidate = candidate]
      <4>2. next.validated = call.validated /\ next.candidate = candidate /\ next.pc = "complete"
        BY <2>1 DEF Calls
      <4>3. CallProvedIn(next, green')
        BY <2>2, <4>1, <4>2 DEF CallProvedIn
      <4> QED
        BY <1>3, <4>1, <4>3
    <3> QED
      BY <3>1, <3>2
  <2>13. CASE Complete(e)
    BY <1>3, <2>13, IdleIsProved DEF Complete
  <2> QED
    BY <1>7, <2>3, <2>4, <2>5, <2>6, <2>7, <2>8, <2>9, <2>10, <2>11, <2>12, <2>13 DEF CallNext
<1>8. ASSUME NEW e \in Executors, CrashExec(e)
      PROVE  \A f \in Executors : CallProvedIn(exec'[f], green')
  BY <1>3, <1>8, IdleIsProved DEF CrashExec
<1>9. ASSUME UNCHANGED exec
      PROVE  \A f \in Executors : CallProvedIn(exec'[f], green')
  BY <1>2, <1>9
<1> QED
  BY <1>6, <1>7, <1>8, <1>9, ExecKept DEF Next, ExecNext

LEMMA ValidatedNext == Typed /\ Validated /\ [Next]_vars => Validated'
BY PlansStayProved, CallsStayValidated DEF Validated

LEMMA AlwaysValidated == Spec => []Validated
BY ValidatedInit, ValidatedNext, AlwaysTyped, PTL DEF Spec

(* A plan is only ever completed with a candidate that the validator found *)
(* no error in, whatever is edited while the calls run, and whichever of   *)
(* several calls, crashes and resumptions it went through.                 *)
THEOREM CompletedAreValidated == Spec => []CompletedWasValidated
<1>1. Validated => CompletedWasValidated
  BY DEF Validated, CompletedWasValidated, ProvedIn
<1> QED
  BY <1>1, AlwaysValidated, PTL

(***************************************************************************)
(* Receipts and commits                                                    *)
(***************************************************************************)

(* The places of the receipts in a log of evidence. *)
ReceiptsOf(log) == {i \in 1..Len(log) : log[i].kind = "checkpoint_commit"}

LEMMA ReceiptsAreFinite ==
  ASSUME NEW log \in Seq(Store!Evidence)
  PROVE  /\ IsFiniteSet(ReceiptsOf(log)) /\ Cardinality(ReceiptsOf(log)) \in Nat
         /\ Len(log) + 1 \notin ReceiptsOf(log)
<1>1. ReceiptsOf(log) \subseteq 1..Len(log) /\ Len(log) \in Nat /\ Len(log) + 1 \notin 1..Len(log)
  BY DEF ReceiptsOf
<1>2. IsFiniteSet(1..Len(log))
  BY <1>1, FS_Interval
<1>3. IsFiniteSet(ReceiptsOf(log))
  BY <1>1, <1>2, FS_Subset
<1> QED
  BY <1>1, <1>3, FS_CardinalityType

LEMMA NotesAreNoReceipts ==
  ASSUME NEW log \in Seq(Store!Evidence), NEW e \in Store!Evidence, e.kind = "validation"
  PROVE  /\ ReceiptsOf(Append(log, e)) = ReceiptsOf(log)
         /\ \A i \in ReceiptsOf(log) : Append(log, e)[i] = log[i]
BY DEF ReceiptsOf

LEMMA ReceiptIsAppended ==
  ASSUME NEW log \in Seq(Store!Evidence), NEW e \in Store!Evidence, e.kind = "checkpoint_commit"
  PROVE  /\ Cardinality(ReceiptsOf(Append(log, e))) = Cardinality(ReceiptsOf(log)) + 1
         /\ \A i \in ReceiptsOf(Append(log, e)) :
              (i \in ReceiptsOf(log) /\ Append(log, e)[i] = log[i]) \/ Append(log, e)[i] = e
<1>1. ReceiptsOf(Append(log, e)) = ReceiptsOf(log) \cup {Len(log) + 1}
  BY DEF ReceiptsOf
<1>2. \A i \in ReceiptsOf(log) : Append(log, e)[i] = log[i]
  BY DEF ReceiptsOf
<1>3. Cardinality(ReceiptsOf(Append(log, e))) = Cardinality(ReceiptsOf(log)) + 1
  BY <1>1, ReceiptsAreFinite, FS_AddElement
<1>4. Append(log, e)[Len(log) + 1] = e
  OBVIOUS
<1> QED
  BY <1>1, <1>2, <1>3, <1>4

(* What each step appends to the evidence of the run. *)
LEMMA EvidenceGrows ==
  ASSUME Typed, [Next]_vars
  PROVE  \/ run'.evidence = run.evidence
         \/ \E e \in Store!Evidence :
              /\ e.kind = "validation" /\ UNCHANGED <<pub, commits>>
              /\ run'.evidence = Append(run.evidence, e)
         \/ \E e \in Store!Evidence :
              /\ e.kind = "checkpoint_commit" /\ e.candidate = pub.candidate
              /\ run'.evidence = Append(run.evidence, e)
              /\ RecordReceipt
<1>1. StoreSound /\ StoreSound' /\ run \in Store!Run /\ PubTyped
  BY StoreNext, StoreMeans DEF Typed
<1>2. UNCHANGED runs => run'.evidence = run.evidence
  BY DEF run
<1>3. ASSUME NEW e \in Executors, ExecNext(e)
      PROVE  run'.evidence = run.evidence
  <2>1. ASSUME NEW paths \in SUBSET Paths, NEW resume \in BOOLEAN,
               Begin(e, PlanInput(run.phase, paths), resume)
        PROVE  run'.evidence = run.evidence
    BY <1>1, <2>1, BeginReads DEF Makes
  <2>2. ASSUME NEW s \in Store!StepNames, StartStep(e, s)
        PROVE  run'.evidence = run.evidence
    BY <1>1, <2>2, StepIsRecorded DEF StartStep
  <2>3. CASE Resume(e)
    BY <1>1, <1>2, <2>3, PlanIsResumed DEF Resume
  <2>4. CASE BindBackup(e)
    BY <1>1, <1>2, <2>4, BackupIsBound DEF BindBackup
  <2>5. CASE ReportStep(e)
    <3> DEFINE status == StatusOf(exec[e].outcome)
               evidence == [paths |-> exec[e].plan.paths, candidate |-> exec[e].candidate]
    <3>1. UNCHANGED runs \/ Store!RecordCheckpointStep(RunId, exec[e].step, status, evidence)
      BY <2>5 DEF ReportStep
    <3> HIDE DEF status, evidence
    <3> QED
      BY <1>1, <1>2, <3>1, StepIsRecorded
  <2>6. CASE Complete(e)
    BY <1>1, <1>2, <2>6, PlanIsCompleted DEF Complete
  <2> QED
    BY <1>2, <1>3, <2>1, <2>2, <2>3, <2>4, <2>5, <2>6, RunsKept DEF ExecNext, CallNext
<1>4. CASE RecordReceipt
  <2>1. ASSUME Store!RecordCheckpoint(RunId, Receipt(pub.candidate))
        PROVE  \E e \in Store!Evidence :
                 /\ e.kind = "checkpoint_commit" /\ e.candidate = pub.candidate
                 /\ run'.evidence = Append(run.evidence, e)
    <3> DEFINE input == Receipt(pub.candidate)
               e == [kind |-> "checkpoint_commit", phase |-> run.phase,
                     validation |-> input.validation, candidate |-> input.candidate,
                     paths |-> input.paths, target |-> input.target]
    <3>1. pub.candidate \in Diffs
      BY <1>1, <1>4 DEF RecordReceipt, PubTyped
    <3>2. e \in Store!Evidence /\ e.kind = "checkpoint_commit" /\ e.candidate = pub.candidate
      BY <1>1, <3>1, DiffIsOfPaths DEF Receipt, Store!Evidence, Store!Run
    <3>3. run' = [run EXCEPT !.evidence = Append(run.evidence, e)]
      BY <1>1, <2>1, RunSaved DEF Store!RecordCheckpoint, Store!Receipted, run
    <3> HIDE DEF e
    <3>4. run'.evidence = Append(run.evidence, e)
      BY <1>1, <3>3 DEF Store!Run
    <3> QED
      BY <3>2, <3>4
  <2> QED
    BY <1>2, <1>4, <2>1 DEF RecordReceipt
<1>5. ASSUME NEW plan \in Store!Plans(run), RecordValidation(plan)
      PROVE  \E e \in Store!Evidence :
               /\ e.kind = "validation" /\ UNCHANGED <<pub, commits>>
               /\ run'.evidence = Append(run.evidence, e)
  <2> DEFINE input == [action |-> Store!PhaseRecordAction[run.phase], kind |-> "validation",
                       validation |-> Validation, candidate |-> plan.candidate,
                       paths |-> plan.paths, target |-> plan.targetMajor]
             e == [kind |-> "validation", phase |-> run.phase,
                   validation |-> input.validation, candidate |-> input.candidate,
                   paths |-> input.paths, target |-> input.target]
             next == Store!ActionNextPhase[input.action]
             status == Store!StatusAfter(next)
             offered == Store!ActionsFor(status, next)
             log == Append(run.evidence, e)
  <2>1. plan \in Store!Plan
    BY <1>1 DEF Store!Plans, Store!Run
  <2>2. e \in Store!Evidence /\ e.kind = "validation"
    BY <1>1, <2>1 DEF Store!Evidence, Store!Run, Store!Plan
  <2>3. Store!WithEvidence(run, input) = log
    BY DEF Store!WithEvidence
  <2>4. run' = [run EXCEPT !.evidence = log, !.phase = next, !.status = status, !.allowedActions = offered]
    BY <1>1, <1>5, <2>3, RunSaved DEF RecordValidation, Store!RecordProgress, run
  <2> HIDE DEF e, next, status, offered, log
  <2>5. run'.evidence = log
    BY <1>1, <2>4 DEF Store!Run
  <2>6. UNCHANGED <<pub, commits>>
    BY <1>5 DEF RecordValidation, observed
  <2> QED
    BY <2>2, <2>5, <2>6 DEF log
<1>6. CASE Abandon
  <2>1. run' = [run EXCEPT !.status = "abandoned", !.allowedActions = {}]
    BY <1>1, <1>6, RunSaved DEF Abandon, Store!Abandon, run
  <2> QED
    BY <1>1, <2>1 DEF Store!Run
<1> QED
  BY <1>2, <1>3, <1>4, <1>5, <1>6, RunsKept DEF Next, PubNext, Others

(* A commit whose receipt is not recorded yet is one more than there are   *)
(* receipts, and it is the last.                                           *)
Answered ==
  /\ ReceiptsHaveCommits
  /\ pub.pc = "receipt" =>
       /\ Cardinality(Receipts) < Len(commits)
       /\ commits[Len(commits)].candidate = pub.candidate

(* The publisher reaches its receipt through a commit only. *)
LEMMA ReceiptFollowsCommit ==
  ASSUME [Next]_vars, ~Commit, pub'.pc = "receipt", PubTyped
  PROVE  UNCHANGED pub /\ ~RecordReceipt
<1>1. IdlePub.pc = "idle"
  BY DEF IdlePub
<1>2. ~RecordReceipt
  BY <1>1 DEF RecordReceipt
<1>3. ASSUME PubNext
      PROVE  FALSE
  BY <1>1, <1>3 DEF PubNext, ComputeCandidate, Authorize, Stage, CommitFails, RecordReceipt, CrashPub, PubTyped
<1> QED
  BY <1>2, <1>3, PubKept DEF Next

LEMMA AnsweredInit == Init => Answered
<1> SUFFICES ASSUME Init PROVE Answered
  OBVIOUS
<1>1. run = AtCustomTheme /\ commits = << >> /\ pub.pc = "idle"
  BY DEF Init, run, Fresh, Rest, IdlePub
<1> DEFINE created == Store!NewRun(Major, "per-fix", Scope)
           offered == Store!ActionsFor("active", "custom_theme")
<1>2. created.evidence = << >>
  BY DEF Store!NewRun
<1>3. AtCustomTheme = [created EXCEPT !.phase = "custom_theme", !.allowedActions = offered]
  BY DEF AtCustomTheme
<1> HIDE DEF created, offered
<1>4. run.evidence = << >>
  BY <1>1, <1>2, <1>3
<1>5. Receipts = {}
  BY <1>4 DEF Receipts
<1> QED
  BY <1>1, <1>5, FS_EmptySet DEF Answered, ReceiptsHaveCommits

LEMMA AnsweredNext == Typed /\ Answered /\ [Next]_vars => Answered'
<1> SUFFICES ASSUME Typed, Answered, [Next]_vars PROVE Answered'
  OBVIOUS
<1>1. /\ run \in Store!Run /\ PubTyped /\ ObservationTyped
      /\ run.evidence \in Seq(Store!Evidence) /\ Len(commits) \in Nat
  BY StoreMeans DEF Typed, Store!Run, ObservationTyped
<1>2. Receipts = ReceiptsOf(run.evidence) /\ Receipts' = ReceiptsOf(run'.evidence)
  BY DEF Receipts, ReceiptsOf
<1>3. CASE Commit
  <2>1. commits' = Append(commits, Committed) /\ run'.evidence = run.evidence /\ pub' = [pub EXCEPT !.pc = "receipt"]
    BY <1>3 DEF Commit, Committed, run
  <2>2. /\ Len(commits') = Len(commits) + 1
        /\ commits'[Len(commits')] = Committed
        /\ \A j \in 1..Len(commits) : commits'[j] = commits[j]
    BY <1>1, <2>1 DEF ObservationTyped
  <2>3. pub'.candidate = pub.candidate /\ Committed.candidate = pub.candidate
    BY <1>1, <2>1 DEF PubTyped, Committed
  <2>4. Cardinality(Receipts) \in Nat
    BY <1>1, <1>2, ReceiptsAreFinite
  <2>5. Receipts' = Receipts
    BY <1>2, <2>1
  <2>6. Cardinality(Receipts') < Len(commits')
    BY <1>1, <2>2, <2>4, <2>5 DEF Answered, ReceiptsHaveCommits
  <2>7. \A i \in Receipts' : \E j \in 1..Len(commits') :
          commits'[j].candidate = run'.evidence[i].candidate
    BY <1>1, <2>1, <2>2, <2>5 DEF Answered, ReceiptsHaveCommits
  <2> QED
    BY <1>1, <2>2, <2>3, <2>4, <2>5, <2>6, <2>7 DEF Answered, ReceiptsHaveCommits
<1>4. CASE ~Commit
  <2>1. UNCHANGED commits
    BY <1>4, MostKeepCommits
  <2>2. CASE run'.evidence = run.evidence
    BY <1>1, <1>2, <1>4, <2>1, <2>2, ReceiptFollowsCommit DEF Answered, ReceiptsHaveCommits
  <2>3. ASSUME NEW e \in Store!Evidence, e.kind = "validation", run'.evidence = Append(run.evidence, e)
        PROVE  Answered'
    <3> DEFINE log == run.evidence
    <3>1. log \in Seq(Store!Evidence) /\ run'.evidence = Append(log, e)
      BY <1>1, <2>3
    <3> HIDE DEF log
    <3>2. ReceiptsOf(Append(log, e)) = ReceiptsOf(log) /\ \A i \in ReceiptsOf(log) : Append(log, e)[i] = log[i]
      BY <2>3, <3>1, NotesAreNoReceipts
    <3>3. Receipts' = Receipts /\ \A i \in Receipts : run'.evidence[i] = run.evidence[i]
      BY <1>2, <3>1, <3>2 DEF log
    <3> QED
      BY <1>1, <1>4, <2>1, <3>3, ReceiptFollowsCommit DEF Answered, ReceiptsHaveCommits
  <2>4. ASSUME NEW e \in Store!Evidence, e.kind = "checkpoint_commit", e.candidate = pub.candidate,
               run'.evidence = Append(run.evidence, e), RecordReceipt
        PROVE  Answered'
    <3> DEFINE log == run.evidence
    <3>1. log \in Seq(Store!Evidence) /\ run'.evidence = Append(log, e)
      BY <1>1, <2>4
    <3> HIDE DEF log
    <3>2. /\ Cardinality(ReceiptsOf(log)) \in Nat
          /\ Cardinality(ReceiptsOf(Append(log, e))) = Cardinality(ReceiptsOf(log)) + 1
          /\ \A i \in ReceiptsOf(Append(log, e)) :
               (i \in ReceiptsOf(log) /\ Append(log, e)[i] = log[i]) \/ Append(log, e)[i] = e
      BY <2>4, <3>1, ReceiptIsAppended, ReceiptsAreFinite
    <3>3. /\ Cardinality(Receipts) \in Nat
          /\ Cardinality(Receipts') = Cardinality(Receipts) + 1
          /\ \A i \in Receipts' : (i \in Receipts /\ run'.evidence[i] = run.evidence[i]) \/ run'.evidence[i] = e
      BY <1>2, <3>1, <3>2 DEF log
    <3>4. Cardinality(Receipts) < Len(commits) /\ commits[Len(commits)].candidate = e.candidate
      BY <2>4 DEF Answered, RecordReceipt
    <3>5. Len(commits) \in 1..Len(commits) /\ Cardinality(Receipts') <= Len(commits)
      BY <1>1, <3>3, <3>4
    <3>6. pub'.pc # "receipt"
      BY <2>4 DEF RecordReceipt, IdlePub
    <3> QED
      BY <2>1, <3>3, <3>4, <3>5, <3>6 DEF Answered, ReceiptsHaveCommits
  <2> QED
    BY <2>2, <2>3, <2>4, EvidenceGrows
<1> QED
  BY <1>3, <1>4

LEMMA AlwaysAnswered == Spec => []Answered
BY AnsweredInit, AnsweredNext, AlwaysTyped, PTL DEF Spec

(* Each receipt of the run answers for a commit of its own, even when the  *)
(* publisher crashes between the two.                                      *)
THEOREM ReceiptsAnswerForCommits == Spec => []ReceiptsHaveCommits
<1>1. Answered => ReceiptsHaveCommits
  BY DEF Answered
<1> QED
  BY <1>1, AlwaysAnswered, PTL

(***************************************************************************)
(* One executor: what it does to the plan of the run                       *)
(***************************************************************************)

(* There is at most one executor. *)
OneExecutor == \A e, f \in Executors : e = f

(* Two plans agree on the backup and on the statuses of their steps. *)
Alike(plan, other) ==
  /\ plan # Nil /\ other # Nil
  /\ plan.backup = other.backup
  /\ \A s \in Store!StepNames : plan.steps[s].status = other.steps[s].status

(* The plan with another status for one of its steps. *)
Moved(plan, other, s, status) ==
  /\ plan # Nil /\ other # Nil
  /\ other.backup = plan.backup
  /\ \A t \in Store!StepNames :
       other.steps[t].status = IF t = s THEN status ELSE plan.steps[t].status

LEMMA RecordingMoves ==
  ASSUME NEW plan \in Store!Plan, NEW s \in Store!StepNames, NEW status \in Store!StepStatuses,
         NEW evidence \in Store!StepEvidence \cup {Nil}
  PROVE  Moved(plan, Store!StepRecorded(plan, s, status, evidence), s, status)
<1> DEFINE recorded == Store!StepRecorded(plan, s, status, evidence)
<1>1. recorded \in Store!Plan
  BY DEF Store!StepRecorded, Store!Plan, Store!StepState
<1>2. /\ recorded.backup = plan.backup
      /\ \A t \in Store!StepNames :
           recorded.steps[t].status = IF t = s THEN status ELSE plan.steps[t].status
  BY DEF Store!StepRecorded, Store!Plan, Store!StepState
<1> QED
  BY <1>1, <1>2, NilIsNoRecord DEF Moved

LEMMA StartMoves ==
  ASSUME StoreSound, NEW e \in Executors, NEW s \in Store!StepNames, StartStep(e, s)
  PROVE  /\ Moved(run.plan, run'.plan, s, "running")
         /\ run.plan.steps[s].status \in {"pending", "running"}
<1>1. Store!RecordCheckpointStep(RunId, s, "running", Nil)
  BY DEF StartStep
<1>2. /\ Store!CanRecordStep(run.plan, s, "running") /\ run.plan \in Store!Plan
      /\ run'.plan = Store!StepRecorded(run.plan, s, "running", Nil)
  BY <1>1, StepIsRecorded
<1> QED
  BY <1>2, RecordingMoves DEF Store!CanRecordStep, Store!StepStatuses

LEMMA ReportMoves ==
  ASSUME StoreSound, ExecTyped, NEW e \in Executors, ReportStep(e)
  PROVE  \/ run' = run /\ exec' = [exec EXCEPT ![e] = IdleExec]
         \/ Moved(run.plan, run'.plan, exec[e].step, StatusOf(exec[e].outcome))
<1> DEFINE status == StatusOf(exec[e].outcome)
           evidence == [paths |-> exec[e].plan.paths, candidate |-> exec[e].candidate]
<1>1. \/ Store!RecordCheckpointStep(RunId, exec[e].step, status, evidence)
      \/ UNCHANGED runs /\ exec' = [exec EXCEPT ![e] = IdleExec]
  BY DEF ReportStep
<1>2. exec[e].step \in Store!StepNames /\ exec[e].plan \in Store!Plan /\ exec[e].candidate \in Diffs \cup {Nil}
  BY StepUnderWay DEF ReportStep, InStep, ExecTyped, Calls
<1>3. evidence \in Store!StepEvidence
  BY <1>2 DEF Store!StepEvidence, Store!Plan
<1>4. status \in Store!StepStatuses
  BY DEF StatusOf, Store!StepStatuses
<1> HIDE DEF status, evidence
<1>5. CASE Store!RecordCheckpointStep(RunId, exec[e].step, status, evidence)
  <2>1. /\ run.plan \in Store!Plan
        /\ run'.plan = Store!StepRecorded(run.plan, exec[e].step, status, evidence)
    BY <1>5, StepIsRecorded
  <2> QED
    BY <1>2, <1>3, <1>4, <2>1, RecordingMoves DEF status
<1> QED
  BY <1>1, <1>5, RunKept

LEMMA BindMoves ==
  ASSUME StoreSound, ExecTyped, NEW e \in Executors, BindBackup(e)
  PROVE  \/ run' = run /\ exec' = [exec EXCEPT ![e] = IdleExec]
         \/ /\ run.plan # Nil /\ run'.plan # Nil
            /\ run.plan.backup \in {Nil, exec[e].backup} /\ run'.plan.backup = exec[e].backup
            /\ run'.plan.steps = run.plan.steps
            /\ exec' = [exec EXCEPT ![e] = [exec[e] EXCEPT !.pc = "report"]]
<1>1. exec[e].backup \in Backups
  BY DEF ExecTyped, CallTyped, Calls, BindBackup
<1>2. CASE UNCHANGED runs /\ exec' = [exec EXCEPT ![e] = IdleExec]
  BY <1>2, RunKept
<1>3. CASE /\ Store!BindCheckpointBackup(RunId, exec[e].backup)
           /\ exec' = [exec EXCEPT ![e] = [exec[e] EXCEPT !.pc = "report"]]
  <2>1. /\ Store!CanBind(run.plan, exec[e].backup) /\ run.plan \in Store!Plan
        /\ run'.plan = Store!Bound(run.plan, exec[e].backup)
    BY <1>3, BackupIsBound
  <2>2. Store!Bound(run.plan, exec[e].backup) \in Store!Plan
    BY <1>1, <2>1 DEF Store!Bound, Store!Plan
  <2>3. run'.plan.backup = exec[e].backup /\ run'.plan.steps = run.plan.steps
    BY <2>1 DEF Store!Bound, Store!Plan
  <2> QED
    BY <1>3, <2>1, <2>2, <2>3, NilIsNoRecord DEF Store!CanBind
<1> QED
  BY <1>2, <1>3, BindBecomes

LEMMA ResumeMoves ==
  ASSUME StoreSound, NEW e \in Executors, Resume(e)
  PROVE  \/ run' = run /\ exec' = [exec EXCEPT ![e] = IdleExec]
         \/ /\ run.plan # Nil /\ run'.plan # Nil /\ run'.plan \in Store!Plan
            /\ run'.plan.backup = run.plan.backup
            /\ \A t \in Store!StepNames :
                 run'.plan.steps[t].status =
                   IF run.plan.steps[t].status = "unavailable" THEN "pending" ELSE run.plan.steps[t].status
            /\ exec' = [exec EXCEPT ![e] = Reading(run'.plan)]
<1>1. CASE UNCHANGED runs /\ exec' = [exec EXCEPT ![e] = IdleExec]
  BY <1>1, RunKept
<1>2. CASE Store!ResumeUnavailableCheckpoint(RunId) /\ exec' = [exec EXCEPT ![e] = Reading(run'.plan)]
  <2>1. /\ run.plan \in Store!Plan /\ run'.plan \in Store!Plan
        /\ run'.plan = Store!Resumed(run.plan)
    BY <1>2, PlanIsResumed
  <2>2. /\ Store!Resumed(run.plan).backup = run.plan.backup
        /\ \A t \in Store!StepNames : Store!Resumed(run.plan).steps[t] =
             IF run.plan.steps[t].status = "unavailable"
             THEN [status |-> "pending", evidence |-> Nil] ELSE run.plan.steps[t]
    BY <2>1 DEF Store!Resumed, Store!Plan
  <2> QED
    BY <1>2, <2>1, <2>2, NilIsNoRecord
<1> QED
  BY <1>1, <1>2 DEF Resume, run

LEMMA CompleteMoves ==
  ASSUME StoreSound, ExecTyped, NEW e \in Executors, Complete(e)
  PROVE  run' = run \/ Alike(run.plan, run'.plan)
<1>1. exec[e].candidate \in Diffs
  BY DEF ExecTyped, CallTyped, Calls, Complete
<1>2. CASE Store!CompleteCheckpointPlan(RunId, exec[e].candidate)
  <2>1. run.plan \in Store!Plan /\ run'.plan = Store!CompletedWith(run.plan, exec[e].candidate)
    BY <1>2, PlanIsCompleted
  <2>2. run'.plan \in Store!Plan /\ run'.plan.backup = run.plan.backup /\ run'.plan.steps = run.plan.steps
    BY <1>1, <2>1 DEF Store!CompletedWith, Store!Plan
  <2> QED
    BY <2>1, <2>2, NilIsNoRecord DEF Alike
<1> QED
  BY <1>2, RunKept DEF Complete

(* The record of the only executor is all of exec. *)
LEMMA OnlyCall ==
  ASSUME OneExecutor, ExecTyped, NEW e \in Executors, NEW call, exec' = [exec EXCEPT ![e] = call]
  PROVE  \A f \in Executors : exec'[f] = call
BY DEF OneExecutor, ExecTyped

(* What a call has read of the plan is what the file still says of it: the *)
(* step under way is running there, the others are as they were.           *)
InPlaceOf(call, plan) ==
  /\ call.pc \in InCall =>
       /\ plan # Nil
       /\ \A s \in Store!StepNames : (call.pc \in InStep /\ s = call.step) \/
            call.plan.steps[s].status = plan.steps[s].status
  /\ call.pc \in InStep => plan.steps[call.step].status = "running"

InPlace == \A e \in Executors : InPlaceOf(exec[e], run.plan)

LEMMA IdleInPlace == \A plan : InPlaceOf(IdleExec, plan)
BY DEF InPlaceOf, IdleExec, InCall, InStep

LEMMA InPlaceNext == OneExecutor /\ Typed /\ InPlace /\ [Next]_vars => InPlace'
<1> SUFFICES ASSUME OneExecutor, Typed, InPlace, [Next]_vars PROVE InPlace'
  OBVIOUS
<1>1. StoreSound /\ StoreSound' /\ ExecTyped
  BY StoreNext DEF Typed
<1>2. ASSUME NEW e \in Executors, NEW call, InPlaceOf(call, run'.plan), exec' = [exec EXCEPT ![e] = call]
      PROVE  InPlace'
  BY <1>1, <1>2, OnlyCall DEF InPlace
<1>3. ASSUME NEW e \in Executors, exec' = [exec EXCEPT ![e] = IdleExec]
      PROVE  InPlace'
  BY <1>2, <1>3, IdleInPlace
<1>4. ASSUME NEW e \in Executors, run'.plan \in Store!Plan, exec' = [exec EXCEPT ![e] = Reading(run'.plan)]
      PROVE  InPlace'
  <2>1. run'.plan # Nil /\ Reading(run'.plan).pc = "step" /\ Reading(run'.plan).plan = run'.plan
    BY <1>4, NilIsNoRecord DEF Reading, IdleExec
  <2>2. InPlaceOf(Reading(run'.plan), run'.plan)
    BY <2>1 DEF InPlaceOf, InStep
  <2> QED
    BY <1>2, <1>4, <2>2
<1>5. ASSUME NEW e \in Executors, NEW paths \in SUBSET Paths, NEW resume \in BOOLEAN,
             Begin(e, PlanInput(run.phase, paths), resume)
      PROVE  InPlace'
  <2>1. InPlaceOf([IdleExec EXCEPT !.pc = "resume"], run'.plan)
    BY DEF InPlaceOf, IdleExec, InCall, InStep
  <2> QED
    BY <1>1, <1>2, <1>3, <1>4, <1>5, <2>1, BeginReads
<1>6. ASSUME NEW e \in Executors, NEW call, exec' = [exec EXCEPT ![e] = call], run' = run,
             call.plan = exec[e].plan, call.step = exec[e].step, exec[e].pc \in InStep, call.pc \in InStep
      PROVE  InPlace'
  <2>1. InPlaceOf(exec[e], run.plan)
    BY DEF InPlace
  <2>2. InPlaceOf(call, run.plan)
    BY <1>6, <2>1 DEF InPlaceOf, InCall
  <2> QED
    BY <1>2, <1>6, <2>2
<1>7. ASSUME NEW e \in Executors, CallNext(e)
      PROVE  InPlace'
  <2> DEFINE call == exec[e]
  <2>1. call \in Calls /\ CallTyped(call) /\ InPlaceOf(call, run.plan)
    BY <1>1 DEF ExecTyped, InPlace
  <2>2. CASE Resume(e)
    BY <1>1, <1>3, <1>4, <2>2, ResumeMoves
  <2>3. ASSUME NEW s \in Store!StepNames, StartStep(e, s)
        PROVE  InPlace'
    <3> DEFINE next == [call EXCEPT !.pc = "effect", !.step = s]
    <3>1. next.pc = "effect" /\ next.step = s /\ next.plan = call.plan /\ call.pc = "step"
      BY <2>1, <2>3 DEF Calls, StartStep
    <3>2. Moved(run.plan, run'.plan, s, "running")
      BY <1>1, <2>3, StartMoves
    <3>3. exec' = [exec EXCEPT ![e] = next]
      BY <1>1, <2>3, StartBecomes
    <3> HIDE DEF next
    <3>4. InPlaceOf(next, run'.plan)
      BY <2>1, <3>1, <3>2 DEF InPlaceOf, InCall, InStep, Moved
    <3> QED
      BY <1>2, <3>3, <3>4
  <2>4. ASSUME NEW s \in Store!StepNames, RefuseStep(e, s)
        PROVE  InPlace'
    BY <1>3, <2>4 DEF RefuseStep
  <2>5. ASSUME NEW backup \in Backups, NEW outcome \in Outcomes, CreateBackup(e, backup, outcome)
        PROVE  InPlace'
    <3> DEFINE next == AfterBackup(call, backup, outcome)
    <3>1. next.pc \in InStep /\ next.step = call.step /\ next.plan = call.plan
      BY <2>1 DEF Calls, AfterBackup, InStep
    <3>2. exec' = [exec EXCEPT ![e] = next]
      BY <1>1, <2>5, BackupBecomes
    <3>3. call.pc \in InStep /\ run' = run
      BY <2>5, RunKept DEF CreateBackup, InStep
    <3> QED
      BY <1>6, <3>1, <3>2, <3>3
  <2>6. CASE BindBackup(e)
    <3>1. CASE exec' = [exec EXCEPT ![e] = IdleExec]
      BY <1>3, <3>1
    <3>2. CASE exec' # [exec EXCEPT ![e] = IdleExec]
      <4> DEFINE next == [call EXCEPT !.pc = "report"]
      <4>1. /\ run'.plan # Nil /\ run'.plan.steps = run.plan.steps
            /\ exec' = [exec EXCEPT ![e] = next]
        BY <1>1, <2>6, <3>2, BindMoves
      <4>2. next.pc = "report" /\ next.step = call.step /\ next.plan = call.plan /\ call.pc = "bind"
        BY <2>1, <2>6 DEF Calls, BindBackup
      <4> HIDE DEF next
      <4>3. InPlaceOf(next, run'.plan)
        BY <2>1, <4>1, <4>2 DEF InPlaceOf, InCall, InStep
      <4> QED
        BY <1>2, <4>1, <4>3
    <3> QED
      BY <3>1, <3>2
  <2>7. ASSUME NEW outcome \in Outcomes, RunCommand(e, outcome)
        PROVE  InPlace'
    <3> DEFINE next == [call EXCEPT !.pc = "report", !.outcome = outcome]
    <3>1. next.pc \in InStep /\ next.step = call.step /\ next.plan = call.plan
      BY <2>1 DEF Calls, InStep
    <3>2. exec' = [exec EXCEPT ![e] = next]
      BY <1>1, <2>7, CommandBecomes
    <3>3. call.pc \in InStep /\ run' = run
      BY <2>7, RunKept DEF RunCommand, InStep
    <3> QED
      BY <1>6, <3>1, <3>2, <3>3
  <2>8. CASE BeginValidation(e)
    <3>1. call.pc \in InStep /\ run' = run
      BY <2>8, RunKept DEF BeginValidation, InStep
    <3>2. ASSUME NEW before, exec' = [exec EXCEPT ![e] = [call EXCEPT !.pc = "validating", !.candidate = before]]
          PROVE  InPlace'
      <4> DEFINE next == [call EXCEPT !.pc = "validating", !.candidate = before]
      <4>1. next.pc \in InStep /\ next.step = call.step /\ next.plan = call.plan
        BY <2>1 DEF Calls, InStep
      <4> QED
        BY <1>6, <3>1, <3>2, <4>1
    <3>3. ASSUME exec' = [exec EXCEPT ![e] = [call EXCEPT !.pc = "report", !.outcome = "failed"]]
          PROVE  InPlace'
      <4> DEFINE next == [call EXCEPT !.pc = "report", !.outcome = "failed"]
      <4>1. next.pc \in InStep /\ next.step = call.step /\ next.plan = call.plan
        BY <2>1 DEF Calls, InStep
      <4> QED
        BY <1>6, <3>1, <3>3, <4>1
    <3> QED
      BY <1>1, <2>8, <3>2, <3>3, ValidationBegins
  <2>9. ASSUME NEW outcome \in Outcomes, EndValidation(e, outcome)
        PROVE  InPlace'
    <3>1. call.pc \in InStep /\ run' = run
      BY <2>9, RunKept DEF EndValidation, InStep
    <3>2. ASSUME exec' = [exec EXCEPT ![e] = [call EXCEPT !.pc = "report", !.outcome = "ok"]]
          PROVE  InPlace'
      <4> DEFINE next == [call EXCEPT !.pc = "report", !.outcome = "ok"]
      <4>1. next.pc \in InStep /\ next.step = call.step /\ next.plan = call.plan
        BY <2>1 DEF Calls, InStep
      <4> QED
        BY <1>6, <3>1, <3>2, <4>1
    <3>3. ASSUME NEW end,
                 exec' = [exec EXCEPT ![e] = [call EXCEPT !.pc = "report", !.candidate = Nil, !.outcome = end]]
          PROVE  InPlace'
      <4> DEFINE next == [call EXCEPT !.pc = "report", !.candidate = Nil, !.outcome = end]
      <4>1. next.pc \in InStep /\ next.step = call.step /\ next.plan = call.plan
        BY <2>1 DEF Calls, InStep
      <4>2. exec' = [exec EXCEPT ![e] = next]
        BY <3>3
      <4> HIDE DEF next
      <4> QED
        BY <1>6, <3>1, <4>1, <4>2
    <3>4. \/ exec' = [exec EXCEPT ![e] = [call EXCEPT !.pc = "report", !.outcome = "ok"]]
          \/ \E end : exec' = [exec EXCEPT ![e] = [call EXCEPT !.pc = "report", !.candidate = Nil, !.outcome = end]]
      BY <1>1, <2>9, ValidationEnds
    <3> QED
      BY <3>2, <3>3, <3>4
  <2>10. CASE ReportStep(e)
    <3>1. CASE exec' = [exec EXCEPT ![e] = IdleExec]
      BY <1>3, <3>1
    <3>2. CASE exec' # [exec EXCEPT ![e] = IdleExec]
      <4> DEFINE next == Continued(call)
                 read == [call.plan EXCEPT !.steps[call.step].status = "succeeded"]
      <4>1. /\ StatusOf(call.outcome) = "succeeded" /\ exec' = [exec EXCEPT ![e] = next]
            /\ next.pc = "step" /\ next.plan = read
        BY <1>1, <2>10, <3>2, ReportBecomes
      <4>2. Moved(run.plan, run'.plan, call.step, "succeeded")
        BY <1>1, <2>10, <3>2, <4>1, ReportMoves
      <4>3. call.plan \in Store!Plan /\ call.step \in Store!StepNames /\ call.pc = "report"
        BY <1>1, <2>10, StepUnderWay DEF ReportStep, InStep
      <4>4. \A t \in Store!StepNames :
              read.steps[t].status = IF t = call.step THEN "succeeded" ELSE call.plan.steps[t].status
        BY <4>3, StepsAreTyped DEF Store!StepStatuses
      <4> HIDE DEF next, read
      <4>5. InPlaceOf(next, run'.plan)
        BY <2>1, <4>1, <4>2, <4>3, <4>4 DEF InPlaceOf, InCall, InStep, Moved
      <4> QED
        BY <1>2, <4>1, <4>5
    <3> QED
      BY <3>1, <3>2
  <2>11. CASE Close(e)
    <3>1. CASE exec' = [exec EXCEPT ![e] = IdleExec]
      BY <1>3, <3>1
    <3>2. CASE exec' # [exec EXCEPT ![e] = IdleExec]
      <4>1. PICK candidate : exec' = [exec EXCEPT ![e] = [call EXCEPT !.pc = "complete", !.candidate = candidate]]
        BY <1>1, <2>11, <3>2, CloseBecomes
      <4> DEFINE next == [call EXCEPT !.pc = "complete", !.candidate = candidate]
      <4>2. next.pc = "complete" /\ next.plan = call.plan /\ call.pc = "step" /\ run' = run
        BY <2>1, <2>11, RunKept DEF Calls, Close
      <4>3. exec' = [exec EXCEPT ![e] = next]
        BY <4>1
      <4> HIDE DEF next
      <4>4. InPlaceOf(next, run'.plan)
        BY <2>1, <4>2 DEF InPlaceOf, InCall, InStep
      <4> QED
        BY <1>2, <4>3, <4>4
    <3> QED
      BY <3>1, <3>2
  <2>12. CASE Complete(e)
    BY <1>3, <2>12 DEF Complete
  <2> QED
    BY <1>7, <2>2, <2>3, <2>4, <2>5, <2>6, <2>7, <2>8, <2>9, <2>10, <2>11, <2>12 DEF CallNext
<1>8. ASSUME NEW e \in Executors, CrashExec(e)
      PROVE  InPlace'
  BY <1>3, <1>8 DEF CrashExec
<1>9. ASSUME PubNext \/ Others \/ UNCHANGED vars
      PROVE  InPlace'
  BY <1>1, <1>9, ExecKept, OthersKeepPlans DEF InPlace, PlanKept
<1> QED
  BY <1>5, <1>7, <1>8, <1>9 DEF Next, ExecNext

LEMMA StoreMeansRuns == StoreSound' => runs' = [id \in {RunId} |-> run']
<1>1. StoreSound' => StoreTyped'
  BY SoundIsTyped, PTL
<1> QED
  BY <1>1 DEF StoreTyped

(* A call that begins finds the plan and its effects, or starts afresh. *)
LEMMA BeginsAfresh ==
  ASSUME StoreSound, StoreSound', NEW e \in Executors, NEW paths \in SUBSET Paths, NEW resume \in BOOLEAN,
         Begin(e, PlanInput(run.phase, paths), resume)
  PROVE  \/ run' = run /\ UNCHANGED <<applied, pristine>>
         \/ /\ \E input \in Store!PlanInputs : Makes(input)
            /\ run'.plan # Nil /\ applied' = NoEffects /\ pristine' = {}
<1>1. CASE runs' = runs
  BY <1>1, RunKept DEF Begin
<1>2. CASE runs' # runs
  <2>1. run' # run
    BY <1>2, StoreMeans, StoreMeansRuns
  <2>2. applied' = NoEffects /\ pristine' = {}
    BY <1>2 DEF Begin
  <2> QED
    BY <2>1, <2>2, BeginReads, NilIsNoRecord
<1> QED
  BY <1>1, <1>2

(* A step that changes the site is not under way before the backup is done. *)
LEMMA BackupIsFirst ==
  ASSUME StoreSound, run.plan # Nil, NEW s \in SiteSteps, run.plan.steps[s].status = "running"
  PROVE  run.plan.steps["backup"].status = "succeeded"
<1>1. Kept!Sound(run)
  BY DEF StoreSound, run, Kept!FilesSound, Kept!Exists
<1>2. Kept!Orderly(run.plan)
  BY <1>1 DEF Kept!Sound, Kept!Plans
<1>3. s \in Kept!StepNames /\ "backup" \in Kept!StepNames /\ Kept!StepRank["backup"] < Kept!StepRank[s]
  BY DEF SiteSteps, Mutating, Kept!StepNames, Kept!StepRank
<1>4. run.plan.steps["backup"].status \in {"absent", "succeeded"}
  BY <1>2, <1>3 DEF Kept!Orderly
<1> QED
  BY <1>4, StoreMeans

(***************************************************************************)
(* Backups and site changes                                                *)
(***************************************************************************)

(* What the plan says of its backup, about the effects it has had.         *)
BackedUpBy(plan, effects, kept) ==
  /\ plan = Nil => \A s \in SiteSteps : effects[s] = 0
  /\ plan # Nil =>
       /\ plan.backup \in kept \cup {Nil}
       /\ plan.steps["backup"].status = "succeeded" => plan.backup # Nil
       /\ plan.steps["backup"].status # "succeeded" => \A s \in SiteSteps : effects[s] = 0

(* A backup about to be bound is among those made before any change. *)
CallBackedUp(call, plan, kept) ==
  /\ call.pc = "bind" => call.backup \in kept
  /\ call.pc = "report" /\ call.step = "backup" /\ call.outcome = "ok" => plan.backup # Nil

(* Before the backup step has succeeded no command has changed the site,   *)
(* and once it has the plan is bound to a backup from before.              *)
BackedUp ==
  /\ BackedUpBy(run.plan, applied, pristine)
  /\ \A e \in Executors : CallBackedUp(exec[e], run.plan, pristine)

LEMMA IdleBackedUp == \A plan, kept : CallBackedUp(IdleExec, plan, kept)
BY DEF CallBackedUp, IdleExec

LEMMA BackedUpNext == OneExecutor /\ Typed /\ InPlace /\ BackedUp /\ [Next]_vars => BackedUp'
<1> SUFFICES ASSUME OneExecutor, Typed, InPlace, BackedUp, [Next]_vars PROVE BackedUp'
  OBVIOUS
<1>1. StoreSound /\ StoreSound' /\ ExecTyped /\ ObservationTyped /\ BackedUpBy(run.plan, applied, pristine)
  BY StoreNext DEF Typed, BackedUp
<1>2. ASSUME NEW e \in Executors, NEW call, CallBackedUp(call, run'.plan, pristine'),
             exec' = [exec EXCEPT ![e] = call], BackedUpBy(run'.plan, applied', pristine')
      PROVE  BackedUp'
  BY <1>1, <1>2, OnlyCall DEF BackedUp
<1>3. ASSUME NEW e \in Executors, exec' = [exec EXCEPT ![e] = IdleExec],
             BackedUpBy(run'.plan, applied', pristine')
      PROVE  BackedUp'
  BY <1>2, <1>3, IdleBackedUp
<1>4. \A plan, kept : CallBackedUp(Reading(plan), plan, kept)
  BY DEF CallBackedUp, Reading, IdleExec
<1>5. ASSUME UNCHANGED <<applied, pristine>>, run' = run
      PROVE  BackedUpBy(run'.plan, applied', pristine')
  BY <1>1, <1>5
<1>6. SiteSteps \subseteq Store!StepNames
  BY DEF SiteSteps, Mutating, Store!StepNames
<1>7. ASSUME NEW s \in Store!StepNames, NEW status, Moved(run.plan, run'.plan, s, status),
             UNCHANGED <<applied, pristine>>,
             s = "backup" => /\ status = "succeeded" => run.plan.backup # Nil
                             /\ run.plan.steps["backup"].status # "succeeded"
      PROVE  BackedUpBy(run'.plan, applied', pristine')
  <2>1. "backup" \in Store!StepNames
    BY DEF Store!StepNames
  <2> QED
    BY <1>1, <1>7, <2>1 DEF BackedUpBy, Moved
<1>8. ASSUME NEW e \in Executors, NEW paths \in SUBSET Paths, NEW resume \in BOOLEAN,
             Begin(e, PlanInput(run.phase, paths), resume)
      PROVE  BackedUp'
  <2>1. BackedUpBy(run'.plan, applied', pristine')
    <3>1. CASE run' = run /\ UNCHANGED <<applied, pristine>>
      BY <1>5, <3>1
    <3>2. ASSUME NEW input, Makes(input), run'.plan # Nil, applied' = NoEffects
          PROVE  BackedUpBy(run'.plan, applied', pristine')
      <4>1. /\ run'.plan.backup = Nil
            /\ run'.plan.steps["backup"].status \in {"pending", "absent"}
        BY <3>2 DEF Makes, Store!PlanFromInput, Store!StepNames
      <4> QED
        BY <1>6, <3>2, <4>1 DEF BackedUpBy, NoEffects
    <3> QED
      BY <1>1, <1>8, <3>1, <3>2, BeginsAfresh
  <2>2. CallBackedUp([IdleExec EXCEPT !.pc = "resume"], run'.plan, pristine')
    BY DEF CallBackedUp, IdleExec
  <2>3. \/ exec' = [exec EXCEPT ![e] = IdleExec]
        \/ exec' = [exec EXCEPT ![e] = [IdleExec EXCEPT !.pc = "resume"]]
        \/ exec' = [exec EXCEPT ![e] = Reading(run'.plan)]
    BY <1>1, <1>8, BeginReads
  <2>4. CallBackedUp(Reading(run'.plan), run'.plan, pristine')
    BY <1>4
  <2> QED
    BY <1>2, <1>3, <2>1, <2>2, <2>3, <2>4
<1>9. ASSUME NEW e \in Executors, CallNext(e)
      PROVE  BackedUp'
  <2> DEFINE call == exec[e]
  <2>1. /\ call \in Calls /\ CallTyped(call) /\ InPlaceOf(call, run.plan)
        /\ CallBackedUp(call, run.plan, pristine)
    BY <1>1 DEF ExecTyped, InPlace, BackedUp
  <2>2. CASE Resume(e)
    <3>1. UNCHANGED <<applied, pristine>>
      BY <2>2 DEF Resume, observed
    <3>2. CASE run' = run /\ exec' = [exec EXCEPT ![e] = IdleExec]
      BY <1>3, <1>5, <3>1, <3>2
    <3>3. CASE /\ run.plan # Nil /\ run'.plan # Nil
               /\ run'.plan.backup = run.plan.backup
               /\ \A t \in Store!StepNames :
                    run'.plan.steps[t].status =
                      IF run.plan.steps[t].status = "unavailable" THEN "pending" ELSE run.plan.steps[t].status
               /\ exec' = [exec EXCEPT ![e] = Reading(run'.plan)]
      <4>1. "backup" \in Store!StepNames
        BY DEF Store!StepNames
      <4>2. BackedUpBy(run'.plan, applied', pristine')
        BY <1>1, <3>1, <3>3, <4>1 DEF BackedUpBy
      <4> QED
        BY <1>2, <1>4, <3>3, <4>2
    <3> QED
      BY <1>1, <2>2, <3>2, <3>3, ResumeMoves
  <2>3. ASSUME NEW s \in Store!StepNames, StartStep(e, s)
        PROVE  BackedUp'
    <3> DEFINE next == [call EXCEPT !.pc = "effect", !.step = s]
    <3>1. next.pc = "effect"
      BY <2>1 DEF Calls
    <3>2. exec' = [exec EXCEPT ![e] = next] /\ UNCHANGED <<applied, pristine>>
      BY <1>1, <2>3, StartBecomes DEF StartStep, observed
    <3> HIDE DEF next
    <3>3. CallBackedUp(next, run'.plan, pristine')
      BY <3>1 DEF CallBackedUp
    <3>4. BackedUpBy(run'.plan, applied', pristine')
      BY <1>1, <1>7, <2>3, <3>2, StartMoves
    <3> QED
      BY <1>2, <3>2, <3>3, <3>4
  <2>4. ASSUME NEW s \in Store!StepNames, RefuseStep(e, s)
        PROVE  BackedUp'
    BY <1>3, <1>5, <2>4, RunKept DEF RefuseStep, observed
  <2>5. ASSUME NEW backup \in Backups, NEW outcome \in Outcomes, CreateBackup(e, backup, outcome)
        PROVE  BackedUp'
    <3> DEFINE next == AfterBackup(call, backup, outcome)
    <3>1. /\ next.pc = (IF outcome = "ok" THEN "bind" ELSE "report")
          /\ next.outcome = outcome /\ next.backup = backup
      BY <2>1 DEF Calls, AfterBackup
    <3>2. exec' = [exec EXCEPT ![e] = next]
      BY <1>1, <2>5, BackupBecomes
    <3> HIDE DEF next
    <3>3. run.plan # Nil /\ run.plan.steps["backup"].status = "running"
      BY <2>1, <2>5 DEF InPlaceOf, CreateBackup, InCall, InStep
    <3>4. \A s \in SiteSteps : applied[s] = 0
      BY <1>1, <3>3 DEF BackedUpBy
    <3>5. /\ pristine \subseteq pristine' /\ run' = run /\ UNCHANGED applied
          /\ outcome = "ok" => backup \in pristine'
      BY <2>5, <3>4, RunKept DEF CreateBackup
    <3>6. BackedUpBy(run'.plan, applied', pristine')
      BY <1>1, <3>5 DEF BackedUpBy
    <3>7. CallBackedUp(next, run'.plan, pristine')
      BY <3>1, <3>5 DEF CallBackedUp
    <3> QED
      BY <1>2, <3>2, <3>6, <3>7
  <2>6. CASE BindBackup(e)
    <3>1. UNCHANGED <<applied, pristine>>
      BY <2>6 DEF BindBackup, observed
    <3>2. CASE run' = run /\ exec' = [exec EXCEPT ![e] = IdleExec]
      BY <1>3, <1>5, <3>1, <3>2
    <3>3. CASE /\ run.plan # Nil /\ run'.plan # Nil
               /\ run'.plan.backup = call.backup
               /\ run'.plan.steps = run.plan.steps
               /\ exec' = [exec EXCEPT ![e] = [call EXCEPT !.pc = "report"]]
      <4>1. call.backup \in pristine /\ call.backup # Nil
        BY <2>1, <2>6 DEF CallBackedUp, CallTyped, BindBackup
      <4>2. BackedUpBy(run'.plan, applied', pristine')
        BY <1>1, <3>1, <3>3, <4>1 DEF BackedUpBy
      <4> DEFINE next == [call EXCEPT !.pc = "report"]
      <4>3. next.pc = "report"
        BY <2>1 DEF Calls
      <4> HIDE DEF next
      <4>4. CallBackedUp(next, run'.plan, pristine')
        BY <3>3, <4>1, <4>3 DEF CallBackedUp
      <4> QED
        BY <1>2, <3>3, <4>2, <4>4 DEF next
    <3> QED
      BY <1>1, <2>6, <3>2, <3>3, BindMoves
  <2>7. ASSUME NEW outcome \in Outcomes, RunCommand(e, outcome)
        PROVE  BackedUp'
    <3> DEFINE next == [call EXCEPT !.pc = "report", !.outcome = outcome]
    <3>1. next.pc = "report" /\ next.step = call.step /\ call.step # "backup"
      BY <2>1, <2>7 DEF Calls, RunCommand
    <3>2. exec' = [exec EXCEPT ![e] = next]
      BY <1>1, <2>7, CommandBecomes
    <3> HIDE DEF next
    <3>3. CallBackedUp(next, run'.plan, pristine')
      BY <3>1 DEF CallBackedUp
    <3>4. /\ run' = run /\ UNCHANGED pristine
          /\ applied' = applied \/ applied' = [applied EXCEPT ![call.step] = @ + 1]
      BY <2>7, RunKept DEF RunCommand
    <3>5. run.plan # Nil /\ run.plan.steps[call.step].status = "running"
      BY <2>1, <2>7 DEF InPlaceOf, RunCommand, InCall, InStep
    <3>6. CASE call.step \in SiteSteps
      <4>1. run.plan.steps["backup"].status = "succeeded"
        BY <1>1, <3>5, <3>6, BackupIsFirst
      <4> QED
        BY <1>1, <1>2, <3>2, <3>3, <3>4, <3>5, <4>1 DEF BackedUpBy
    <3>7. CASE call.step \notin SiteSteps
      <4>1. \A s \in SiteSteps : applied'[s] = applied[s]
        BY <1>1, <1>6, <3>4, <3>7 DEF ObservationTyped
      <4> QED
        BY <1>1, <1>2, <3>2, <3>3, <3>4, <3>5, <4>1 DEF BackedUpBy
    <3> QED
      BY <3>6, <3>7
  <2>8. CASE BeginValidation(e)
    <3>1. call.step = "validation" /\ run' = run /\ UNCHANGED <<applied, pristine>>
      BY <2>8, RunKept DEF BeginValidation, observed
    <3>2. BackedUpBy(run'.plan, applied', pristine')
      BY <1>5, <3>1
    <3>3. ASSUME NEW before, exec' = [exec EXCEPT ![e] = [call EXCEPT !.pc = "validating", !.candidate = before]]
          PROVE  BackedUp'
      <4> DEFINE next == [call EXCEPT !.pc = "validating", !.candidate = before]
      <4>1. next.pc = "validating"
        BY <2>1 DEF Calls
      <4> HIDE DEF next
      <4>2. CallBackedUp(next, run'.plan, pristine')
        BY <4>1 DEF CallBackedUp
      <4> QED
        BY <1>2, <3>2, <3>3, <4>2 DEF next
    <3>4. ASSUME exec' = [exec EXCEPT ![e] = [call EXCEPT !.pc = "report", !.outcome = "failed"]]
          PROVE  BackedUp'
      <4> DEFINE next == [call EXCEPT !.pc = "report", !.outcome = "failed"]
      <4>1. next.step = "validation" /\ next.pc = "report"
        BY <2>1, <3>1 DEF Calls
      <4> HIDE DEF next
      <4>2. CallBackedUp(next, run'.plan, pristine')
        BY <4>1 DEF CallBackedUp
      <4> QED
        BY <1>2, <3>2, <3>4, <4>2 DEF next
    <3> QED
      BY <1>1, <2>8, <3>3, <3>4, ValidationBegins
  <2>9. ASSUME NEW outcome \in Outcomes, EndValidation(e, outcome)
        PROVE  BackedUp'
    <3>1. call.step = "validation" /\ run' = run /\ UNCHANGED <<applied, pristine>>
      BY <2>1, <2>9, RunKept DEF EndValidation, CallTyped
    <3>2. BackedUpBy(run'.plan, applied', pristine')
      BY <1>5, <3>1
    <3>3. ASSUME exec' = [exec EXCEPT ![e] = [call EXCEPT !.pc = "report", !.outcome = "ok"]]
          PROVE  BackedUp'
      <4> DEFINE next == [call EXCEPT !.pc = "report", !.outcome = "ok"]
      <4>1. next.step = "validation" /\ next.pc = "report"
        BY <2>1, <3>1 DEF Calls
      <4> HIDE DEF next
      <4>2. CallBackedUp(next, run'.plan, pristine')
        BY <4>1 DEF CallBackedUp
      <4> QED
        BY <1>2, <3>2, <3>3, <4>2 DEF next
    <3>4. ASSUME NEW end,
                 exec' = [exec EXCEPT ![e] = [call EXCEPT !.pc = "report", !.candidate = Nil, !.outcome = end]]
          PROVE  BackedUp'
      <4> DEFINE next == [call EXCEPT !.pc = "report", !.candidate = Nil, !.outcome = end]
      <4>1. next.step = "validation" /\ next.pc = "report"
        BY <2>1, <3>1 DEF Calls
      <4>2. exec' = [exec EXCEPT ![e] = next]
        BY <3>4
      <4> HIDE DEF next
      <4>3. CallBackedUp(next, run'.plan, pristine')
        BY <4>1 DEF CallBackedUp
      <4> QED
        BY <1>2, <3>2, <4>2, <4>3
    <3>5. \/ exec' = [exec EXCEPT ![e] = [call EXCEPT !.pc = "report", !.outcome = "ok"]]
          \/ \E end : exec' = [exec EXCEPT ![e] = [call EXCEPT !.pc = "report", !.candidate = Nil, !.outcome = end]]
      BY <1>1, <2>9, ValidationEnds
    <3> QED
      BY <3>3, <3>4, <3>5
  <2>10. CASE ReportStep(e)
    <3>1. UNCHANGED <<applied, pristine>>
      BY <2>10 DEF ReportStep, observed
    <3>2. CASE run' = run /\ exec' = [exec EXCEPT ![e] = IdleExec]
      BY <1>3, <1>5, <3>1, <3>2
    <3>3. CASE Moved(run.plan, run'.plan, call.step, StatusOf(call.outcome))
      <4>1. /\ call.pc = "report" /\ call.step \in Store!StepNames
            /\ run.plan.steps[call.step].status = "running"
        BY <1>1, <2>1, <2>10, StepUnderWay DEF ReportStep, InPlaceOf, InCall, InStep
      <4>2. ASSUME call.step = "backup", StatusOf(call.outcome) = "succeeded"
            PROVE  run.plan.backup # Nil
        BY <2>1, <4>1, <4>2 DEF StatusOf, CallBackedUp
      <4>3. BackedUpBy(run'.plan, applied', pristine')
        BY <1>7, <3>1, <3>3, <4>1, <4>2
      <4>4. ASSUME exec' = [exec EXCEPT ![e] = Continued(call)], Continued(call).pc = "step"
            PROVE  BackedUp'
        <5>1. CallBackedUp(Continued(call), run'.plan, pristine')
          BY <4>4 DEF CallBackedUp
        <5> QED
          BY <1>2, <4>3, <4>4, <5>1
      <4>5. \/ exec' = [exec EXCEPT ![e] = Continued(call)] /\ Continued(call).pc = "step"
            \/ exec' = [exec EXCEPT ![e] = IdleExec]
        BY <1>1, <2>10, ReportBecomes
      <4> QED
        BY <1>3, <4>3, <4>4, <4>5
    <3> QED
      BY <1>1, <2>10, <3>2, <3>3, ReportMoves
  <2>11. CASE Close(e)
    <3>1. run' = run /\ UNCHANGED <<applied, pristine>>
      BY <2>11, RunKept DEF Close, observed
    <3>2. BackedUpBy(run'.plan, applied', pristine')
      BY <1>5, <3>1
    <3>3. CASE exec' = [exec EXCEPT ![e] = IdleExec]
      BY <1>3, <3>2, <3>3
    <3>4. CASE exec' # [exec EXCEPT ![e] = IdleExec]
      <4>1. PICK candidate : exec' = [exec EXCEPT ![e] = [call EXCEPT !.pc = "complete", !.candidate = candidate]]
        BY <1>1, <2>11, <3>4, CloseBecomes
      <4> DEFINE next == [call EXCEPT !.pc = "complete", !.candidate = candidate]
      <4>2. next.pc = "complete" /\ exec' = [exec EXCEPT ![e] = next]
        BY <2>1, <4>1 DEF Calls
      <4> HIDE DEF next
      <4>3. CallBackedUp(next, run'.plan, pristine')
        BY <4>2 DEF CallBackedUp
      <4> QED
        BY <1>2, <3>2, <4>2, <4>3
    <3> QED
      BY <3>3, <3>4
  <2>12. CASE Complete(e)
    <3>1. UNCHANGED <<applied, pristine>> /\ exec' = [exec EXCEPT ![e] = IdleExec]
      BY <2>12 DEF Complete, observed
    <3>2. CASE Alike(run.plan, run'.plan)
      <4>1. "backup" \in Store!StepNames
        BY DEF Store!StepNames
      <4>2. BackedUpBy(run'.plan, applied', pristine')
        BY <1>1, <3>1, <3>2, <4>1 DEF BackedUpBy, Alike
      <4> QED
        BY <1>3, <3>1, <4>2
    <3> QED
      BY <1>1, <1>3, <1>5, <2>12, <3>1, <3>2, CompleteMoves
  <2> QED
    BY <1>9, <2>2, <2>3, <2>4, <2>5, <2>6, <2>7, <2>8, <2>9, <2>10, <2>11, <2>12 DEF CallNext
<1>10. ASSUME NEW e \in Executors, CrashExec(e)
       PROVE  BackedUp'
  BY <1>3, <1>5, <1>10, RunKept DEF CrashExec, observed
<1>11. ASSUME PubNext \/ Others \/ UNCHANGED vars
       PROVE  BackedUp'
  <2>1. UNCHANGED <<applied, pristine>>
    BY <1>11 DEF PubNext, Others, ComputeCandidate, Authorize, Stage, Commit, CommitFails, RecordReceipt,
                 CrashPub, RecordValidation, Edit, StageEdit, Abandon, vars, observed
  <2> QED
    BY <1>1, <1>11, <2>1, ExecKept, OthersKeepPlans DEF BackedUp, PlanKept
<1> QED
  BY <1>8, <1>9, <1>10, <1>11 DEF Next, ExecNext

LEMMA InPlaceInit == Init => InPlace
<1> SUFFICES ASSUME Init PROVE InPlace
  OBVIOUS
<1>1. \A e \in Executors : exec[e] = IdleExec
  BY DEF Init, Fresh, Rest
<1> QED
  BY <1>1, IdleInPlace DEF InPlace

LEMMA NoPlanAtFirst == Init => run.plan = Nil
<1> SUFFICES ASSUME Init PROVE run.plan = Nil
  OBVIOUS
<1> DEFINE created == Store!NewRun(Major, "per-fix", Scope)
           offered == Store!ActionsFor("active", "custom_theme")
<1>1. run = AtCustomTheme /\ created.plan = Nil
  BY DEF Init, run, Store!NewRun
<1>2. AtCustomTheme = [created EXCEPT !.phase = "custom_theme", !.allowedActions = offered]
  BY DEF AtCustomTheme
<1> HIDE DEF created, offered
<1> QED
  BY <1>1, <1>2

LEMMA BackedUpInit == Init => BackedUp
<1> SUFFICES ASSUME Init PROVE BackedUp
  OBVIOUS
<1>1. (\A e \in Executors : exec[e] = IdleExec) /\ \A s \in SiteSteps : applied[s] = 0
  BY DEF Init, Fresh, Rest, NoEffects, SiteSteps, Mutating, Store!StepNames
<1> QED
  BY <1>1, NoPlanAtFirst, IdleBackedUp DEF BackedUp, BackedUpBy

(* With one executor, every command that changes the site is preceded by a *)
(* backup made before any of them, and the plan is bound to it: over all   *)
(* crashes and resumptions, and all outcomes of the commands.              *)
THEOREM BackupsComeFirst ==
  ASSUME OneExecutor
  PROVE  Spec => []BackupPrecedesSiteChanges
<1>1. Init => InPlace /\ BackedUp
  BY InPlaceInit, BackedUpInit
<1>2. Typed /\ InPlace /\ BackedUp /\ [Next]_vars => InPlace' /\ BackedUp'
  BY OneExecutor, InPlaceNext, BackedUpNext
<1>3. Typed /\ BackedUp => BackupPrecedesSiteChanges
  <2> SUFFICES ASSUME BackedUp, Typed, NEW s \in SiteSteps, applied[s] > 0
               PROVE  run.plan.backup # Nil /\ run.plan.backup \in pristine
    BY DEF BackupPrecedesSiteChanges
  <2> QED
    BY DEF BackedUp, BackedUpBy
<1> QED
  BY <1>1, <1>2, <1>3, AlwaysTyped, PTL DEF Spec

(***************************************************************************)
(* Mutations                                                               *)
(***************************************************************************)

(* The statuses of a step whose command a call may still run. *)
Untouched == {"absent", "pending", "unavailable"}

Unstarted(plan, s) == plan = Nil \/ plan.steps[s].status \in Untouched

(* The call has step s in hand. *)
At(call, s) == call.pc \in {"effect", "report"} /\ call.step = s

(* What it has in hand it has not run yet, or not to its end. *)
Unspent(call) == call.pc = "effect" \/ call.outcome \in {"missing", "timeout"}

(* A mutation that nothing casts doubt on has had at most one effect and   *)
(* is in the hands of at most one call, and one that may yet be run has    *)
(* had none.                                                               *)
OnceOf(s) ==
  /\ applied[s] <= 1
  /\ Unstarted(run.plan, s) => applied[s] = 0 /\ \A e \in Executors : ~At(exec[e], s)
  /\ \A e, f \in Executors : At(exec[e], s) /\ At(exec[f], s) => e = f
  /\ \A e \in Executors : At(exec[e], s) /\ Unspent(exec[e]) => applied[s] = 0

Once == \A s \in Mutating \ doubtful : OnceOf(s)

(* A step that does not run s, give it to a call or take it back. *)
Steady(s) ==
  /\ applied'[s] = applied[s]
  /\ \A e \in Executors :
       At(exec'[e], s) => At(exec[e], s) /\ (Unspent(exec'[e]) => Unspent(exec[e]))
  /\ Unstarted(run'.plan, s) => Unstarted(run.plan, s)

LEMMA SteadyOnce ==
  ASSUME NEW s \in Mutating, OnceOf(s), Steady(s)
  PROVE  OnceOf(s)'
<1>1. applied'[s] <= 1
  BY DEF OnceOf, Steady
<1>2. ASSUME Unstarted(run'.plan, s)
      PROVE  applied'[s] = 0 /\ \A e \in Executors : ~At(exec'[e], s)
  BY <1>2 DEF OnceOf, Steady
<1>3. \A e, f \in Executors : At(exec'[e], s) /\ At(exec'[f], s) => e = f
  BY DEF OnceOf, Steady
<1>4. \A e \in Executors : At(exec'[e], s) /\ Unspent(exec'[e]) => applied'[s] = 0
  BY DEF OnceOf, Steady
<1> QED
  BY <1>1, <1>2, <1>3, <1>4 DEF OnceOf, At, Unspent, Unstarted

LEMMA CallSteady ==
  ASSUME ExecTyped, NEW e \in Executors, NEW call, exec' = [exec EXCEPT ![e] = call], UNCHANGED applied,
         NEW s \in Mutating, ~At(call, s), Unstarted(run'.plan, s) => Unstarted(run.plan, s)
  PROVE  Steady(s)
<1>1. \A f \in Executors : exec'[f] = IF f = e THEN call ELSE exec[f]
  BY DEF ExecTyped
<1> QED
  BY <1>1 DEF Steady

LEMMA IdleIsAtNothing == \A s : ~At(IdleExec, s)
BY DEF At, IdleExec

(* Most steps of a call leave every mutation alone. *)
LEMMA MostAreSteady ==
  ASSUME Typed, NEW e \in Executors, CallNext(e), NEW s \in Mutating,
         \A t \in Store!StepNames : ~StartStep(e, t),
         \A outcome \in Outcomes : ~RunCommand(e, outcome),
         ~ReportStep(e)
  PROVE  Steady(s)
<1> DEFINE call == exec[e]
<1>1. StoreSound /\ ExecTyped /\ call \in Calls /\ CallTyped(call) /\ s \in Store!StepNames
  BY DEF Typed, ExecTyped, Mutating, Store!StepNames
<1>2. s # "backup" /\ s # "validation"
  BY DEF Mutating
<1>3. ASSUME NEW next, exec' = [exec EXCEPT ![e] = next], UNCHANGED applied, ~At(next, s), run' = run
      PROVE  Steady(s)
  BY <1>1, <1>3, CallSteady
<1>4. CASE Resume(e)
  <2>1. UNCHANGED applied
    BY <1>4 DEF Resume, observed
  <2>2. CASE run' = run /\ exec' = [exec EXCEPT ![e] = IdleExec]
    BY <1>3, <2>1, <2>2, IdleIsAtNothing
  <2>3. CASE /\ run.plan # Nil /\ run'.plan # Nil
             /\ \A t \in Store!StepNames :
                  run'.plan.steps[t].status =
                    IF run.plan.steps[t].status = "unavailable" THEN "pending" ELSE run.plan.steps[t].status
             /\ exec' = [exec EXCEPT ![e] = Reading(run'.plan)]
    <3>1. Unstarted(run'.plan, s) => Unstarted(run.plan, s)
      BY <1>1, <2>3 DEF Unstarted, Untouched
    <3>2. ~At(Reading(run'.plan), s)
      BY DEF At, Reading, IdleExec
    <3> QED
      BY <1>1, <2>1, <2>3, <3>1, <3>2, CallSteady
  <2> QED
    BY <1>1, <1>4, <2>2, <2>3, ResumeMoves
<1>5. ASSUME NEW t \in Store!StepNames, RefuseStep(e, t)
      PROVE  Steady(s)
  BY <1>3, <1>5, RunKept, IdleIsAtNothing DEF RefuseStep, observed
<1>6. ASSUME NEW backup \in Backups, NEW outcome \in Outcomes, CreateBackup(e, backup, outcome)
      PROVE  Steady(s)
  <2> DEFINE next == AfterBackup(call, backup, outcome)
  <2>1. next.step = "backup"
    BY <1>1, <1>6 DEF Calls, AfterBackup, CreateBackup
  <2>2. exec' = [exec EXCEPT ![e] = next]
    BY <1>1, <1>6, BackupBecomes
  <2>3. run' = run /\ UNCHANGED applied
    BY <1>6, RunKept DEF CreateBackup
  <2> HIDE DEF next
  <2>4. ~At(next, s)
    BY <1>2, <2>1 DEF At
  <2> QED
    BY <1>3, <2>2, <2>3, <2>4
<1>7. CASE BindBackup(e)
  <2>1. UNCHANGED applied
    BY <1>7 DEF BindBackup, observed
  <2>2. CASE run' = run /\ exec' = [exec EXCEPT ![e] = IdleExec]
    BY <1>3, <2>1, <2>2, IdleIsAtNothing
  <2>3. CASE /\ run.plan # Nil /\ run'.plan # Nil /\ run'.plan.steps = run.plan.steps
             /\ exec' = [exec EXCEPT ![e] = [call EXCEPT !.pc = "report"]]
    <3> DEFINE next == [call EXCEPT !.pc = "report"]
    <3>1. next.step = "backup"
      BY <1>1, <1>7 DEF Calls, CallTyped, BindBackup
    <3>2. exec' = [exec EXCEPT ![e] = next]
      BY <2>3
    <3> HIDE DEF next
    <3>3. ~At(next, s)
      BY <1>2, <3>1 DEF At
    <3>4. Unstarted(run'.plan, s) => Unstarted(run.plan, s)
      BY <2>3 DEF Unstarted
    <3> QED
      BY <1>1, <2>1, <3>2, <3>3, <3>4, CallSteady
  <2> QED
    BY <1>1, <1>7, <2>2, <2>3, BindMoves
<1>8. CASE BeginValidation(e)
  <2>1. call.step = "validation" /\ run' = run /\ UNCHANGED applied
    BY <1>8, RunKept DEF BeginValidation, observed
  <2>2. ASSUME NEW before, exec' = [exec EXCEPT ![e] = [call EXCEPT !.pc = "validating", !.candidate = before]]
        PROVE  Steady(s)
    <3> DEFINE next == [call EXCEPT !.pc = "validating", !.candidate = before]
    <3>1. next.step = "validation" /\ exec' = [exec EXCEPT ![e] = next]
      BY <1>1, <2>1, <2>2 DEF Calls
    <3> HIDE DEF next
    <3> QED
      BY <1>2, <1>3, <2>1, <3>1 DEF At
  <2>3. ASSUME exec' = [exec EXCEPT ![e] = [call EXCEPT !.pc = "report", !.outcome = "failed"]]
        PROVE  Steady(s)
    <3> DEFINE next == [call EXCEPT !.pc = "report", !.outcome = "failed"]
    <3>1. next.step = "validation" /\ exec' = [exec EXCEPT ![e] = next]
      BY <1>1, <2>1, <2>3 DEF Calls
    <3> HIDE DEF next
    <3> QED
      BY <1>2, <1>3, <2>1, <3>1 DEF At
  <2> QED
    BY <1>1, <1>8, <2>2, <2>3, ValidationBegins
<1>9. ASSUME NEW outcome \in Outcomes, EndValidation(e, outcome)
      PROVE  Steady(s)
  <2>1. call.step = "validation" /\ run' = run /\ UNCHANGED applied
    BY <1>1, <1>9, RunKept DEF EndValidation, CallTyped
  <2>2. ASSUME exec' = [exec EXCEPT ![e] = [call EXCEPT !.pc = "report", !.outcome = "ok"]]
        PROVE  Steady(s)
    <3> DEFINE next == [call EXCEPT !.pc = "report", !.outcome = "ok"]
    <3>1. next.step = "validation" /\ exec' = [exec EXCEPT ![e] = next]
      BY <1>1, <2>1, <2>2 DEF Calls
    <3> HIDE DEF next
    <3> QED
      BY <1>2, <1>3, <2>1, <3>1 DEF At
  <2>3. ASSUME NEW end,
               exec' = [exec EXCEPT ![e] = [call EXCEPT !.pc = "report", !.candidate = Nil, !.outcome = end]]
        PROVE  Steady(s)
    <3> DEFINE next == [call EXCEPT !.pc = "report", !.candidate = Nil, !.outcome = end]
    <3>1. next.step = "validation"
      BY <1>1, <2>1 DEF Calls
    <3>2. exec' = [exec EXCEPT ![e] = next]
      BY <2>3
    <3> HIDE DEF next
    <3> QED
      BY <1>2, <1>3, <2>1, <3>1, <3>2 DEF At
  <2>4. \/ exec' = [exec EXCEPT ![e] = [call EXCEPT !.pc = "report", !.outcome = "ok"]]
        \/ \E end : exec' = [exec EXCEPT ![e] = [call EXCEPT !.pc = "report", !.candidate = Nil, !.outcome = end]]
    BY <1>1, <1>9, ValidationEnds
  <2> QED
    BY <2>2, <2>3, <2>4
<1>10. CASE Close(e)
  <2>1. run' = run /\ UNCHANGED applied
    BY <1>10, RunKept DEF Close, observed
  <2>2. CASE exec' = [exec EXCEPT ![e] = IdleExec]
    BY <1>3, <2>1, <2>2, IdleIsAtNothing
  <2>3. CASE exec' # [exec EXCEPT ![e] = IdleExec]
    <3>1. PICK candidate : exec' = [exec EXCEPT ![e] = [call EXCEPT !.pc = "complete", !.candidate = candidate]]
      BY <1>1, <1>10, <2>3, CloseBecomes
    <3> DEFINE next == [call EXCEPT !.pc = "complete", !.candidate = candidate]
    <3>2. next.pc = "complete" /\ exec' = [exec EXCEPT ![e] = next]
      BY <1>1, <3>1 DEF Calls
    <3> HIDE DEF next
    <3> QED
      BY <1>3, <2>1, <3>2 DEF At
  <2> QED
    BY <2>2, <2>3
<1>11. CASE Complete(e)
  <2>1. UNCHANGED applied /\ exec' = [exec EXCEPT ![e] = IdleExec]
    BY <1>11 DEF Complete, observed
  <2>2. CASE Alike(run.plan, run'.plan)
    <3>1. Unstarted(run'.plan, s) => Unstarted(run.plan, s)
      BY <1>1, <2>2 DEF Unstarted, Alike
    <3> QED
      BY <1>1, <2>1, <3>1, CallSteady, IdleIsAtNothing
  <2> QED
    BY <1>1, <1>3, <1>11, <2>1, <2>2, CompleteMoves, IdleIsAtNothing
<1> QED
  BY <1>4, <1>5, <1>6, <1>7, <1>8, <1>9, <1>10, <1>11 DEF CallNext

LEMMA OnceNext == Typed /\ Once /\ [Next]_vars => Once'
<1> SUFFICES ASSUME Typed, Once, [Next]_vars, NEW s \in Mutating, s \notin doubtful'
             PROVE  OnceOf(s)'
  BY DEF Once
<1>1. StoreSound /\ StoreSound' /\ ExecTyped /\ ObservationTyped /\ s \in Store!StepNames
  BY StoreNext DEF Typed, Mutating, Store!StepNames
<1>2. s \notin doubtful => OnceOf(s)
  BY DEF Once
<1>3. ASSUME doubtful \subseteq doubtful', Steady(s)
      PROVE  OnceOf(s)'
  BY <1>2, <1>3, SteadyOnce
<1>4. ASSUME NEW e \in Executors, NEW paths \in SUBSET Paths, NEW resume \in BOOLEAN,
             Begin(e, PlanInput(run.phase, paths), resume)
      PROVE  OnceOf(s)'
  <2>1. PICK call : exec' = [exec EXCEPT ![e] = call] /\ ~At(call, s)
    <3>1. \/ exec' = [exec EXCEPT ![e] = IdleExec]
          \/ exec' = [exec EXCEPT ![e] = [IdleExec EXCEPT !.pc = "resume"]]
          \/ exec' = [exec EXCEPT ![e] = Reading(run'.plan)]
      BY <1>1, <1>4, BeginReads
    <3>2. ~At(IdleExec, s) /\ ~At([IdleExec EXCEPT !.pc = "resume"], s) /\ ~At(Reading(run'.plan), s)
      BY DEF At, IdleExec, Reading
    <3> QED
      BY <3>1, <3>2
  <2>2. CASE runs' = runs
    <3>1. UNCHANGED <<applied, doubtful>> /\ run' = run
      BY <1>4, <2>2, RunKept DEF Begin
    <3> QED
      BY <1>1, <1>3, <2>1, <3>1, CallSteady
  <2>3. CASE runs' # runs
    <3>1. applied' = NoEffects /\ doubtful' = InHand
      BY <1>4, <2>3 DEF Begin
    <3>2. \A f \in Executors : ~At(exec[f], s)
      BY <3>1 DEF InHand, At
    <3>3. \A f \in Executors : ~At(exec'[f], s)
      BY <1>1, <2>1, <3>2 DEF ExecTyped
    <3>4. applied'[s] = 0
      BY <1>1, <3>1 DEF NoEffects
    <3> QED
      BY <3>3, <3>4 DEF OnceOf, At, Unspent, Unstarted
  <2> QED
    BY <2>2, <2>3
<1>5. ASSUME NEW e \in Executors, NEW t \in Store!StepNames, StartStep(e, t)
      PROVE  OnceOf(s)'
  <2> DEFINE next == [exec[e] EXCEPT !.pc = "effect", !.step = t]
  <2>1. next.pc = "effect" /\ next.step = t
    BY <1>1 DEF ExecTyped, Calls
  <2>2. exec' = [exec EXCEPT ![e] = next] /\ UNCHANGED applied
    BY <1>1, <1>5, StartBecomes DEF StartStep
  <2> HIDE DEF next
  <2>3. doubtful \subseteq doubtful' /\ (run.plan.steps[t].status = "running" => doubtful' = Doubting(t))
    BY <1>5 DEF StartStep, Doubting
  <2>4. Moved(run.plan, run'.plan, t, "running") /\ run.plan.steps[t].status \in {"pending", "running"}
    BY <1>1, <1>5, StartMoves
  <2>5. CASE s # t
    <3>1. Unstarted(run'.plan, s) => Unstarted(run.plan, s)
      BY <1>1, <2>4, <2>5 DEF Unstarted, Moved
    <3>2. ~At(next, s)
      BY <2>1, <2>5 DEF At
    <3> QED
      BY <1>1, <1>3, <2>2, <2>3, <3>1, <3>2, CallSteady
  <2>6. CASE s = t
    <3>1. run.plan.steps[s].status = "pending" /\ s \notin doubtful
      BY <2>3, <2>4, <2>6 DEF Doubting
    <3>2. applied[s] = 0 /\ \A f \in Executors : ~At(exec[f], s)
      BY <1>2, <3>1 DEF OnceOf, Unstarted, Untouched
    <3>3. ~Unstarted(run'.plan, s)
      BY <1>1, <2>4, <2>6 DEF Unstarted, Untouched, Moved
    <3>4. \A f \in Executors : At(exec'[f], s) => f = e
      BY <1>1, <2>2, <3>2 DEF ExecTyped
    <3>5. applied'[s] = 0
      BY <2>2, <3>2
    <3> QED
      BY <3>3, <3>4, <3>5 DEF OnceOf, At, Unspent, Unstarted
  <2> QED
    BY <2>5, <2>6
<1>6. ASSUME NEW e \in Executors, NEW outcome \in Outcomes, RunCommand(e, outcome)
      PROVE  OnceOf(s)'
  <2> DEFINE call == exec[e]
             next == [call EXCEPT !.pc = "report", !.outcome = outcome]
  <2>1. /\ next.pc = "report" /\ next.step = call.step /\ next.outcome = outcome /\ call.pc = "effect"
        /\ call.step \in Store!StepNames
    BY <1>1, <1>6, StepUnderWay DEF ExecTyped, Calls, RunCommand, InStep
  <2>2. exec' = [exec EXCEPT ![e] = next] /\ run' = run
    BY <1>1, <1>6, CommandBecomes, RunKept DEF RunCommand
  <2>3. /\ IF outcome # "missing" THEN applied' = [applied EXCEPT ![call.step] = @ + 1] ELSE UNCHANGED applied
        /\ doubtful' = IF outcome = "timeout" THEN Doubting(call.step) ELSE doubtful
    BY <1>6 DEF RunCommand, Runs
  <2> HIDE DEF next
  <2>4. doubtful \subseteq doubtful'
    BY <2>3 DEF Doubting
  <2>5. \A f \in Executors : exec'[f] = IF f = e THEN next ELSE exec[f]
    BY <1>1, <2>2 DEF ExecTyped
  <2>6. CASE s # call.step
    <3>1. applied'[s] = applied[s]
      BY <1>1, <2>1, <2>3, <2>6 DEF ObservationTyped
    <3>2. ~At(next, s)
      BY <2>1, <2>6 DEF At
    <3>3. Steady(s)
      BY <2>2, <2>5, <3>1, <3>2 DEF Steady
    <3> QED
      BY <1>3, <2>4, <3>3
  <2>7. CASE s = call.step
    <3>1. outcome # "timeout" /\ s \notin doubtful
      BY <2>3, <2>4, <2>7 DEF Doubting
    <3>2. OnceOf(s) /\ At(call, s) /\ Unspent(call)
      BY <1>2, <2>1, <2>7, <3>1 DEF At, Unspent
    <3>3. applied[s] = 0 /\ ~Unstarted(run'.plan, s) /\ \A f \in Executors : At(exec[f], s) => f = e
      BY <2>2, <3>2 DEF OnceOf
    <3>4. applied'[s] = IF outcome = "missing" THEN 0 ELSE 1
      BY <1>1, <2>3, <2>7, <3>3 DEF ObservationTyped
    <3>5. \A f \in Executors : At(exec'[f], s) => f = e
      BY <2>5, <3>3
    <3>6. Unspent(next) => outcome = "missing"
      BY <2>1, <3>1 DEF Unspent
    <3>7. \A f \in Executors : At(exec'[f], s) /\ Unspent(exec'[f]) => applied'[s] = 0
      BY <2>5, <3>4, <3>5, <3>6
    <3> QED
      BY <3>3, <3>4, <3>5, <3>7 DEF OnceOf, At, Unspent, Unstarted
  <2> QED
    BY <2>6, <2>7
<1>7. ASSUME NEW e \in Executors, ReportStep(e)
      PROVE  OnceOf(s)'
  <2> DEFINE call == exec[e]
  <2>1. UNCHANGED <<applied, doubtful>>
    BY <1>7 DEF ReportStep, observed
  <2>2. call.pc = "report" /\ call.step \in Store!StepNames
    BY <1>1, <1>7, StepUnderWay DEF ReportStep, InStep
  <2>3. PICK next : exec' = [exec EXCEPT ![e] = next] /\ ~At(next, s)
    <3>1. \/ exec' = [exec EXCEPT ![e] = Continued(call)]
          \/ exec' = [exec EXCEPT ![e] = IdleExec]
      BY <1>1, <1>7, ReportBecomes
    <3>2. ~At(Continued(call), s)
      BY DEF At, Continued, IdleExec
    <3> QED
      BY <3>1, <3>2, IdleIsAtNothing
  <2>4. \A f \in Executors : exec'[f] = IF f = e THEN next ELSE exec[f]
    BY <1>1, <2>3 DEF ExecTyped
  <2>5. CASE run' = run
    BY <1>1, <1>3, <2>1, <2>3, <2>5, CallSteady
  <2>6. CASE Moved(run.plan, run'.plan, call.step, StatusOf(call.outcome))
    <3>1. CASE s = call.step /\ Unstarted(run'.plan, s)
      <4>1. StatusOf(call.outcome) \in Untouched
        BY <2>2, <2>6, <3>1 DEF Moved, Unstarted
      <4>2. call.outcome \in {"missing", "timeout"}
        BY <4>1 DEF StatusOf, Untouched
      <4>3. OnceOf(s) /\ At(call, s) /\ Unspent(call)
        BY <1>2, <2>1, <2>2, <3>1, <4>2 DEF At, Unspent
      <4>4. applied'[s] = 0 /\ \A f \in Executors : At(exec[f], s) => f = e
        BY <2>1, <4>3 DEF OnceOf
      <4>5. \A f \in Executors : ~At(exec'[f], s)
        BY <2>3, <2>4, <4>4
      <4> QED
        BY <4>4, <4>5 DEF OnceOf, At, Unspent, Unstarted
    <3>2. CASE s # call.step \/ ~Unstarted(run'.plan, s)
      <4>1. Unstarted(run'.plan, s) => Unstarted(run.plan, s)
        BY <1>1, <2>6, <3>2 DEF Unstarted, Moved
      <4> QED
        BY <1>1, <1>3, <2>1, <2>3, <4>1, CallSteady
    <3> QED
      BY <3>1, <3>2
  <2> QED
    BY <1>1, <1>7, <2>5, <2>6, ReportMoves
<1>8. ASSUME NEW e \in Executors, CrashExec(e)
      PROVE  OnceOf(s)'
  <2>1. UNCHANGED <<applied, doubtful>> /\ run' = run /\ exec' = [exec EXCEPT ![e] = IdleExec]
    BY <1>8, RunKept DEF CrashExec, observed
  <2> QED
    BY <1>1, <1>3, <2>1, CallSteady, IdleIsAtNothing
<1>9. ASSUME PubNext \/ Others \/ UNCHANGED vars
      PROVE  OnceOf(s)'
  <2>1. UNCHANGED <<applied, doubtful>>
    BY <1>9 DEF PubNext, Others, ComputeCandidate, Authorize, Stage, Commit, CommitFails, RecordReceipt,
                CrashPub, RecordValidation, Edit, StageEdit, Abandon, vars, observed
  <2>2. UNCHANGED exec /\ run'.plan = run.plan
    BY <1>1, <1>9, ExecKept, OthersKeepPlans DEF PlanKept
  <2> QED
    BY <1>3, <2>1, <2>2 DEF Steady
<1>10. ASSUME NEW e \in Executors, CallNext(e)
       PROVE  OnceOf(s)'
  <2>1. CASE /\ \A t \in Store!StepNames : ~StartStep(e, t)
             /\ \A outcome \in Outcomes : ~RunCommand(e, outcome)
             /\ ~ReportStep(e)
    <3>1. Steady(s)
      BY <1>10, <2>1, MostAreSteady
    <3>2. doubtful \subseteq doubtful'
      BY <1>10, <2>1 DEF CallNext, Resume, RefuseStep, CreateBackup, BindBackup, BeginValidation,
                         EndValidation, Close, Complete, observed
    <3> QED
      BY <1>3, <3>1, <3>2
  <2> QED
    BY <1>5, <1>6, <1>7, <2>1
<1> QED
  BY <1>4, <1>8, <1>9, <1>10 DEF Next, ExecNext

LEMMA OnceInit == Init => Once
<1> SUFFICES ASSUME Init, NEW s \in Mutating PROVE OnceOf(s)
  BY DEF Once
<1>1. (\A e \in Executors : exec[e] = IdleExec) /\ applied[s] = 0
  BY DEF Init, Fresh, Rest, NoEffects, Mutating, Store!StepNames
<1> QED
  BY <1>1, IdleIsAtNothing DEF OnceOf

(* A command that changes the site runs twice for one plan only after one  *)
(* run of it was given up at its deadline, or if two calls had it in hand  *)
(* at once: whatever crashes, fails, is missing or is resumed, and however *)
(* many calls run.                                                         *)
THEOREM MutationsHappenOnce == Spec => []MutationsOnce
<1>1. Once /\ Typed => MutationsOnce
  <2> SUFFICES ASSUME Once, Typed, NEW s \in Mutating, s \notin doubtful
               PROVE  ~(applied[s] > 1)
    BY DEF MutationsOnce
  <2>1. applied[s] <= 1 /\ applied[s] \in Nat
    BY DEF Once, OnceOf, Typed, ObservationTyped, Mutating, Store!StepNames
  <2> QED
    BY <2>1
<1> QED
  BY <1>1, OnceInit, OnceNext, AlwaysTyped, PTL DEF Spec

(***************************************************************************)
(* Publication                                                             *)
(***************************************************************************)

(* Only a commit moves HEAD. *)
LEMMA MostKeepHead ==
  ASSUME [Next]_vars, ~Commit
  PROVE  UNCHANGED head
<1>1. ASSUME NEW e \in Executors, NEW paths \in SUBSET Paths, NEW resume \in BOOLEAN,
             Begin(e, PlanInput(run.phase, paths), resume)
      PROVE  UNCHANGED head
  BY <1>1 DEF Begin, files
<1>2. ASSUME NEW e \in Executors, NEW backup \in Backups, NEW outcome \in Outcomes,
             CreateBackup(e, backup, outcome) \/ RunCommand(e, outcome)
      PROVE  UNCHANGED head
  BY <1>2 DEF CreateBackup, RunCommand, files
<1>3. ASSUME NEW e \in Executors, NEW outcome \in Outcomes, RunCommand(e, outcome)
      PROVE  UNCHANGED head
  BY <1>3 DEF RunCommand
<1>4. ASSUME NEW p \in Paths, Edit(p) \/ StageEdit(p)
      PROVE  UNCHANGED head
  BY <1>4 DEF Edit, StageEdit
<1>5. CASE Stage
  BY <1>5 DEF Stage
<1>6. FilesKept => UNCHANGED head
  BY DEF FilesKept, files
<1> QED
  BY <1>1, <1>2, <1>3, <1>4, <1>5, <1>6, MostKeepFiles DEF Next, ExecNext, CallNext, PubNext, Others

(* A candidate starts from where HEAD is until its commit moves it,        *)
(* whoever edits and stages meanwhile.                                     *)
FromHead ==
  pub.pc \in {"authorize", "stage", "commit"} =>
    \A p \in DOMAIN pub.candidate : pub.candidate[p][1] = head[p]

LEMMA CandidateReads ==
  ASSUME FilesTyped, NEW paths \in SUBSET Paths, CandidateForPaths(paths) # Nil
  PROVE  /\ DOMAIN CandidateForPaths(paths) = paths
         /\ \A p \in paths : /\ CandidateForPaths(paths)[p][1] = head[p]
                             /\ CandidateForPaths(paths)[p][3] = tree[p]
<1>1. CandidateForPaths(paths) = Identity(paths)
  BY CandidateIsDiff
<1>2. \A p \in paths : Identity(paths)[p] = <<head[p], index[p], tree[p]>>
  BY DEF Identity
<1> QED
  BY <1>1, <1>2, CandidateIsDiff

LEMMA FromHeadNext == Typed /\ FromHead /\ [Next]_vars => FromHead'
<1> SUFFICES ASSUME Typed, FromHead, [Next]_vars PROVE FromHead'
  OBVIOUS
<1>1. FilesTyped /\ PubTyped
  BY DEF Typed
<1>2. CASE UNCHANGED pub
  <2>1. ~Commit
    BY <1>1, <1>2 DEF Commit, PubTyped
  <2>2. UNCHANGED head
    BY <2>1, MostKeepHead
  <2> QED
    BY <1>2, <2>2 DEF FromHead
<1>3. CASE pub' = IdlePub
  BY <1>3 DEF FromHead, IdlePub
<1>4. ASSUME NEW paths \in SUBSET Paths, ComputeCandidate(paths)
      PROVE  FromHead'
  <2> DEFINE candidate == CandidateForPaths(paths)
  <2>1. candidate # Nil /\ pub' = [pc |-> "authorize", candidate |-> candidate] /\ UNCHANGED head
    BY <1>4 DEF ComputeCandidate, files
  <2>2. DOMAIN candidate = paths /\ \A p \in paths : candidate[p][1] = head[p]
    BY <1>1, <2>1, CandidateReads
  <2> HIDE DEF candidate
  <2> QED
    BY <2>1, <2>2 DEF FromHead
<1>5. ASSUME NEW pc \in {"stage", "commit"}, pub' = [pub EXCEPT !.pc = pc],
             pub.pc \in {"authorize", "stage"}, UNCHANGED head
      PROVE  FromHead'
  <2>1. pub'.candidate = pub.candidate
    BY <1>1, <1>5 DEF PubTyped
  <2> QED
    BY <1>5, <2>1 DEF FromHead
<1>6. CASE Authorize
  <2>1. pub.pc = "authorize" /\ UNCHANGED head /\ (pub' = [pub EXCEPT !.pc = "stage"] \/ pub' = IdlePub)
    BY <1>6 DEF Authorize, files
  <2> QED
    BY <1>3, <1>5, <2>1
<1>7. CASE Stage
  <2>1. pub.pc = "stage" /\ UNCHANGED head /\ (pub' = [pub EXCEPT !.pc = "commit"] \/ pub' = IdlePub)
    BY <1>7 DEF Stage
  <2> QED
    BY <1>3, <1>5, <2>1
<1>8. CASE Commit
  <2>1. pub'.pc = "receipt"
    BY <1>1, <1>8 DEF Commit, PubTyped
  <2> QED
    BY <2>1 DEF FromHead
<1> QED
  BY <1>2, <1>3, <1>4, <1>6, <1>7, <1>8, PubKept
     DEF Next, PubNext, CommitFails, RecordReceipt, CrashPub

(* The paths of commit i are where it left them: no later one touched any. *)
LastOn(i) ==
  \A k \in (i + 1)..Len(commits) : ~Touches(commits[k], DOMAIN commits[i].candidate)

(* Until another commit touches its paths, HEAD differs somewhere on them  *)
(* from where a commit of anything of its candidate found it.              *)
MovedOn ==
  \A i \in 1..Len(commits) :
    Touches(commits[i], DOMAIN commits[i].candidate) /\ LastOn(i)
    => \E p \in DOMAIN commits[i].candidate : head[p] # commits[i].candidate[p][1]

(* The log of commits, one longer. *)
LEMMA CommitIsAppended ==
  ASSUME ObservationTyped, Commit
  PROVE  /\ Len(commits) \in Nat /\ Len(commits') = Len(commits) + 1
         /\ commits'[Len(commits) + 1] = Committed
         /\ \A i \in 1..Len(commits) :
              commits'[i] = commits[i] /\ commits[i] \in [candidate : Diffs, content : Contents]
<1> DEFINE C == [candidate : Diffs, content : Contents]
<1>1. commits \in Seq(C)
  BY DEF ObservationTyped
<1>2. commits' = Append(commits, Committed)
  BY DEF Commit, Committed
<1> HIDE DEF C
<1>3. /\ Len(commits) \in Nat /\ Len(commits') = Len(commits) + 1
      /\ commits'[Len(commits) + 1] = Committed
      /\ \A i \in 1..Len(commits) : commits'[i] = commits[i] /\ commits[i] \in C
  BY <1>1, <1>2
<1> QED
  BY <1>3 DEF C

(* Commit i < n + 1 of a log that grows by the one of the moment.          *)
LEMMA LastBefore ==
  ASSUME ObservationTyped, Commit, NEW i \in 1..Len(commits), LastOn(i)'
  PROVE  LastOn(i) /\ ~Touches(Committed, DOMAIN commits[i].candidate)
<1> DEFINE n == Len(commits)
<1>1. /\ n \in Nat /\ Len(commits') = n + 1 /\ commits'[n + 1] = Committed
      /\ \A k \in 1..n : commits'[k] = commits[k]
  BY CommitIsAppended
<1>2. \A k \in (i + 1)..Len(commits') : ~Touches(commits'[k], DOMAIN commits'[i].candidate)
  BY DEF LastOn, Touches
<1> HIDE DEF n
<1>3. i \in 1..n
  BY DEF n
<1>4. commits'[i] = commits[i] /\ n + 1 \in (i + 1)..(n + 1)
  BY <1>1, <1>3
<1>5. ~Touches(Committed, DOMAIN commits[i].candidate)
  BY <1>1, <1>2, <1>4
<1>6. ASSUME NEW k \in (i + 1)..n
      PROVE  ~Touches(commits[k], DOMAIN commits[i].candidate)
  <2>1. k \in (i + 1)..(n + 1) /\ k \in 1..n
    BY <1>1, <1>3
  <2> QED
    BY <1>1, <1>2, <1>4, <2>1
<1> QED
  BY <1>5, <1>6 DEF LastOn, n

LEMMA MovedOnNext == Typed /\ FromHead /\ MovedOn /\ [Next]_vars => MovedOn'
<1> SUFFICES ASSUME Typed, FromHead, MovedOn, [Next]_vars PROVE MovedOn'
  OBVIOUS
<1>1. FilesTyped /\ PubTyped /\ ObservationTyped
  BY DEF Typed
<1>2. CASE ~Commit
  <2>1. UNCHANGED commits /\ UNCHANGED head
    BY <1>2, MostKeepCommits, MostKeepHead
  <2> QED
    BY <2>1 DEF MovedOn, LastOn, Touches
<1>3. CASE Commit
  <2> DEFINE n == Len(commits)
  <2>1. /\ n \in Nat /\ Len(commits') = n + 1 /\ commits'[n + 1] = Committed
        /\ \A i \in 1..n : commits'[i] = commits[i] /\ commits[i] \in [candidate : Diffs, content : Contents]
    BY <1>1, <1>3, CommitIsAppended
  <2>2. head' = index /\ pub.pc = "commit"
    BY <1>3 DEF Commit
  <2>3. Committed.candidate = pub.candidate /\ DOMAIN Committed.content = {q \in Paths : index[q] # head[q]}
    BY DEF Committed
  <2> SUFFICES ASSUME NEW i \in 1..Len(commits'),
                      Touches(commits'[i], DOMAIN commits'[i].candidate), LastOn(i)'
               PROVE  \E p \in DOMAIN commits'[i].candidate : head'[p] # commits'[i].candidate[p][1]
    BY DEF MovedOn, Touches
  <2>4. CASE i = n + 1
    <3>1. PICK p \in DOMAIN pub.candidate : p \in Paths /\ index[p] # head[p]
      BY <2>1, <2>3, <2>4 DEF Touches
    <3>2. pub.candidate[p][1] = head[p]
      BY <2>2 DEF FromHead
    <3> QED
      BY <2>1, <2>2, <2>3, <2>4, <3>1, <3>2
  <2>5. CASE i # n + 1
    <3>1. i \in 1..n /\ commits'[i] = commits[i]
      BY <2>1, <2>5
    <3>2. LastOn(i) /\ ~Touches(Committed, DOMAIN commits[i].candidate)
      BY <1>1, <1>3, <3>1, LastBefore
    <3>3. PICK p \in DOMAIN commits[i].candidate : head[p] # commits[i].candidate[p][1]
      BY <3>1, <3>2 DEF MovedOn
    <3>4. commits[i].candidate \in Diffs
      BY <2>1, <3>1
    <3>5. p \in Paths
      BY <3>4, DiffIsOfPaths
    <3>6. index[p] = head[p]
      BY <2>3, <3>2, <3>5 DEF Touches
    <3> QED
      BY <2>2, <3>1, <3>3, <3>6
  <2> QED
    BY <2>4, <2>5
<1> QED
  BY <1>2, <1>3

LEMMA CommittedOnceNext ==
  Typed /\ FromHead /\ MovedOn /\ CommittedOnce /\ [Next]_vars => CommittedOnce'
<1> SUFFICES ASSUME Typed, FromHead, MovedOn, CommittedOnce, [Next]_vars PROVE CommittedOnce'
  OBVIOUS
<1>1. PubTyped /\ ObservationTyped
  BY DEF Typed
<1>2. CASE ~Commit
  <2>1. UNCHANGED commits
    BY <1>2, MostKeepCommits
  <2> QED
    BY <2>1 DEF CommittedOnce, Touches
<1>3. CASE Commit
  <2> DEFINE n == Len(commits)
  <2>1. /\ n \in Nat /\ Len(commits') = n + 1 /\ commits'[n + 1] = Committed
        /\ \A i \in 1..n : commits'[i] = commits[i]
    BY <1>1, <1>3, CommitIsAppended
  <2>2. Committed.candidate = pub.candidate /\ pub.pc = "commit"
    BY <1>3 DEF Commit, Committed
  <2> HIDE DEF n
  <2> SUFFICES ASSUME NEW i \in 1..Len(commits'), NEW j \in 1..Len(commits'), i < j,
                      commits'[i].candidate = commits'[j].candidate,
                      Touches(commits'[i], DOMAIN commits'[i].candidate)
               PROVE  \E k \in (i + 1)..(j - 1) : Touches(commits'[k], DOMAIN commits'[i].candidate)
    BY DEF CommittedOnce, Touches
  <2>3. i \in 1..n /\ commits'[i] = commits[i]
    BY <2>1
  <2>4. CASE j \in 1..n
    <3>1. PICK k \in (i + 1)..(j - 1) : Touches(commits[k], DOMAIN commits[i].candidate)
      BY <2>1, <2>3, <2>4 DEF CommittedOnce, n
    <3>2. k \in 1..n
      BY <2>1, <2>3, <2>4
    <3> QED
      BY <2>1, <2>3, <3>1, <3>2
  <2>5. CASE j \notin 1..n
    <3>1. j = n + 1 /\ commits[i].candidate = pub.candidate
      BY <2>1, <2>2, <2>3, <2>5
    <3>2. \A p \in DOMAIN commits[i].candidate : head[p] = commits[i].candidate[p][1]
      BY <2>2, <3>1 DEF FromHead
    <3>3. ~LastOn(i)
      BY <2>3, <3>2 DEF MovedOn, n
    <3>4. PICK k \in (i + 1)..n : Touches(commits[k], DOMAIN commits[i].candidate)
      BY <3>3 DEF LastOn, n
    <3>5. k \in 1..n /\ k \in (i + 1)..(j - 1)
      BY <2>1, <2>3, <3>1
    <3> QED
      BY <2>1, <2>3, <3>4, <3>5
  <2> QED
    BY <2>4, <2>5
<1> QED
  BY <1>2, <1>3

(* What the publisher found is still so, has been validated when it may    *)
(* stage, and is all that the index adds when it may commit.               *)
Publishing ==
  /\ pub.pc \in {"authorize", "stage", "commit"} =>
       \A p \in DOMAIN pub.candidate : pub.candidate[p][3] = tree[p]
  /\ pub.pc \in {"stage", "commit"} => pub.candidate \in green
  /\ pub.pc = "commit" =>
       \A p \in Paths : index[p] = IF p \in DOMAIN pub.candidate THEN tree[p] ELSE head[p]

(* Only what a completed plan holds is published. *)
LEMMA PublishedIsCompleted ==
  ASSUME Validated, NEW candidate, MayPublish(candidate)
  PROVE  candidate \in green
<1>1. run.strategy # "none" /\ Store!Authorized(run, Receipt(candidate))
  BY DEF MayPublish
<1>2. Receipt(candidate).strategy = run.strategy /\ Receipt(candidate).candidate = candidate
  BY DEF Receipt
<1>3. PICK i : /\ Store!Vouches(run.evidence[i], Receipt(candidate))
               /\ Store!PlanFor(run, run.evidence[i].phase, run.evidence[i])
  BY <1>1, <1>2 DEF Store!Authorized
<1>4. run.evidence[i].candidate = candidate
  BY <1>2, <1>3 DEF Store!Vouches
<1>5. PICK plan \in Store!Plans(run) : plan.completed /\ plan.candidate = candidate
  BY <1>3, <1>4 DEF Store!PlanFor, Store!PlanComplete
<1> QED
  BY <1>5 DEF Validated, ProvedIn

LEMMA PublishingNext ==
  Typed /\ Validated /\ Publishing /\ [Next]_vars /\ [QuietPublication]_vars => Publishing'
<1> SUFFICES ASSUME Typed, Validated, Publishing, [Next]_vars, [QuietPublication]_vars
             PROVE  Publishing'
  OBVIOUS
<1>1. FilesTyped /\ PubTyped /\ green \subseteq green'
  BY GreenGrows DEF Typed
<1>2. CASE UNCHANGED pub
  <2>1. pub.pc = "idle" \/ UNCHANGED files
    BY <1>2 DEF QuietPublication, vars
  <2> QED
    BY <1>1, <1>2, <2>1 DEF Publishing, files
<1>3. CASE pub' = IdlePub
  BY <1>3 DEF Publishing, IdlePub
<1>4. ASSUME NEW paths \in SUBSET Paths, ComputeCandidate(paths)
      PROVE  Publishing'
  <2> DEFINE candidate == CandidateForPaths(paths)
  <2>1. candidate # Nil /\ pub' = [pc |-> "authorize", candidate |-> candidate] /\ UNCHANGED files
    BY <1>4 DEF ComputeCandidate
  <2>2. DOMAIN candidate = paths /\ \A p \in paths : candidate[p][3] = tree[p]
    BY <1>1, <2>1, CandidateReads
  <2> HIDE DEF candidate
  <2> QED
    BY <2>1, <2>2 DEF Publishing, files
<1>5. CASE Authorize
  <2>1. CASE MayPublish(pub.candidate)
    <3>1. pub' = [pub EXCEPT !.pc = "stage"] /\ UNCHANGED files /\ pub.pc = "authorize"
      BY <1>5, <2>1 DEF Authorize
    <3>2. pub'.pc = "stage" /\ pub'.candidate = pub.candidate
      BY <1>1, <3>1 DEF PubTyped
    <3>3. pub.candidate \in green'
      BY <1>1, <2>1, PublishedIsCompleted
    <3> QED
      BY <3>1, <3>2, <3>3 DEF Publishing, files
  <2> QED
    BY <1>3, <1>5, <2>1 DEF Authorize
<1>6. CASE Stage
  <2> DEFINE paths == DOMAIN pub.candidate
             added == [p \in Paths |-> IF p \in paths THEN tree[p] ELSE index[p]]
  <2>1. CASE {p \in Paths : head[p] # added[p]} \subseteq paths
    <3>1. index' = added /\ pub' = [pub EXCEPT !.pc = "commit"] /\ UNCHANGED <<head, tree>> /\ pub.pc = "stage"
      BY <1>6, <2>1 DEF Stage
    <3>2. pub'.pc = "commit" /\ pub'.candidate = pub.candidate
      BY <1>1, <3>1 DEF PubTyped
    <3>3. \A p \in Paths : added[p] = IF p \in paths THEN tree[p] ELSE head[p]
      BY <2>1
    <3> QED
      BY <1>1, <3>1, <3>2, <3>3 DEF Publishing
  <2> QED
    BY <1>3, <1>6, <2>1 DEF Stage
<1>7. CASE Commit
  <2>1. pub'.pc = "receipt"
    BY <1>1, <1>7 DEF Commit, PubTyped
  <2> QED
    BY <2>1 DEF Publishing
<1> QED
  BY <1>2, <1>3, <1>4, <1>5, <1>6, <1>7, PubKept
     DEF Next, PubNext, CommitFails, RecordReceipt, CrashPub

LEMMA PublicationInit ==
  Init => FromHead /\ MovedOn /\ CommittedOnce /\ Publishing /\ PublishedWasValidated
BY DEF Init, Fresh, Rest, IdlePub, FromHead, MovedOn, CommittedOnce, Publishing, PublishedWasValidated

LEMMA AlwaysFromHead == Spec => []FromHead
BY PublicationInit, FromHeadNext, AlwaysTyped, PTL DEF Spec

(* No candidate is committed twice, not after a crash between a commit and *)
(* its receipt, nor whatever is edited and staged meanwhile, unless a      *)
(* commit in between touched its paths or the first held nothing of it.    *)
THEOREM CommitsAreNew == Spec => []CommittedOnce
BY PublicationInit, MovedOnNext, CommittedOnceNext, AlwaysFromHead, AlwaysTyped, PTL DEF Spec

(* What is committed while nobody else writes the files is what the        *)
(* candidate makes of HEAD.                                                *)
LEMMA CommitIsPublished ==
  ASSUME PubTyped, FromHead, Publishing, Commit
  PROVE  pub.candidate \in green /\ Committed.content = Outcome(pub.candidate)
<1> DEFINE diff == pub.candidate
           paths == DOMAIN diff
           written == {q \in Paths : index[q] # head[q]}
<1>1. pub.pc = "commit" /\ diff \in Diffs
  BY DEF Commit, PubTyped
<1>2. paths \subseteq Paths
  BY <1>1, DiffIsOfPaths
<1>3. \A p \in paths : diff[p][1] = head[p] /\ diff[p][3] = index[p]
  BY <1>1, <1>2 DEF FromHead, Publishing
<1>4. \A p \in Paths : p \notin paths => index[p] = head[p]
  BY <1>1 DEF Publishing
<1>5. Committed.content = [p \in written |-> index[p]]
  BY DEF Committed
<1>6. diff \in green
  BY <1>1 DEF Publishing
<1> HIDE DEF diff
<1>7. written = {q \in paths : diff[q][3] # diff[q][1]}
  BY <1>2, <1>3, <1>4
<1>8. \A p \in written : index[p] = diff[p][3]
  BY <1>3, <1>7
<1>9. Committed.content = Outcome(diff)
  BY <1>5, <1>7, <1>8 DEF Outcome
<1> QED
  BY <1>6, <1>9 DEF diff

LEMMA PublishedNext ==
  Typed /\ FromHead /\ Publishing /\ PublishedWasValidated /\ [Next]_vars => PublishedWasValidated'
<1> SUFFICES ASSUME Typed, FromHead, Publishing, PublishedWasValidated, [Next]_vars
             PROVE  PublishedWasValidated'
  OBVIOUS
<1>1. FilesTyped /\ PubTyped /\ ObservationTyped /\ green \subseteq green'
  BY GreenGrows DEF Typed
<1>2. CASE ~Commit
  <2>1. UNCHANGED commits
    BY <1>2, MostKeepCommits
  <2> QED
    BY <1>1, <2>1 DEF PublishedWasValidated
<1>3. CASE Commit
  <2>1. pub.candidate \in green' /\ Committed.content = Outcome(pub.candidate)
    BY <1>1, <1>3, CommitIsPublished
  <2>2. /\ Len(commits) \in Nat /\ Len(commits') = Len(commits) + 1
        /\ commits'[Len(commits) + 1] = Committed
        /\ \A i \in 1..Len(commits) : commits'[i] = commits[i]
    BY <1>1, <1>3, CommitIsAppended
  <2> SUFFICES ASSUME NEW i \in 1..Len(commits')
               PROVE  \E diff \in green' : commits'[i].content = Outcome(diff)
    BY DEF PublishedWasValidated, Outcome
  <2>3. CASE i = Len(commits) + 1
    BY <2>1, <2>2, <2>3
  <2>4. CASE i # Len(commits) + 1
    <3>1. i \in 1..Len(commits) /\ commits'[i] = commits[i]
      BY <2>2, <2>4
    <3> QED
      BY <1>1, <3>1 DEF PublishedWasValidated
  <2> QED
    BY <2>3, <2>4
<1> QED
  BY <1>2, <1>3

(* If nobody else writes the files while a publication is under way, every *)
(* commit makes of HEAD exactly what a diff does that a validator found no *)
(* error in.                                                               *)
THEOREM PublishedAreValidated ==
  Spec /\ [][QuietPublication]_vars => []PublishedWasValidated
<1>1. Typed /\ Validated /\ FromHead /\ Publishing /\ PublishedWasValidated
        /\ [Next]_vars /\ [QuietPublication]_vars
        => Publishing' /\ PublishedWasValidated'
  BY PublishingNext, PublishedNext
<1> QED
  BY <1>1, PublicationInit, AlwaysTyped, AlwaysValidated, AlwaysFromHead, PTL DEF Spec

=============================================================================
