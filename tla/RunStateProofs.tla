--------------------------- MODULE RunStateProofs ---------------------------
(* Theorems about RunState, for any constants.                             *)
EXTENDS RunState, FiniteSetTheorems, TLAPS

(* What every plan of a run keeps, superseded ones included: it has the    *)
(* steps it was created with, in their order, and a completed one is       *)
(* proved.                                                                 *)
Orderly(plan) ==
  /\ plan \in Plan
  /\ \A s \in StepNames :
       plan.steps[s].status = "absent"
         <=> s \notin PlanSteps(plan.phase, plan.requireExport, plan.smoke)
  /\ \A s, t \in StepNames :
       StepRank[s] < StepRank[t] /\ plan.steps[t].status \notin {"absent", "pending"}
         => plan.steps[s].status \in {"absent", "succeeded"}
  /\ plan.completed => Proved(plan)

LEMMA StepsAreRanked ==
  /\ StepNames = DOMAIN StepRank
  /\ \A s \in StepNames : StepRank[s] \in Nat
  /\ \A s \in StepNames \ {"validation"} : StepRank[s] < StepRank["validation"]
BY DEF StepNames, StepRank

LEMMA NewPlanOrderly ==
  ASSUME NEW input \in PlanInputs
  PROVE  Orderly(PlanFromInput(input))
<1> DEFINE plan == PlanFromInput(input)
<1>1. plan \in Plan
  BY DEF PlanFromInput, Plan, PlanInputs, StepState, StepStatuses
<1>2. ~plan.completed
  BY DEF PlanFromInput
<1>3. /\ plan.phase = input.phase
      /\ plan.requireExport = input.requireExport
      /\ plan.smoke = input.smoke
  BY DEF PlanFromInput
<1>4. \A s \in StepNames :
        plan.steps[s].status =
          IF s \in PlanSteps(input.phase, input.requireExport, input.smoke)
          THEN "pending" ELSE "absent"
  BY DEF PlanFromInput
<1> QED
  BY <1>1, <1>2, <1>3, <1>4 DEF Orderly

(* The steps of a plan are all done when the plan may complete, the smoke  *)
(* step too: the validation that follows it cannot succeed before it.      *)
LEMMA DoneStepsSucceeded ==
  ASSUME NEW plan, Orderly(plan), StepsDone(plan),
         NEW s \in PlanSteps(plan.phase, plan.requireExport, plan.smoke)
  PROVE  /\ plan.steps[s].status = "succeeded"
         /\ plan.steps[s].evidence # Nil
         /\ plan.steps[s].evidence.paths = plan.paths
<1>1. s \in StepNames /\ "validation" \in StepNames
  BY DEF PlanSteps, StepNames
<1>2. "validation" \in PlanSteps(plan.phase, plan.requireExport, plan.smoke)
  BY DEF PlanSteps
<1>3. plan.steps["validation"].status = "succeeded"
  BY <1>1, <1>2 DEF Orderly, StepsDone
<1>4. s = "smoke" => plan.steps[s].status # "pending"
  <2>1. StepRank["smoke"] < StepRank["validation"] /\ "smoke" \in StepNames
    BY DEF StepRank, StepNames
  <2> QED
    BY <1>1, <1>3, <2>1 DEF Orderly
<1> QED
  BY <1>1, <1>4 DEF Orderly, StepsDone

LEMMA CompletedOrderly ==
  ASSUME NEW plan, Orderly(plan), CanComplete(plan), NEW candidate \in Candidates
  PROVE  Orderly(CompletedWith(plan, candidate))
<1> DEFINE done == CompletedWith(plan, candidate)
<1>1. /\ done \in Plan
      /\ done.phase = plan.phase /\ done.requireExport = plan.requireExport
      /\ done.smoke = plan.smoke /\ done.paths = plan.paths
      /\ done.steps = plan.steps /\ done.backup = plan.backup
      /\ done.completed /\ done.candidate = candidate
  BY DEF CompletedWith, Orderly, Plan
<1>2. Proved(done)
  BY <1>1, DoneStepsSucceeded, NilIsNoData DEF CanComplete, Proved
<1> QED
  BY <1>1, <1>2 DEF Orderly

(* No step of a proved plan can be recorded again. *)
LEMMA ProvedStepsAreFinal ==
  ASSUME NEW plan, Orderly(plan), Proved(plan), NEW name \in StepNames,
         plan.steps[name].status \in {"pending", "running"}
  PROVE  FALSE
BY DEF Orderly, Proved

LEMMA RecordedOrderly ==
  ASSUME NEW plan, Orderly(plan), NEW name \in StepNames,
         NEW status \in StepStatuses \ {"absent", "pending"},
         NEW evidence \in StepEvidence \cup {Nil},
         CanRecordStep(plan, name, status)
  PROVE  Orderly(StepRecorded(plan, name, status, evidence))
<1> DEFINE state == [status |-> status, evidence |-> evidence]
           next  == StepRecorded(plan, name, status, evidence)
<1>0. plan \in Plan /\ plan.steps \in [StepNames -> StepState] /\ state \in StepState
  BY DEF Orderly, Plan, StepState
<1>1. next.steps = [plan.steps EXCEPT ![name] = state]
  BY <1>0 DEF StepRecorded, Plan
<1>2. /\ next \in Plan
      /\ next.phase = plan.phase /\ next.requireExport = plan.requireExport
      /\ next.smoke = plan.smoke /\ next.completed = plan.completed
  BY <1>0, <1>1 DEF StepRecorded, Plan
<1>3. ~plan.completed
  BY ProvedStepsAreFinal DEF Orderly, CanRecordStep
<1>4. \A s \in StepNames : next.steps[s] = IF s = name THEN state ELSE plan.steps[s]
  BY <1>0, <1>1
<1>5. plan.steps[name].status \in {"pending", "running"} /\ PriorStepsDone(plan, name)
  BY DEF CanRecordStep
<1>6. \A s \in StepNames :
        next.steps[s].status = "absent"
          <=> s \notin PlanSteps(next.phase, next.requireExport, next.smoke)
  BY <1>2, <1>4, <1>5 DEF Orderly
<1>7. ASSUME NEW s \in StepNames, NEW t \in StepNames, StepRank[s] < StepRank[t],
             next.steps[t].status \notin {"absent", "pending"}
      PROVE  next.steps[s].status \in {"absent", "succeeded"}
  <2>1. s # t
    BY <1>7, StepsAreRanked
  <2>2. CASE t = name
    BY <2>1, <2>2, <1>4, <1>5, <1>7 DEF PriorStepsDone
  <2>3. CASE t # name /\ s # name
    BY <2>3, <1>4, <1>7 DEF Orderly
  <2>4. CASE t # name /\ s = name
    BY <2>4, <1>4, <1>5, <1>7 DEF Orderly
  <2> QED
    BY <2>2, <2>3, <2>4
<1> QED
  BY <1>2, <1>3, <1>6, <1>7 DEF Orderly

LEMMA BoundOrderly ==
  ASSUME NEW plan, Orderly(plan), NEW backup \in Backups, CanBind(plan, backup)
  PROVE  Orderly(Bound(plan, backup))
<1> DEFINE next == Bound(plan, backup)
<1>1. /\ next \in Plan
      /\ next.phase = plan.phase /\ next.requireExport = plan.requireExport
      /\ next.smoke = plan.smoke /\ next.paths = plan.paths
      /\ next.steps = plan.steps /\ next.completed = plan.completed
      /\ next.candidate = plan.candidate /\ next.backup = backup
  BY DEF Bound, Orderly, Plan
<1>2. next.completed => Proved(next)
  BY <1>1, NilIsNoData DEF Orderly, Proved
<1> QED
  BY <1>1, <1>2 DEF Orderly

LEMMA ResumedOrderly ==
  ASSUME NEW plan, Orderly(plan), CanResume(plan)
  PROVE  Orderly(Resumed(plan))
<1> DEFINE next == Resumed(plan)
<1>1. plan \in Plan /\ plan.steps \in [StepNames -> StepState]
  BY DEF Orderly, Plan
<1>2. \A s \in StepNames : next.steps[s] =
        IF plan.steps[s].status = "unavailable"
        THEN [status |-> "pending", evidence |-> Nil]
        ELSE plan.steps[s]
  BY <1>1 DEF Resumed, Plan
<1>3. /\ next \in Plan
      /\ next.phase = plan.phase /\ next.requireExport = plan.requireExport
      /\ next.smoke = plan.smoke /\ ~next.completed
  BY <1>1 DEF Resumed, Plan, CanResume, StepState, StepStatuses
<1>4. \A s \in StepNames :
        next.steps[s].status = "absent"
          <=> s \notin PlanSteps(next.phase, next.requireExport, next.smoke)
  BY <1>2, <1>3 DEF Orderly
<1>5. ASSUME NEW s \in StepNames, NEW t \in StepNames, StepRank[s] < StepRank[t],
             next.steps[t].status \notin {"absent", "pending"}
      PROVE  next.steps[s].status \in {"absent", "succeeded"}
  <2>1. plan.steps[t].status \notin {"absent", "pending"}
    BY <1>2, <1>5
  <2>2. plan.steps[s].status \in {"absent", "succeeded"}
    BY <2>1, <1>5 DEF Orderly
  <2> QED
    BY <2>2, <1>2
<1> QED
  BY <1>3, <1>4, <1>5 DEF Orderly
-----------------------------------------------------------------------------
(* What every run keeps. *)
Sound(run) ==
  /\ run \in Run
  /\ run.allowedActions = ActionsFor(run.status, run.phase)
  /\ run.status = "completed" <=> run.phase = "completed"
  /\ \A plan \in Plans(run) :
       Orderly(plan) /\ PhaseRank[plan.phase] <= PhaseRank[run.phase]
  /\ \A phase \in CheckpointPhases : PhaseRank[phase] < PhaseRank[run.phase] =>
       \E plan \in Plans(run) : plan.phase = phase /\ Proved(plan)
  /\ Backed(run)

LEMMA PhasesAreRanked ==
  /\ CheckpointPhases \subseteq Phases
  /\ \A p \in Phases : PhaseRank[p] \in Nat
  /\ \A p, q \in Phases : PhaseRank[p] = PhaseRank[q] => p = q
BY DEF Phases, CheckpointPhases, PhaseRank

LEMMA ActionsForType ==
  ASSUME NEW status \in Statuses, NEW phase \in Phases
  PROVE  ActionsFor(status, phase) \in SUBSET Actions
BY DEF ActionsFor, Actions, Phases, PhaseRecordAction, ActionNextPhase

(* Recording a phase leads to the phase just after it. *)
LEMMA ProgressIsByOne ==
  ASSUME NEW phase \in Phases, NEW action \in ActionsFor("active", phase)
  PROVE  /\ action \in DOMAIN ActionNextPhase
         /\ ActionNextPhase[action] \in Phases
         /\ PhaseRank[ActionNextPhase[action]] = PhaseRank[phase] + 1
BY DEF ActionsFor, Phases, PhaseRecordAction, ActionNextPhase, PhaseRank

(* An operation that leaves plans, phase and evidence alone. *)
LEMMA SamePlansSound ==
  ASSUME NEW run, Sound(run), NEW next \in Run,
         next.plan = run.plan, next.history = run.history,
         next.phase = run.phase, next.evidence = run.evidence,
         next.strategy = run.strategy,
         next.allowedActions = ActionsFor(next.status, next.phase),
         next.status = "completed" <=> next.phase = "completed"
  PROVE  Sound(next)
BY DEF Sound, Plans, Backed

(* An operation on the current plan that keeps it orderly and proved. *)
LEMMA SavedPlanSound ==
  ASSUME NEW run, Sound(run), run.plan # Nil,
         NEW plan, Orderly(plan), plan.phase = run.plan.phase,
         Proved(run.plan) => Proved(plan)
  PROVE  Sound([run EXCEPT !.plan = plan])
<1> DEFINE next == [run EXCEPT !.plan = plan]
<1>1. /\ next \in Run
      /\ next.plan = plan /\ next.history = run.history /\ next.phase = run.phase
      /\ next.status = run.status /\ next.allowedActions = run.allowedActions
      /\ next.evidence = run.evidence /\ next.strategy = run.strategy
  BY DEF Sound, Run, Orderly
<1>2. plan # Nil
  BY NilIsNoRecord DEF Orderly
<1>3. Plans(next) = run.history \cup {plan} /\ Plans(run) = run.history \cup {run.plan}
  BY <1>1, <1>2 DEF Plans
<1>4. \A p \in Plans(next) : Orderly(p) /\ PhaseRank[p.phase] <= PhaseRank[next.phase]
  BY <1>1, <1>3 DEF Sound
<1>5. \A phase \in CheckpointPhases : PhaseRank[phase] < PhaseRank[next.phase] =>
        \E p \in Plans(next) : p.phase = phase /\ Proved(p)
  BY <1>1, <1>3 DEF Sound
<1> QED
  BY <1>1, <1>4, <1>5 DEF Sound, Backed

LEMMA BegunSound ==
  ASSUME NEW run, Sound(run), NEW input \in PlanInputs, CanBegin(run, input)
  PROVE  Sound(Begun(run, input))
<1>1. CASE run.plan # Nil /\ SameIdentity(run.plan, input)
  BY <1>1 DEF Begun
<1>2. CASE ~(run.plan # Nil /\ SameIdentity(run.plan, input))
  <2> DEFINE plan == PlanFromInput(input)
             next == [run EXCEPT !.history = Plans(run), !.plan = plan]
  <2>1. Begun(run, input) = next
    BY <1>2 DEF Begun
  <2>2. Orderly(plan) /\ plan \in Plan /\ plan # Nil /\ plan.phase = run.phase
    BY NewPlanOrderly, NilIsNoRecord DEF Orderly, CanBegin, ValidPlanInput, PlanFromInput
  <2>3. Plans(run) \in SUBSET Plan
    BY DEF Sound, Orderly
  <2>4. /\ next \in Run
        /\ next.plan = plan /\ next.history = Plans(run) /\ next.phase = run.phase
        /\ next.status = run.status /\ next.allowedActions = run.allowedActions
        /\ next.evidence = run.evidence /\ next.strategy = run.strategy
    BY <2>2, <2>3 DEF Sound, Run
  <2>5. Plans(next) = Plans(run) \cup {plan}
    BY <2>2, <2>4 DEF Plans
  <2>6. PhaseRank[plan.phase] <= PhaseRank[next.phase]
    BY <2>2, <2>4, PhasesAreRanked DEF Sound, Run
  <2>7. Sound(next)
    BY <2>2, <2>4, <2>5, <2>6 DEF Sound, Backed
  <2> QED
    BY <2>1, <2>7
<1> QED
  BY <1>1, <1>2

(* Evidence only grows, so what backs a receipt stays where it was. *)
LEMMA AppendBacked ==
  ASSUME NEW run, run \in Run, Backed(run),
         NEW next, next.strategy = run.strategy, NEW e \in Evidence,
         next.evidence = Append(run.evidence, e),
         e.kind = "checkpoint_commit" =>
           /\ run.strategy = "single" => e.phase = "report"
           /\ \E j \in 1..Len(run.evidence) :
                /\ run.evidence[j].kind = "validation"
                /\ run.evidence[j].validation = e.validation
                /\ run.evidence[j].candidate = e.candidate
                /\ run.evidence[j].paths = e.paths
                /\ run.evidence[j].target = e.target
  PROVE  Backed(next)
<1> DEFINE log == run.evidence
           n   == Len(log)
<1>1. log \in Seq(Evidence) /\ n \in Nat
  BY DEF Run
<1>2. /\ Len(next.evidence) = n + 1
      /\ \A k \in 1..n : next.evidence[k] = log[k]
      /\ next.evidence[n + 1] = e
  BY <1>1
<1>3. ASSUME NEW i \in 1..(n + 1), next.evidence[i].kind = "checkpoint_commit"
      PROVE  /\ next.strategy = "single" => next.evidence[i].phase = "report"
             /\ \E j \in 1..(i - 1) :
                  /\ next.evidence[j].kind = "validation"
                  /\ next.evidence[j].validation = next.evidence[i].validation
                  /\ next.evidence[j].candidate = next.evidence[i].candidate
                  /\ next.evidence[j].paths = next.evidence[i].paths
                  /\ next.evidence[j].target = next.evidence[i].target
  <2>1. CASE i = n + 1
    BY <2>1, <1>1, <1>2, <1>3
  <2>2. CASE i \in 1..n
    <3>1. /\ run.strategy = "single" => log[i].phase = "report"
          /\ \E j \in 1..(i - 1) :
               /\ log[j].kind = "validation"
               /\ log[j].validation = log[i].validation
               /\ log[j].candidate = log[i].candidate
               /\ log[j].paths = log[i].paths
               /\ log[j].target = log[i].target
      BY <2>2, <1>2, <1>3 DEF Backed
    <3>2. \A j \in 1..(i - 1) : j \in 1..n
      BY <2>2, <1>1
    <3> QED
      BY <3>1, <3>2, <2>2, <1>2
  <2> QED
    BY <2>1, <2>2, <1>1, <1>3
<1> QED
  BY <1>2, <1>3 DEF Backed

LEMMA WithEvidenceBacked ==
  ASSUME NEW run, Sound(run), NEW input \in RecordInputs,
         NEW next, next.strategy = run.strategy,
         next.evidence = WithEvidence(run, input)
  PROVE  Backed(next) /\ next.evidence \in Seq(Evidence)
<1>1. CASE input.kind # "validation"
  BY <1>1 DEF WithEvidence, Sound, Backed, Run
<1>2. CASE input.kind = "validation"
  <2> DEFINE e == [kind |-> "validation", phase |-> run.phase,
                   validation |-> input.validation, candidate |-> input.candidate,
                   paths |-> input.paths, target |-> input.target]
  <2>1. e \in Evidence /\ e.kind # "checkpoint_commit"
    BY DEF Evidence, RecordInputs, Sound, Run
  <2>2. next.evidence = Append(run.evidence, e) /\ run \in Run /\ Backed(run)
    BY <1>2 DEF WithEvidence, Sound
  <2>3. Backed(next)
    BY <2>1, <2>2, AppendBacked
  <2>4. next.evidence \in Seq(Evidence)
    BY <2>1, <2>2 DEF Run
  <2> QED
    BY <2>3, <2>4
<1> QED
  BY <1>1, <1>2

LEMMA ProgressSound ==
  ASSUME NEW run, Sound(run), NEW input \in RecordInputs,
         run.status = "active", input.action \in run.allowedActions,
         run.phase \in CheckpointPhases => AuthorizesProgress(run, input)
  PROVE  LET next == ActionNextPhase[input.action] IN
         Sound([run EXCEPT
           !.evidence = WithEvidence(run, input), !.phase = next,
           !.status = StatusAfter(next),
           !.allowedActions = ActionsFor(StatusAfter(next), next)])
<1> DEFINE phase == ActionNextPhase[input.action]
           next  == [run EXCEPT
             !.evidence = WithEvidence(run, input), !.phase = phase,
             !.status = StatusAfter(phase),
             !.allowedActions = ActionsFor(StatusAfter(phase), phase)]
<1>1. run \in Run /\ run.phase \in Phases
  BY DEF Sound, Run
<1>2. phase \in Phases /\ PhaseRank[phase] = PhaseRank[run.phase] + 1
  BY <1>1, ProgressIsByOne DEF Sound
<1>3. StatusAfter(phase) \in Statuses /\ (StatusAfter(phase) = "completed" <=> phase = "completed")
  BY DEF StatusAfter, Statuses
<1>4. /\ next.plan = run.plan /\ next.history = run.history
      /\ next.strategy = run.strategy /\ next.phase = phase
      /\ next.status = StatusAfter(phase)
      /\ next.allowedActions = ActionsFor(StatusAfter(phase), phase)
      /\ next.evidence = WithEvidence(run, input)
  BY <1>1 DEF Run
<1>5. Backed(next) /\ next.evidence \in Seq(Evidence)
  BY <1>4, WithEvidenceBacked
<1>6. next \in Run
  <2>1. ActionsFor(StatusAfter(phase), phase) \in SUBSET Actions
    BY <1>2, <1>3, ActionsForType
  <2> QED
    BY <2>1, <1>1, <1>2, <1>3, <1>4, <1>5 DEF Run
<1>7. Plans(next) = Plans(run)
  BY <1>4 DEF Plans
<1>8. \A plan \in Plans(run) : Orderly(plan) /\ PhaseRank[plan.phase] <= PhaseRank[phase]
  <2>1. ASSUME NEW plan \in Plans(run)
        PROVE  PhaseRank[plan.phase] <= PhaseRank[phase]
    <3>1. plan.phase \in Phases /\ PhaseRank[plan.phase] <= PhaseRank[run.phase]
      BY PhasesAreRanked DEF Sound, Orderly, Plan
    <3> QED
      BY <3>1, <1>1, <1>2, PhasesAreRanked
  <2> QED
    BY <2>1 DEF Sound
<1>9. ASSUME NEW passed \in CheckpointPhases, PhaseRank[passed] < PhaseRank[phase]
      PROVE  \E plan \in Plans(run) : plan.phase = passed /\ Proved(plan)
  <2>1. CASE PhaseRank[passed] < PhaseRank[run.phase]
    BY <2>1 DEF Sound
  <2>2. CASE passed = run.phase
    <3>1. PICK plan \in Plans(run) : plan.phase = run.phase /\ PlanComplete(plan)
      BY <2>2, <1>9 DEF AuthorizesProgress, PlanFor
    <3> QED
      BY <3>1, <2>2 DEF Sound, Orderly, PlanComplete
  <2> QED
    BY <2>1, <2>2, <1>1, <1>2, <1>9, PhasesAreRanked
<1> QED
  BY <1>3, <1>4, <1>5, <1>6, <1>7, <1>8, <1>9 DEF Sound

LEMMA ReceiptedSound ==
  ASSUME NEW run, Sound(run), NEW input \in CheckpointInputs,
         input.strategy # "none", Authorized(run, input)
  PROVE  Sound(Receipted(run, input))
<1> DEFINE e    == [kind |-> "checkpoint_commit", phase |-> run.phase,
                    validation |-> input.validation, candidate |-> input.candidate,
                    paths |-> input.paths, target |-> input.target]
           next == [run EXCEPT !.evidence = Append(@, e)]
<1>0. Receipted(run, input) = next
  BY DEF Receipted
<1>1. run \in Run /\ e \in Evidence /\ run.evidence \in Seq(Evidence)
  BY DEF Sound, Run, Evidence, CheckpointInputs
<1>2. /\ next \in Run
      /\ next.plan = run.plan /\ next.history = run.history /\ next.phase = run.phase
      /\ next.status = run.status /\ next.allowedActions = run.allowedActions
      /\ next.strategy = run.strategy /\ next.evidence = Append(run.evidence, e)
  <2> HIDE DEF e
  <2>1. Append(run.evidence, e) \in Seq(Evidence)
    BY <1>1
  <2> QED
    BY <1>1, <2>1 DEF Run
<1>3. PICK i \in Newest(run, input.validation) : Vouches(run.evidence[i], input)
  BY DEF Authorized
<1>4. /\ i \in 1..Len(run.evidence)
      /\ run.evidence[i].kind = "validation"
      /\ run.evidence[i].validation = input.validation
  BY <1>3 DEF Newest
<1>5. run.strategy = "single" => e.phase = "report"
  BY DEF Authorized
<1>6. Backed(next)
  <2>1. /\ e.validation = input.validation /\ e.candidate = input.candidate
        /\ e.paths = input.paths /\ e.target = input.target
    OBVIOUS
  <2>2. \E j \in 1..Len(run.evidence) :
          /\ run.evidence[j].kind = "validation"
          /\ run.evidence[j].validation = e.validation
          /\ run.evidence[j].candidate = e.candidate
          /\ run.evidence[j].paths = e.paths
          /\ run.evidence[j].target = e.target
    BY <1>3, <1>4, <2>1 DEF Vouches
  <2>3. Backed(run)
    BY DEF Sound
  <2> HIDE DEF e, next
  <2> QED
    BY <1>1, <1>2, <1>5, <2>2, <2>3, AppendBacked
<1>7. Sound(next)
  BY <1>2, <1>6 DEF Sound, Plans
<1> QED
  BY <1>0, <1>7

LEMMA CreatedSound ==
  ASSUME NEW targetMajor \in Majors, NEW strategy \in Strategies, NEW scope \in Scopes
  PROVE  Sound(NewRun(targetMajor, strategy, scope))
<1> DEFINE run == NewRun(targetMajor, strategy, scope)
<1>1. "active" \in Statuses /\ "git_safety" \in Phases
  BY DEF Statuses, Phases
<1>2. ActionsFor("active", "git_safety") \in SUBSET Actions
  BY <1>1, ActionsForType
<1>3. run \in Run
  BY <1>1, <1>2 DEF NewRun, Run
<1>4. Plans(run) = {} /\ Backed(run)
  BY DEF NewRun, Plans, Backed
<1>5. \A phase \in CheckpointPhases : ~(PhaseRank[phase] < PhaseRank[run.phase])
  BY DEF NewRun, CheckpointPhases, PhaseRank
<1> QED
  BY <1>3, <1>4, <1>5 DEF Sound, NewRun

-----------------------------------------------------------------------------
(* The files are sound, whoever wrote them. *)
FilesSound ==
  /\ runs \in [RunIds -> Run \cup {Nil}]
  /\ \A id \in RunIds : Exists(id) => Sound(runs[id])

(* The inductive invariant of the store. *)
Inv == FilesSound /\ AtMostOneLiveRun

(* What every operation does, and all that soundness asks of it: it        *)
(* replaces one run file by a sound run; if that run becomes live, it was, *)
(* or no run was.                                                          *)
WritesSound(id) ==
  \E run \in Run :
    /\ Sound(run)
    /\ Save(id, run)
    /\ run.status \in Live =>
         \/ Exists(id) /\ runs[id].status \in Live
         \/ NoLiveRun

LEMMA InitInv == Init => Inv
BY DEF Init, Inv, FilesSound, Exists, AtMostOneLiveRun

LEMMA WrittenInv ==
  ASSUME Inv, NEW id \in RunIds, WritesSound(id)
  PROVE  Inv'
<1>1. PICK run \in Run :
        /\ Sound(run)
        /\ Save(id, run)
        /\ run.status \in Live =>
             \/ Exists(id) /\ runs[id].status \in Live
             \/ NoLiveRun
  BY DEF WritesSound
<1>2. runs' \in [RunIds -> Run \cup {Nil}]
  BY <1>1 DEF Save, Inv, FilesSound
<1>3. \A other \in RunIds : runs'[other] = IF other = id THEN run ELSE runs[other]
  BY <1>1 DEF Save, Inv, FilesSound
<1>4. \A other \in RunIds : Exists(other)' => Sound(runs'[other])
  BY <1>1, <1>3 DEF Inv, FilesSound, Exists
<1>5. AtMostOneLiveRun'
  BY <1>1, <1>3 DEF Inv, AtMostOneLiveRun, Exists, NoLiveRun
<1> QED
  BY <1>2, <1>4, <1>5 DEF Inv, FilesSound, Sound, Backed, Plans, Orderly

LEMMA SaveSound ==
  ASSUME NEW id \in RunIds, NEW run, Sound(run), Save(id, run),
         run.status \in Live =>
           \/ Exists(id) /\ runs[id].status \in Live
           \/ NoLiveRun
  PROVE  WritesSound(id)
BY DEF WritesSound, Sound

LEMMA CurrentPlanOrderly ==
  ASSUME FilesSound, NEW id \in RunIds, Exists(id), runs[id].plan # Nil
  PROVE  Orderly(runs[id].plan)
BY DEF FilesSound, Sound, Plans

(* What an operation on the current plan does: the plan stays orderly and  *)
(* in its phase, and if it was completed it stays so, with the same        *)
(* identity, backup and steps.                                             *)
RewritesPlan(id) ==
  /\ Exists(id)
  /\ runs[id].plan # Nil
  /\ \E plan \in Plan :
       /\ Orderly(plan)
       /\ SavePlan(id, plan)
       /\ plan.phase = runs[id].plan.phase
       /\ runs[id].plan.completed =>
            /\ plan.completed /\ SameIdentity(plan, runs[id].plan)
            /\ plan.backup = runs[id].plan.backup /\ plan.steps = runs[id].plan.steps

LEMMA PlanNextRewrites ==
  ASSUME FilesSound, NEW id \in RunIds, PlanNext(id)
  PROVE  (\E input \in PlanInputs : BeginCheckpointPlan(id, input)) \/ RewritesPlan(id)
<1> DEFINE run == runs[id]
<1>1. ASSUME NEW name \in StepNames, NEW status \in StepStatuses \ {"absent", "pending"},
             NEW evidence \in StepEvidence \cup {Nil},
             RecordCheckpointStep(id, name, status, evidence)
      PROVE  RewritesPlan(id)
  <2> DEFINE plan == run.plan
             next == StepRecorded(plan, name, status, evidence)
  <2>1. Exists(id) /\ plan # Nil /\ CanRecordStep(plan, name, status) /\ SavePlan(id, next)
    BY <1>1 DEF RecordCheckpointStep, CanRecordStep
  <2>2. Orderly(plan)
    BY <2>1, CurrentPlanOrderly
  <2>3. Orderly(next)
    BY <2>1, <2>2, RecordedOrderly
  <2>4. ~plan.completed
    BY <2>1, <2>2, ProvedStepsAreFinal DEF CanRecordStep, Orderly
  <2>5. next \in Plan /\ next.phase = plan.phase
    BY <2>2, <2>3 DEF StepRecorded, Orderly, Plan
  <2> HIDE DEF next
  <2> QED
    BY <2>1, <2>3, <2>4, <2>5 DEF RewritesPlan
<1>2. ASSUME NEW backup \in Backups, BindCheckpointBackup(id, backup)
      PROVE  RewritesPlan(id)
  <2> DEFINE plan == run.plan
             next == Bound(plan, backup)
  <2>1. Exists(id) /\ plan # Nil /\ CanBind(plan, backup) /\ SavePlan(id, next)
    BY <1>2 DEF BindCheckpointBackup, CanBind
  <2>2. Orderly(plan)
    BY <2>1, CurrentPlanOrderly
  <2>3. Orderly(next)
    BY <2>1, <2>2, BoundOrderly
  <2>4. /\ next \in Plan /\ next.phase = plan.phase
        /\ next.completed = plan.completed /\ SameIdentity(next, plan)
        /\ next.backup = backup /\ next.steps = plan.steps
    BY <2>2, <2>3 DEF Bound, Orderly, Plan, SameIdentity
  <2>5. plan.completed => plan.backup = backup
    BY <2>1, <2>2 DEF CanBind, Orderly, Proved
  <2> HIDE DEF next
  <2> QED
    BY <2>1, <2>3, <2>4, <2>5 DEF RewritesPlan
<1>3. ASSUME ResumeUnavailableCheckpoint(id)
      PROVE  RewritesPlan(id)
  <2> DEFINE plan == run.plan
             next == Resumed(plan)
  <2>1. Exists(id) /\ plan # Nil /\ CanResume(plan) /\ SavePlan(id, next)
    BY <1>3 DEF ResumeUnavailableCheckpoint, CanResume
  <2>2. Orderly(plan) /\ Orderly(next)
    BY <2>1, CurrentPlanOrderly, ResumedOrderly
  <2>3. next \in Plan /\ next.phase = plan.phase /\ ~plan.completed
    BY <2>1, <2>2 DEF Resumed, CanResume, Orderly, Plan
  <2> HIDE DEF next
  <2> QED
    BY <2>1, <2>2, <2>3 DEF RewritesPlan
<1>4. ASSUME NEW candidate \in Candidates, CompleteCheckpointPlan(id, candidate)
      PROVE  RewritesPlan(id)
  <2> DEFINE plan == run.plan
             next == CompletedWith(plan, candidate)
  <2>1. Exists(id) /\ plan # Nil /\ CanComplete(plan) /\ SavePlan(id, next)
    BY <1>4 DEF CompleteCheckpointPlan, CanComplete
  <2>2. Orderly(plan)
    BY <2>1, CurrentPlanOrderly
  <2>3. Orderly(next)
    BY <2>1, <2>2, CompletedOrderly
  <2>4. /\ next \in Plan /\ next.phase = plan.phase
        /\ next.completed /\ SameIdentity(next, plan)
        /\ next.backup = plan.backup /\ next.steps = plan.steps
    BY <2>2, <2>3 DEF CompletedWith, Orderly, Plan, SameIdentity
  <2> HIDE DEF next
  <2> QED
    BY <2>1, <2>3, <2>4 DEF RewritesPlan
<1>5. \A paths \in SUBSET Paths, candidate \in Candidates \cup {Nil} :
        [paths |-> paths, candidate |-> candidate] \in StepEvidence
  BY DEF StepEvidence
<1>6. ASSUME NEW name \in StepNames, RecordCheckpointStep(id, name, "running", Nil)
      PROVE  RewritesPlan(id)
  BY <1>1, <1>6 DEF StepStatuses
<1>7. ASSUME NEW name \in StepNames, NEW status \in {"succeeded", "failed", "unavailable"},
             NEW paths \in SUBSET Paths, NEW candidate \in Candidates \cup {Nil},
             RecordCheckpointStep(id, name, status, [paths |-> paths, candidate |-> candidate])
      PROVE  RewritesPlan(id)
  <2>1. status \in StepStatuses \ {"absent", "pending"}
    BY DEF StepStatuses
  <2> QED
    BY <1>1, <1>5, <1>7, <2>1
<1> QED
  BY <1>2, <1>3, <1>4, <1>6, <1>7 DEF PlanNext

(* An operation on the plan keeps the run sound. *)
LEMMA RewrittenPlanSound ==
  ASSUME FilesSound, NEW id \in RunIds, RewritesPlan(id)
  PROVE  WritesSound(id)
<1>1. Sound(runs[id])
  BY DEF FilesSound, RewritesPlan
<1>2. PICK plan \in Plan :
        /\ Orderly(plan)
        /\ SavePlan(id, plan)
        /\ plan.phase = runs[id].plan.phase
        /\ Proved(runs[id].plan) => Proved(plan)
  BY DEF RewritesPlan, Orderly, Proved
<1> DEFINE next == [runs[id] EXCEPT !.plan = plan]
<1>3. Sound(next)
  BY <1>1, <1>2, SavedPlanSound DEF RewritesPlan
<1>4. next.status = runs[id].status /\ Save(id, next)
  BY <1>1, <1>2 DEF SavePlan, Sound, Run
<1> QED
  BY <1>3, <1>4, SaveSound DEF RewritesPlan

LEMMA BegunWrites ==
  ASSUME FilesSound, NEW id \in RunIds, NEW input \in PlanInputs,
         BeginCheckpointPlan(id, input)
  PROVE  WritesSound(id)
<1>1. Exists(id) /\ Sound(runs[id]) /\ CanBegin(runs[id], input)
  BY DEF BeginCheckpointPlan, FilesSound
<1>2. Sound(Begun(runs[id], input))
  BY <1>1, BegunSound
<1>3. Begun(runs[id], input).status = runs[id].status
  BY <1>1 DEF Begun, Sound, Run
<1> QED
  BY <1>1, <1>2, <1>3, SaveSound DEF BeginCheckpointPlan

LEMMA PlanNextSound ==
  ASSUME FilesSound, NEW id \in RunIds, PlanNext(id)
  PROVE  WritesSound(id)
BY PlanNextRewrites, RewrittenPlanSound, BegunWrites

(* An operation that rewrites only fields no plan, phase or evidence       *)
(* depends on.                                                             *)
LEMMA FieldStepSound ==
  ASSUME FilesSound, NEW id \in RunIds, Exists(id), NEW next \in Run, Save(id, next),
         next.plan = runs[id].plan, next.history = runs[id].history,
         next.phase = runs[id].phase, next.evidence = runs[id].evidence,
         next.strategy = runs[id].strategy,
         next.allowedActions = ActionsFor(next.status, next.phase),
         next.status = "completed" <=> next.phase = "completed",
         next.status \in Live => runs[id].status \in Live
  PROVE  WritesSound(id)
<1>1. Sound(runs[id])
  BY DEF FilesSound
<1>2. Sound(next)
  BY <1>1, SamePlansSound
<1> QED
  BY <1>2, SaveSound

LEMMA RecordSound ==
  ASSUME FilesSound, NEW id \in RunIds, NEW input \in RecordInputs,
         RecordResolution(id, input) \/ RecordProgress(id, input)
  PROVE  WritesSound(id)
<1> DEFINE run == runs[id]
<1>1. Exists(id) /\ Sound(run) /\ run \in Run /\ run.phase \in Phases
  BY DEF RecordResolution, RecordProgress, FilesSound, Sound, Run
<1>2. CASE RecordResolution(id, input)
  <2> DEFINE next == [run EXCEPT
               !.evidence = WithEvidence(run, input), !.status = "active",
               !.allowedActions = ActionsFor("active", run.phase)]
  <2>1. Save(id, next) /\ run.status = "blocked"
    BY <1>2 DEF RecordResolution
  <2>2. /\ next.plan = run.plan /\ next.history = run.history
        /\ next.phase = run.phase /\ next.strategy = run.strategy
        /\ next.evidence = WithEvidence(run, input) /\ next.status = "active"
        /\ next.allowedActions = ActionsFor("active", run.phase)
    BY <1>1 DEF Run
  <2>3. Backed(next) /\ next.evidence \in Seq(Evidence)
    BY <1>1, <2>2, WithEvidenceBacked
  <2>4. "active" \in Statuses /\ ActionsFor("active", run.phase) \in SUBSET Actions
    BY <1>1, ActionsForType DEF Statuses
  <2>5. next \in Run
    BY <1>1, <2>2, <2>3, <2>4 DEF Run
  <2>6. run.phase # "completed"
    BY <1>1, <2>1 DEF Sound
  <2>7. Sound(next)
    BY <1>1, <2>2, <2>3, <2>5, <2>6 DEF Sound, Plans
  <2> QED
    BY <1>1, <2>1, <2>7, SaveSound DEF Live
<1>3. CASE RecordProgress(id, input)
  BY <1>1, <1>3, ProgressSound, SaveSound DEF RecordProgress, Live
<1> QED
  BY <1>2, <1>3

LEMMA RunNextSound ==
  ASSUME FilesSound, NEW id \in RunIds, RunNext(id)
  PROVE  WritesSound(id)
<1> DEFINE run == runs[id]
<1>0. Exists(id) => Sound(run) /\ run \in Run /\ run.phase \in Phases /\ run.status \in Statuses
  BY DEF FilesSound, Sound, Run
<1>1. ASSUME NEW major \in Majors, NEW strategy \in Strategies, NEW scope \in Scopes,
             Create(id, major, strategy, scope)
      PROVE  WritesSound(id)
  BY <1>1, CreatedSound, SaveSound DEF Create
<1>2. ASSUME NEW input \in CheckpointInputs, RecordCheckpoint(id, input)
      PROVE  WritesSound(id)
  <2>1. Exists(id) /\ Sound(Receipted(run, input))
    BY <1>0, <1>2, ReceiptedSound DEF RecordCheckpoint
  <2>2. Receipted(run, input).status = run.status
    BY <1>0, <2>1 DEF Receipted, Run
  <2> QED
    BY <1>2, <2>1, <2>2, SaveSound DEF RecordCheckpoint
<1>3. ASSUME NEW action \in Confirmable, Confirm(id, action)
      PROVE  WritesSound(id)
  <2> DEFINE next == [run EXCEPT !.confirmations = @ \cup {action}]
  <2>1. Exists(id) /\ Save(id, next)
    BY <1>3 DEF Confirm
  <2>2. next \in Run
    BY <1>0, <2>1 DEF Run
  <2> QED
    BY <1>0, <2>1, <2>2, FieldStepSound DEF Sound, Run
<1>4. ASSUME Block(id)
      PROVE  WritesSound(id)
  <2> DEFINE next == [run EXCEPT !.status = "blocked",
                        !.allowedActions = ActionsFor("blocked", run.phase)]
  <2>1. Exists(id) /\ Save(id, next) /\ run.status = "active"
    BY <1>4 DEF Block
  <2>2. ActionsFor("blocked", run.phase) \in SUBSET Actions /\ "blocked" \in Statuses
    BY <1>0, <2>1, ActionsForType DEF Statuses
  <2>3. next \in Run
    BY <1>0, <2>1, <2>2 DEF Run
  <2> QED
    BY <1>0, <2>1, <2>3, FieldStepSound DEF Sound, Run, Live
<1>5. ASSUME ResolveBlock(id)
      PROVE  WritesSound(id)
  <2> DEFINE next == [run EXCEPT !.status = "active",
                        !.allowedActions = ActionsFor("active", run.phase)]
  <2>1. Exists(id) /\ Save(id, next) /\ run.status = "blocked"
    BY <1>5 DEF ResolveBlock
  <2>2. ActionsFor("active", run.phase) \in SUBSET Actions /\ "active" \in Statuses
    BY <1>0, <2>1, ActionsForType DEF Statuses
  <2>3. next \in Run
    BY <1>0, <2>1, <2>2 DEF Run
  <2> QED
    BY <1>0, <2>1, <2>3, FieldStepSound DEF Sound, Run, Live
<1>6. ASSUME Abandon(id)
      PROVE  WritesSound(id)
  <2> DEFINE next == [run EXCEPT !.status = "abandoned", !.allowedActions = {}]
  <2>1. Exists(id) /\ Save(id, next) /\ run.status \in Live
    BY <1>6 DEF Abandon
  <2>2. "abandoned" \in Statuses /\ ActionsFor("abandoned", run.phase) = {}
    BY DEF Statuses, ActionsFor
  <2>3. next \in Run
    BY <1>0, <2>1, <2>2 DEF Run
  <2> QED
    BY <1>0, <2>1, <2>2, <2>3, FieldStepSound DEF Sound, Run, Live
<1>7. ASSUME NEW snapshot \in Snapshots, RecordInventoryBaseline(id, snapshot)
      PROVE  WritesSound(id)
  <2> DEFINE next == [run EXCEPT !.baseline = snapshot]
  <2>1. Exists(id) /\ Save(id, next)
    BY <1>7 DEF RecordInventoryBaseline
  <2>2. next \in Run
    BY <1>0, <2>1 DEF Run
  <2> QED
    BY <1>0, <2>1, <2>2, FieldStepSound DEF Sound, Run
<1>8. ASSUME NEW snapshot \in Snapshots, RecordInventoryFinal(id, snapshot)
      PROVE  WritesSound(id)
  <2> DEFINE next == [run EXCEPT !.final = snapshot]
  <2>1. Exists(id) /\ Save(id, next)
    BY <1>8 DEF RecordInventoryFinal
  <2>2. next \in Run
    BY <1>0, <2>1 DEF Run
  <2> QED
    BY <1>0, <2>1, <2>2, FieldStepSound DEF Sound, Run
<1>9. ASSUME NEW plan \in ContribPlans, RecordContribPlan(id, plan)
      PROVE  WritesSound(id)
  <2> DEFINE next == [run EXCEPT !.contribPlan = plan]
  <2>1. Exists(id) /\ Save(id, next)
    BY <1>9 DEF RecordContribPlan
  <2>2. next \in Run
    BY <1>0, <2>1 DEF Run
  <2> QED
    BY <1>0, <2>1, <2>2, FieldStepSound DEF Sound, Run
<1> QED
  BY <1>1, <1>2, <1>3, <1>4, <1>5, <1>6, <1>7, <1>8, <1>9, RecordSound DEF RunNext
-----------------------------------------------------------------------------
(* What no operation takes back: the completed plans of a run, and the end *)
(* of a finished one.                                                      *)
PlansStand(run, next) ==
  \A plan \in Plans(run) : plan.completed =>
    \E kept \in Plans(next) :
      /\ kept.completed
      /\ SameIdentity(kept, plan)
      /\ kept.backup = plan.backup
      /\ kept.steps = plan.steps

EndStands(run, next) ==
  run.status \notin Live =>
    \A field \in {"status", "phase", "allowedActions", "evidence", "confirmations"} :
      next[field] = run[field]

TakesNothingBack(id) ==
  \E next \in Run :
    /\ Save(id, next)
    /\ Exists(id) => PlansStand(runs[id], next) /\ EndStands(runs[id], next)

(* An operation that leaves the plans alone and asks the run to be live. *)
LEMMA LiveFieldStands ==
  ASSUME FilesSound, NEW id \in RunIds, Exists(id), runs[id].status \in Live,
         NEW next \in Run, Save(id, next),
         next.plan = runs[id].plan, next.history = runs[id].history
  PROVE  TakesNothingBack(id)
<1>1. PlansStand(runs[id], next)
  BY DEF PlansStand, Plans, SameIdentity
<1> QED
  BY <1>1 DEF TakesNothingBack, EndStands

(* An operation on the plan takes nothing back. *)
LEMMA RewrittenPlanStands ==
  ASSUME FilesSound, NEW id \in RunIds, RewritesPlan(id)
  PROVE  TakesNothingBack(id)
<1> DEFINE run == runs[id]
<1>0. PICK plan \in Plan :
        /\ Orderly(plan)
        /\ SavePlan(id, plan)
        /\ run.plan.completed =>
             /\ plan.completed /\ SameIdentity(plan, run.plan)
             /\ plan.backup = run.plan.backup /\ plan.steps = run.plan.steps
  BY DEF RewritesPlan
<1> DEFINE next == [run EXCEPT !.plan = plan]
<1>1. run \in Run /\ plan \in Plan /\ plan # Nil
  BY NilIsNoRecord DEF FilesSound, Sound, RewritesPlan
<1>2. next \in Run /\ Save(id, next)
  BY <1>0, <1>1 DEF SavePlan, Run
<1>3. /\ next.plan = plan /\ next.history = run.history
      /\ next.status = run.status /\ next.phase = run.phase
      /\ next.allowedActions = run.allowedActions
      /\ next.evidence = run.evidence /\ next.confirmations = run.confirmations
  BY <1>1 DEF Run
<1>4. Plans(run) = run.history \cup {run.plan} /\ Plans(next) = run.history \cup {plan}
  BY <1>1, <1>3 DEF Plans, RewritesPlan
<1>5. PlansStand(run, next)
  BY <1>0, <1>4 DEF PlansStand, SameIdentity
<1>6. EndStands(run, next)
  BY <1>3 DEF EndStands
<1> HIDE DEF next
<1> QED
  BY <1>2, <1>5, <1>6 DEF TakesNothingBack

LEMMA BegunStands ==
  ASSUME FilesSound, NEW id \in RunIds, NEW input \in PlanInputs,
         BeginCheckpointPlan(id, input)
  PROVE  TakesNothingBack(id)
<1> DEFINE run == runs[id]
<1>1. Exists(id) /\ Sound(run) /\ CanBegin(run, input) /\ Save(id, Begun(run, input))
  BY DEF BeginCheckpointPlan, FilesSound
<1>2. run.status \in Live /\ run \in Run
  BY <1>1 DEF CanBegin, ValidPlanInput, Live, Sound
<1>3. Begun(run, input) \in Run
  BY <1>1, BegunSound DEF Sound
<1>4. Plans(run) \subseteq Plans(Begun(run, input))
  BY <1>2 DEF Begun, Plans, Run
<1>5. PlansStand(run, Begun(run, input))
  BY <1>4 DEF PlansStand, SameIdentity
<1> QED
  BY <1>1, <1>2, <1>3, <1>5 DEF TakesNothingBack, EndStands

LEMMA PlanNextStands ==
  ASSUME FilesSound, NEW id \in RunIds, PlanNext(id)
  PROVE  TakesNothingBack(id)
BY PlanNextRewrites, RewrittenPlanStands, BegunStands

LEMMA SavedIsRun ==
  ASSUME FilesSound, NEW id \in RunIds, RunNext(id), NEW next, Save(id, next)
  PROVE  next \in Run
<1>1. PICK run \in Run : Save(id, run)
  BY RunNextSound DEF WritesSound
<1> QED
  BY <1>1 DEF Save, FilesSound

LEMMA RunNextStands ==
  ASSUME FilesSound, NEW id \in RunIds, RunNext(id)
  PROVE  TakesNothingBack(id)
<1> DEFINE run == runs[id]
<1>0. Exists(id) => run \in Run
  BY DEF FilesSound, Sound
<1>1. ASSUME NEW major \in Majors, NEW strategy \in Strategies, NEW scope \in Scopes,
             Create(id, major, strategy, scope)
      PROVE  TakesNothingBack(id)
  BY <1>1, SavedIsRun DEF Create, TakesNothingBack
<1>2. ASSUME NEW input \in RecordInputs, RecordResolution(id, input)
      PROVE  TakesNothingBack(id)
  <2> DEFINE next == [run EXCEPT
               !.evidence = WithEvidence(run, input), !.status = "active",
               !.allowedActions = ActionsFor("active", run.phase)]
  <2>1. Exists(id) /\ run.status \in Live /\ Save(id, next)
    BY <1>2 DEF RecordResolution, Live
  <2>2. next.plan = run.plan /\ next.history = run.history
    BY <1>0, <2>1 DEF Run
  <2> HIDE DEF next
  <2> QED
    BY <2>1, <2>2, SavedIsRun, LiveFieldStands
<1>3. ASSUME NEW input \in RecordInputs, RecordProgress(id, input)
      PROVE  TakesNothingBack(id)
  <2> DEFINE after == ActionNextPhase[input.action]
             next == [run EXCEPT
               !.evidence = WithEvidence(run, input), !.phase = after,
               !.status = StatusAfter(after),
               !.allowedActions = ActionsFor(StatusAfter(after), after)]
  <2>1. Exists(id) /\ run.status \in Live /\ Save(id, next)
    BY <1>3 DEF RecordProgress, Live
  <2>2. next.plan = run.plan /\ next.history = run.history
    BY <1>0, <2>1 DEF Run
  <2> HIDE DEF next
  <2> QED
    BY <2>1, <2>2, SavedIsRun, LiveFieldStands
<1>4. ASSUME NEW input \in CheckpointInputs, RecordCheckpoint(id, input)
      PROVE  TakesNothingBack(id)
  <2> DEFINE next == Receipted(run, input)
  <2>1. Exists(id) /\ run.status \in Live /\ Save(id, next)
    BY <1>4 DEF RecordCheckpoint, Authorized, Live
  <2>2. next.plan = run.plan /\ next.history = run.history
    BY <1>0, <2>1 DEF Run, Receipted
  <2> HIDE DEF next
  <2> QED
    BY <2>1, <2>2, SavedIsRun, LiveFieldStands
<1>5. ASSUME NEW action \in Confirmable, Confirm(id, action)
      PROVE  TakesNothingBack(id)
  <2> DEFINE next == [run EXCEPT !.confirmations = @ \cup {action}]
  <2>1. Exists(id) /\ run.status \in Live /\ Save(id, next)
    BY <1>5 DEF Confirm, Live
  <2>2. next.plan = run.plan /\ next.history = run.history
    BY <1>0, <2>1 DEF Run
  <2> HIDE DEF next
  <2> QED
    BY <2>1, <2>2, SavedIsRun, LiveFieldStands
<1>6. ASSUME Block(id)
      PROVE  TakesNothingBack(id)
  <2> DEFINE next == [run EXCEPT !.status = "blocked",
                        !.allowedActions = ActionsFor("blocked", run.phase)]
  <2>1. Exists(id) /\ run.status \in Live /\ Save(id, next)
    BY <1>6 DEF Block, Live
  <2>2. next.plan = run.plan /\ next.history = run.history
    BY <1>0, <2>1 DEF Run
  <2> HIDE DEF next
  <2> QED
    BY <2>1, <2>2, SavedIsRun, LiveFieldStands
<1>7. ASSUME ResolveBlock(id)
      PROVE  TakesNothingBack(id)
  <2> DEFINE next == [run EXCEPT !.status = "active",
                        !.allowedActions = ActionsFor("active", run.phase)]
  <2>1. Exists(id) /\ run.status \in Live /\ Save(id, next)
    BY <1>7 DEF ResolveBlock, Live
  <2>2. next.plan = run.plan /\ next.history = run.history
    BY <1>0, <2>1 DEF Run
  <2> HIDE DEF next
  <2> QED
    BY <2>1, <2>2, SavedIsRun, LiveFieldStands
<1>8. ASSUME Abandon(id)
      PROVE  TakesNothingBack(id)
  <2> DEFINE next == [run EXCEPT !.status = "abandoned", !.allowedActions = {}]
  <2>1. Exists(id) /\ run.status \in Live /\ Save(id, next)
    BY <1>8 DEF Abandon
  <2>2. next.plan = run.plan /\ next.history = run.history
    BY <1>0, <2>1 DEF Run
  <2> HIDE DEF next
  <2> QED
    BY <2>1, <2>2, SavedIsRun, LiveFieldStands
<1>9. ASSUME NEW snapshot \in Snapshots, RecordInventoryBaseline(id, snapshot)
      PROVE  TakesNothingBack(id)
  <2> DEFINE next == [run EXCEPT !.baseline = snapshot]
  <2>1. Exists(id) /\ run.status \in Live /\ Save(id, next)
    BY <1>9 DEF RecordInventoryBaseline, Live
  <2>2. next.plan = run.plan /\ next.history = run.history
    BY <1>0, <2>1 DEF Run
  <2> HIDE DEF next
  <2> QED
    BY <2>1, <2>2, SavedIsRun, LiveFieldStands
<1>10. ASSUME NEW snapshot \in Snapshots, RecordInventoryFinal(id, snapshot)
      PROVE  TakesNothingBack(id)
  <2> DEFINE next == [run EXCEPT !.final = snapshot]
  <2>1. Exists(id) /\ run.status \in Live /\ Save(id, next)
    BY <1>10 DEF RecordInventoryFinal, Live
  <2>2. next.plan = run.plan /\ next.history = run.history
    BY <1>0, <2>1 DEF Run
  <2> HIDE DEF next
  <2> QED
    BY <2>1, <2>2, SavedIsRun, LiveFieldStands
<1>11. ASSUME NEW plan \in ContribPlans, RecordContribPlan(id, plan)
      PROVE  TakesNothingBack(id)
  <2> DEFINE next == [run EXCEPT !.contribPlan = plan]
  <2>1. Exists(id) /\ run.status \in Live /\ Save(id, next)
    BY <1>11 DEF RecordContribPlan, Live
  <2>2. next.plan = run.plan /\ next.history = run.history
    BY <1>0, <2>1 DEF Run
  <2> HIDE DEF next
  <2> QED
    BY <2>1, <2>2, SavedIsRun, LiveFieldStands
<1> QED
  BY <1>1, <1>2, <1>3, <1>4, <1>5, <1>6, <1>7, <1>8, <1>9, <1>10, <1>11 DEF RunNext

(* No step of the store takes anything back from any run. *)
LEMMA StepsStand ==
  ASSUME Inv, [Next]_vars, NEW id \in RunIds, Exists(id)
  PROVE  Exists(id)' /\ PlansStand(runs[id], runs'[id]) /\ EndStands(runs[id], runs'[id])
<1>1. PlansStand(runs[id], runs[id]) /\ EndStands(runs[id], runs[id])
  BY DEF PlansStand, EndStands, SameIdentity
<1>2. CASE UNCHANGED vars
  BY <1>1, <1>2 DEF vars, Exists
<1>3. CASE Next
  <2>1. PICK other \in RunIds : TakesNothingBack(other)
    BY <1>3, PlanNextStands, RunNextStands DEF Next, Inv
  <2>2. PICK next \in Run :
          /\ Save(other, next)
          /\ Exists(other) => PlansStand(runs[other], next) /\ EndStands(runs[other], next)
    BY <2>1 DEF TakesNothingBack
  <2>3. runs'[id] = IF id = other THEN next ELSE runs[id]
    BY <2>2 DEF Save, Inv, FilesSound
  <2>4. next # Nil
    BY NilIsNoRecord
  <2> QED
    BY <1>1, <2>2, <2>3, <2>4 DEF Exists
<1> QED
  BY <1>2, <1>3

(* The inductive invariant holds in every reachable state. *)
THEOREM Invariance == Spec => []Inv
<1>1. Inv /\ [Next]_vars => Inv'
  <2> SUFFICES ASSUME Inv, [Next]_vars PROVE Inv'
    OBVIOUS
  <2>1. CASE Next
    BY <2>1, PlanNextSound, RunNextSound, WrittenInv DEF Next, Inv
  <2>2. CASE UNCHANGED vars
    BY <2>2 DEF vars, Inv, FilesSound, Exists, AtMostOneLiveRun
  <2> QED
    BY <2>1, <2>2
<1> QED
  BY InitInv, <1>1, PTL DEF Spec
-----------------------------------------------------------------------------
(* Every run file is well formed, and its persisted authority is that of   *)
(* its status and phase.                                                   *)
THEOREM TypeCorrect == Spec => []TypeOK
<1>1. Inv => TypeOK
  BY DEF Inv, FilesSound, TypeOK, Sound, Exists
<1> QED
  BY <1>1, Invariance, PTL

(* A project root never has two runs that may act. *)
THEOREM OneLiveRun == Spec => []AtMostOneLiveRun
<1>1. Inv => AtMostOneLiveRun
  BY DEF Inv
<1> QED
  BY <1>1, Invariance, PTL

(* No step of any plan was started before all its predecessors succeeded.  *)
THEOREM OrderedSteps == Spec => []StepsInOrder
<1>1. Inv => StepsInOrder
  BY DEF Inv, FilesSound, StepsInOrder, Sound, Orderly
<1> QED
  BY <1>1, Invariance, PTL

(* A run leaves a checkpoint phase only with a proved plan of that phase,  *)
(* which it keeps for good.                                                *)
THEOREM PassedPhases == Spec => []PassedPhasesProved
<1>1. Inv => PassedPhasesProved
  BY DEF Inv, FilesSound, PassedPhasesProved, Sound
<1> QED
  BY <1>1, Invariance, PTL

(* A publication receipt follows the validation it published. *)
THEOREM BackedReceipts == Spec => []ReceiptsBacked
<1>1. Inv => ReceiptsBacked
  BY DEF Inv, FilesSound, ReceiptsBacked, Sound
<1> QED
  BY <1>1, Invariance, PTL

(* A completed plan is never lost or reopened, whatever is written next:   *)
(* its identity, backup and steps stand. Completing it again may rewrite   *)
(* its candidate (CompleteCheckpointPlan), which is not claimed here.      *)
THEOREM CompletedPlansAreKept == Spec => CompletedPlansStand
<1>1. ASSUME Inv, [Next]_vars
      PROVE  \A id \in RunIds : Exists(id) =>
               /\ Exists(id)'
               /\ \A plan \in Plans(runs[id]) : plan.completed =>
                    \E kept \in Plans(runs[id])' :
                      /\ kept.completed
                      /\ SameIdentity(kept, plan)
                      /\ kept.backup = plan.backup
                      /\ kept.steps = plan.steps
  BY <1>1, StepsStand DEF PlansStand, Plans
<1> QED
  BY <1>1, Invariance, PTL DEF Spec, CompletedPlansStand

(* A run that was completed or abandoned never acts again. *)
THEOREM TheEndIsFinal == Spec => TerminalIsFinal
<1>1. ASSUME Inv, [Next]_vars
      PROVE  \A id \in RunIds : Exists(id) /\ runs[id].status \notin Live =>
               \A field \in {"status", "phase", "allowedActions", "evidence", "confirmations"} :
                 runs'[id][field] = runs[id][field]
  BY <1>1, StepsStand DEF EndStands
<1> QED
  BY <1>1, Invariance, PTL DEF Spec, TerminalIsFinal

(***************************************************************************)
(* The run store implements RunAuthority: what a run file shows of its     *)
(* run, what a rewritten file changes of that, and one step of the         *)
(* authority for every operation                                           *)
(***************************************************************************)

(* What the authority sees of one run file. *)
Standing(run) ==
  IF run = Nil THEN "absent"
  ELSE [active |-> "live", blocked |-> "held", completed |-> "done",
        abandoned |-> "dropped"][run.status]

Stage(run) == IF run # Nil THEN PhaseRank[run.phase] ELSE 1

ProvedRanks(run) ==
  IF run # Nil THEN {PhaseRank[plan.phase] : plan \in {p \in Plans(run) : Proved(p)}} ELSE {}

ReceiptsIn(run) ==
  {i \in 1..Len(run.evidence) : run.evidence[i].kind = "checkpoint_commit"}

Receipts(run) == IF run # Nil THEN Cardinality(ReceiptsIn(run)) ELSE 0

standing == [id \in RunIds |-> StandingOf(id)]
stage    == [id \in RunIds |-> StageOf(id)]
proved   == [id \in RunIds |-> ProvedBy(id)]
receipts == [id \in RunIds |-> ReceiptsOf(id)]

(* A rewritten file changes the view of its own run only. *)
LEMMA SavedView ==
  ASSUME FilesSound, NEW id \in RunIds, NEW next, Save(id, next)
  PROVE  /\ standing' = [standing EXCEPT ![id] = Standing(next)]
         /\ stage' = [stage EXCEPT ![id] = Stage(next)]
         /\ proved' = [proved EXCEPT ![id] = ProvedRanks(next)]
         /\ receipts' = [receipts EXCEPT ![id] = Receipts(next)]
<1>1. \A r \in RunIds : runs'[r] = IF r = id THEN next ELSE runs[r]
  BY DEF Save, FilesSound
<1>2. \A r \in RunIds : StandingOf(r)' = IF r = id THEN Standing(next) ELSE StandingOf(r)
  BY <1>1 DEF StandingOf, Standing, Exists
<1>3. \A r \in RunIds : StageOf(r)' = IF r = id THEN Stage(next) ELSE StageOf(r)
  BY <1>1 DEF StageOf, Stage, Exists
<1>4. \A r \in RunIds : ProvedBy(r)' = IF r = id THEN ProvedRanks(next) ELSE ProvedBy(r)
  BY <1>1 DEF ProvedBy, ProvedRanks, Exists, Plans, Proved
<1>5. \A r \in RunIds : ReceiptsOf(r)' = IF r = id THEN Receipts(next) ELSE ReceiptsOf(r)
  BY <1>1 DEF ReceiptsOf, Receipts, ReceiptsIn, Exists
<1> QED
  BY <1>2, <1>3, <1>4, <1>5 DEF standing, stage, proved, receipts

(* The view of a run before it is rewritten, and what is rewritten with    *)
(* what it was.                                                            *)
LEMMA View ==
  ASSUME NEW id \in RunIds
  PROVE  /\ standing[id] = Standing(runs[id]) /\ stage[id] = Stage(runs[id])
         /\ proved[id] = ProvedRanks(runs[id]) /\ receipts[id] = Receipts(runs[id])
         /\ [standing EXCEPT ![id] = standing[id]] = standing
         /\ [stage EXCEPT ![id] = stage[id]] = stage
         /\ [proved EXCEPT ![id] = proved[id]] = proved
         /\ [receipts EXCEPT ![id] = receipts[id]] = receipts
<1>1. /\ standing[id] = Standing(runs[id]) /\ stage[id] = Stage(runs[id])
      /\ proved[id] = ProvedRanks(runs[id]) /\ receipts[id] = Receipts(runs[id])
  BY DEF standing, stage, proved, receipts, StandingOf, Standing, StageOf, Stage,
         ProvedBy, ProvedRanks, ReceiptsOf, Receipts, ReceiptsIn, Exists
<1>2. /\ [standing EXCEPT ![id] = standing[id]] = standing
      /\ [stage EXCEPT ![id] = stage[id]] = stage
      /\ [proved EXCEPT ![id] = proved[id]] = proved
      /\ [receipts EXCEPT ![id] = receipts[id]] = receipts
  BY DEF standing, stage, proved, receipts
<1> QED
  BY <1>1, <1>2

(* The steps of RunAuthority, of what the run files show. *)
LEMMA StutterShown ==
  ASSUME standing' = standing, stage' = stage, proved' = proved, receipts' = receipts
  PROVE  UNCHANGED Authority!vars
BY DEF Authority!vars, standing, stage, proved, receipts

LEMMA OpenShown ==
  ASSUME NEW id \in RunIds, standing[id] = "absent",
         \A other \in RunIds : standing[other] \notin {"live", "held"},
         standing' = [standing EXCEPT ![id] = "live"],
         stage' = stage, proved' = proved, receipts' = receipts
  PROVE  Authority!Next
<1>1. Authority!Open(id)
  BY DEF Authority!Open, standing, stage, proved, receipts
<1> QED
  BY <1>1 DEF Authority!Next

LEMMA ProveShown ==
  ASSUME NEW id \in RunIds, standing[id] # "absent",
         NEW gate \in proved'[id] \ proved[id],
         gate \in {PhaseRank[phase] : phase \in CheckpointPhases}, gate <= stage[id],
         proved' = [proved EXCEPT ![id] = proved[id] \cup {gate}],
         standing' = standing, stage' = stage, receipts' = receipts
  PROVE  Authority!Next
<1>1. Authority!Prove(id)
  BY DEF Authority!Prove, standing, stage, proved, receipts
<1> QED
  BY <1>1 DEF Authority!Next

LEMMA AdvanceShown ==
  ASSUME NEW id \in RunIds, standing[id] = "live", stage[id] < PhaseRank["completed"],
         stage' = [stage EXCEPT ![id] = stage[id] + 1],
         stage[id] \in {PhaseRank[phase] : phase \in CheckpointPhases}
           => stage[id] \in proved[id],
         standing' = [standing EXCEPT ![id] =
           IF stage[id] + 1 = PhaseRank["completed"] THEN "done" ELSE "live"],
         proved' = proved, receipts' = receipts
  PROVE  Authority!Next
<1>1. Authority!Advance(id)
  BY DEF Authority!Advance, standing, stage, proved, receipts
<1> QED
  BY <1>1 DEF Authority!Next

LEMMA PublishShown ==
  ASSUME NEW id \in RunIds, standing[id] = "live", proved[id] # {},
         receipts' = [receipts EXCEPT ![id] = receipts[id] + 1],
         standing' = standing, stage' = stage, proved' = proved
  PROVE  Authority!Next
<1>1. Authority!Publish(id)
  BY DEF Authority!Publish, standing, stage, proved, receipts
<1> QED
  BY <1>1 DEF Authority!Next

LEMMA ChangeShown ==
  ASSUME NEW id \in RunIds,
         \/ standing[id] = "live" /\ standing' = [standing EXCEPT ![id] = "held"]
         \/ standing[id] = "held" /\ standing' = [standing EXCEPT ![id] = "live"]
         \/ standing[id] \in {"live", "held"}
              /\ standing' = [standing EXCEPT ![id] = "dropped"],
         stage' = stage, proved' = proved, receipts' = receipts
  PROVE  Authority!Next
<1>1. CASE standing[id] = "live" /\ standing' = [standing EXCEPT ![id] = "held"]
  <2>1. Authority!Hold(id)
    BY <1>1 DEF Authority!Hold, standing, stage, proved, receipts
  <2> QED
    BY <2>1 DEF Authority!Next
<1>2. CASE standing[id] = "held" /\ standing' = [standing EXCEPT ![id] = "live"]
  <2>1. Authority!Release(id)
    BY <1>2 DEF Authority!Release, standing, stage, proved, receipts
  <2> QED
    BY <2>1 DEF Authority!Next
<1>3. CASE standing[id] \in {"live", "held"}
             /\ standing' = [standing EXCEPT ![id] = "dropped"]
  <2>1. Authority!Drop(id)
    BY <1>3 DEF Authority!Drop, standing, stage, proved, receipts
  <2> QED
    BY <2>1 DEF Authority!Next
<1> QED
  BY <1>1, <1>2, <1>3
-----------------------------------------------------------------------------
(* What each kind of rewriting is to the authority. *)
LEMMA Unseen ==
  ASSUME FilesSound, NEW id \in RunIds, NEW next, Save(id, next),
         Standing(next) = Standing(runs[id]), Stage(next) = Stage(runs[id]),
         ProvedRanks(next) = ProvedRanks(runs[id]), Receipts(next) = Receipts(runs[id])
  PROVE  UNCHANGED Authority!vars
BY SavedView, View, StutterShown

LEMMA Opens ==
  ASSUME FilesSound, NEW id \in RunIds, NEW next, Save(id, next),
         runs[id] = Nil, NoLiveRun, Standing(next) = "live", Stage(next) = 1,
         ProvedRanks(next) = {}, Receipts(next) = 0
  PROVE  Authority!Next
<1>1. /\ Standing(runs[id]) = "absent" /\ Stage(runs[id]) = 1
      /\ ProvedRanks(runs[id]) = {} /\ Receipts(runs[id]) = 0
  BY DEF Standing, Stage, ProvedRanks, Receipts
<1>2. \A other \in RunIds : standing[other] \notin {"live", "held"}
  BY DEF standing, StandingOf, NoLiveRun, FilesSound, Exists, Live, Sound, Run, Statuses
<1>3. /\ standing[id] = "absent" /\ stage[id] = Stage(next)
      /\ proved[id] = ProvedRanks(next) /\ receipts[id] = Receipts(next)
  BY <1>1, View
<1>4. /\ standing' = [standing EXCEPT ![id] = "live"]
      /\ stage' = stage /\ proved' = proved /\ receipts' = receipts
  <2>1. /\ standing' = [standing EXCEPT ![id] = Standing(next)]
        /\ stage' = [stage EXCEPT ![id] = Stage(next)]
        /\ proved' = [proved EXCEPT ![id] = ProvedRanks(next)]
        /\ receipts' = [receipts EXCEPT ![id] = Receipts(next)]
    BY SavedView
  <2>2. /\ [stage EXCEPT ![id] = stage[id]] = stage
        /\ [proved EXCEPT ![id] = proved[id]] = proved
        /\ [receipts EXCEPT ![id] = receipts[id]] = receipts
    BY View
  <2>3. Standing(next) = "live"
    OBVIOUS
  <2> QED
    BY <1>3, <2>1, <2>2, <2>3
<1> QED
  BY <1>2, <1>3, <1>4, OpenShown

LEMMA Proves ==
  ASSUME FilesSound, NEW id \in RunIds, NEW next, Save(id, next), Exists(id),
         Standing(next) = Standing(runs[id]), Stage(next) = Stage(runs[id]),
         Receipts(next) = Receipts(runs[id]), NEW gate,
         gate \in {PhaseRank[phase] : phase \in CheckpointPhases},
         gate <= Stage(runs[id]),
         ProvedRanks(next) = ProvedRanks(runs[id]) \cup {gate}
  PROVE  [Authority!Next]_Authority!vars
<1>1. CASE gate \in ProvedRanks(runs[id])
  <2>1. ProvedRanks(next) = ProvedRanks(runs[id])
    BY <1>1
  <2> QED
    BY <2>1, Unseen
<1>2. CASE gate \notin ProvedRanks(runs[id])
  <2>1. Standing(runs[id]) # "absent"
    BY DEF Standing, FilesSound, Exists, Sound, Run, Statuses
  <2>2. /\ standing' = standing /\ stage' = stage /\ receipts' = receipts
        /\ proved' = [proved EXCEPT ![id] = proved[id] \cup {gate}]
    BY SavedView, View
  <2>3. proved'[id] = proved[id] \cup {gate}
    BY <2>2 DEF proved
  <2>4. gate \in proved'[id] \ proved[id] /\ gate <= stage[id] /\ standing[id] # "absent"
    BY <1>2, <2>1, <2>3, View
  <2> QED
    BY <2>2, <2>4, ProveShown
<1> QED
  BY <1>1, <1>2

LEMMA Changes ==
  ASSUME FilesSound, NEW id \in RunIds, NEW next, Save(id, next),
         Stage(next) = Stage(runs[id]), ProvedRanks(next) = ProvedRanks(runs[id]),
         Receipts(next) = Receipts(runs[id]),
         \/ Standing(runs[id]) = "live" /\ Standing(next) = "held"
         \/ Standing(runs[id]) = "held" /\ Standing(next) = "live"
         \/ Standing(runs[id]) \in {"live", "held"} /\ Standing(next) = "dropped"
  PROVE  Authority!Next
BY SavedView, View, ChangeShown

LEMMA Advances ==
  ASSUME FilesSound, NEW id \in RunIds, NEW next, Save(id, next),
         Standing(runs[id]) = "live", Stage(runs[id]) < PhaseRank["completed"],
         Stage(next) = Stage(runs[id]) + 1,
         Standing(next) = IF Stage(runs[id]) + 1 = PhaseRank["completed"] THEN "done" ELSE "live",
         Stage(runs[id]) \in {PhaseRank[phase] : phase \in CheckpointPhases}
           => Stage(runs[id]) \in ProvedRanks(runs[id]),
         ProvedRanks(next) = ProvedRanks(runs[id]), Receipts(next) = Receipts(runs[id])
  PROVE  Authority!Next
BY SavedView, View, AdvanceShown

LEMMA Publishes ==
  ASSUME FilesSound, NEW id \in RunIds, NEW next, Save(id, next),
         Standing(runs[id]) = "live", Standing(next) = "live",
         Stage(next) = Stage(runs[id]), ProvedRanks(runs[id]) # {},
         ProvedRanks(next) = ProvedRanks(runs[id]),
         Receipts(next) = Receipts(runs[id]) + 1
  PROVE  Authority!Next
BY SavedView, View, PublishShown
-----------------------------------------------------------------------------
(* What evidence a record appends, as receipts. *)
LEMMA AppendReceipts ==
  ASSUME NEW run \in Run, NEW e \in Evidence, NEW next \in Run,
         next.evidence = Append(run.evidence, e)
  PROVE  Receipts(next) =
           IF e.kind = "checkpoint_commit" THEN Receipts(run) + 1 ELSE Receipts(run)
<1> DEFINE log == run.evidence
           n   == Len(log)
<1>1. log \in Seq(Evidence) /\ n \in Nat /\ run # Nil /\ next # Nil
  BY NilIsNoRecord DEF Run
<1>2. /\ Len(next.evidence) = n + 1
      /\ \A k \in 1..n : next.evidence[k] = log[k]
      /\ next.evidence[n + 1] = e
  BY <1>1
<1>3. IsFiniteSet(ReceiptsIn(run)) /\ n + 1 \notin ReceiptsIn(run)
  <2>1. ReceiptsIn(run) \subseteq 1..n /\ n + 1 \notin 1..n
    BY <1>1 DEF ReceiptsIn
  <2>2. IsFiniteSet(1..n)
    BY <1>1, FS_Interval
  <2>3. IsFiniteSet(ReceiptsIn(run))
    BY <2>1, <2>2, FS_Subset
  <2> QED
    BY <2>1, <2>3
<1>4. CASE e.kind = "checkpoint_commit"
  <2>1. ReceiptsIn(next) = ReceiptsIn(run) \cup {n + 1}
    BY <1>1, <1>2, <1>4 DEF ReceiptsIn
  <2> QED
    BY <1>1, <1>3, <1>4, <2>1, FS_AddElement DEF Receipts
<1>5. CASE e.kind # "checkpoint_commit"
  <2>1. ReceiptsIn(next) = ReceiptsIn(run)
    BY <1>1, <1>2, <1>5 DEF ReceiptsIn
  <2> QED
    BY <1>1, <1>5, <2>1 DEF Receipts
<1> QED
  BY <1>4, <1>5

LEMMA NotesAreNoReceipts ==
  ASSUME NEW run \in Run, NEW input \in RecordInputs, NEW next \in Run,
         next.evidence = WithEvidence(run, input)
  PROVE  Receipts(next) = Receipts(run)
<1>1. CASE input.kind # "validation"
  BY <1>1, NilIsNoRecord DEF WithEvidence, Receipts, ReceiptsIn
<1>2. CASE input.kind = "validation"
  <2> DEFINE e == [kind |-> "validation", phase |-> run.phase,
                   validation |-> input.validation, candidate |-> input.candidate,
                   paths |-> input.paths, target |-> input.target]
  <2>1. e \in Evidence /\ e.kind # "checkpoint_commit"
    BY DEF Evidence, RecordInputs, Run
  <2>2. next.evidence = Append(run.evidence, e)
    BY <1>2 DEF WithEvidence
  <2> HIDE DEF e
  <2> QED
    BY <2>1, <2>2, AppendReceipts
<1> QED
  BY <1>1, <1>2

(* What a run that keeps its plans, its phase, its status or its evidence  *)
(* goes on showing.                                                        *)
LEMMA SameShown ==
  ASSUME NEW run \in Run, NEW next \in Run
  PROVE  /\ next.status = run.status => Standing(next) = Standing(run)
         /\ next.phase = run.phase => Stage(next) = Stage(run)
         /\ next.plan = run.plan /\ next.history = run.history
              => ProvedRanks(next) = ProvedRanks(run)
         /\ next.evidence = run.evidence => Receipts(next) = Receipts(run)
         /\ Standing(run) = "live" <=> run.status = "active"
         /\ Standing(run) = "held" <=> run.status = "blocked"
<1>1. run # Nil /\ next # Nil /\ run.status \in Statuses
  BY NilIsNoRecord DEF Run
<1>2. next.plan = run.plan /\ next.history = run.history
        => ProvedRanks(next) = ProvedRanks(run)
  BY <1>1 DEF ProvedRanks, Plans
<1>3. next.evidence = run.evidence => Receipts(next) = Receipts(run)
  BY <1>1 DEF Receipts, ReceiptsIn
<1>4. next.phase = run.phase => Stage(next) = Stage(run)
  BY <1>1 DEF Stage
<1>5. /\ next.status = run.status => Standing(next) = Standing(run)
      /\ Standing(run) = "live" <=> run.status = "active"
      /\ Standing(run) = "held" <=> run.status = "blocked"
  BY <1>1 DEF Standing, Statuses
<1> QED
  BY <1>2, <1>3, <1>4, <1>5
-----------------------------------------------------------------------------
(* Every operation is a step of the authority, or none. *)
LEMMA RewrittenPlanShown ==
  ASSUME FilesSound, NEW id \in RunIds, RewritesPlan(id)
  PROVE  [Authority!Next]_Authority!vars
<1> DEFINE run == runs[id]
<1>1. PICK plan \in Plan :
        /\ Orderly(plan)
        /\ SavePlan(id, plan)
        /\ plan.phase = run.plan.phase
        /\ run.plan.completed => plan.completed
  BY DEF RewritesPlan
<1> DEFINE next == [run EXCEPT !.plan = plan]
<1>2. Exists(id) /\ run.plan # Nil /\ Sound(run) /\ run \in Run
  BY DEF RewritesPlan, FilesSound, Sound
<1>3. /\ next \in Run /\ Save(id, next)
      /\ next.plan = plan /\ next.history = run.history
      /\ next.status = run.status /\ next.phase = run.phase /\ next.evidence = run.evidence
  BY <1>1, <1>2 DEF SavePlan, Run
<1> HIDE DEF next
<1>4. /\ Standing(next) = Standing(run) /\ Stage(next) = Stage(run)
      /\ Receipts(next) = Receipts(run)
  BY <1>2, <1>3, SameShown
<1>5. /\ Plans(run) = run.history \cup {run.plan} /\ Plans(next) = run.history \cup {plan}
      /\ run # Nil /\ next # Nil
  BY <1>2, <1>3, NilIsNoRecord DEF Plans
<1>6. Proved(run.plan) => Proved(plan)
  BY <1>1, <1>2, CurrentPlanOrderly DEF Orderly, Proved
<1>7. CASE Proved(plan)
  <2>1. ProvedRanks(next) = ProvedRanks(run) \cup {PhaseRank[plan.phase]}
    BY <1>1, <1>5, <1>6, <1>7 DEF ProvedRanks
  <2>2. plan.phase \in CheckpointPhases /\ PhaseRank[plan.phase] <= Stage(run)
    BY <1>1, <1>2, <1>5 DEF Plan, Sound, Stage
  <2> QED
    BY <1>2, <1>3, <1>4, <2>1, <2>2, Proves
<1>8. CASE ~Proved(plan)
  <2>1. ProvedRanks(next) = ProvedRanks(run)
    BY <1>5, <1>6, <1>8 DEF ProvedRanks
  <2> QED
    BY <1>3, <1>4, <2>1, Unseen
<1> QED
  BY <1>7, <1>8

LEMMA BegunShown ==
  ASSUME FilesSound, NEW id \in RunIds, NEW input \in PlanInputs,
         BeginCheckpointPlan(id, input)
  PROVE  [Authority!Next]_Authority!vars
<1> DEFINE run  == runs[id]
           next == Begun(run, input)
<1>1. Exists(id) /\ Sound(run) /\ run \in Run /\ CanBegin(run, input) /\ Save(id, next)
  BY DEF BeginCheckpointPlan, FilesSound, Sound
<1>2. next \in Run
  BY <1>1, BegunSound DEF Sound
<1>3. next.status = run.status /\ next.phase = run.phase /\ next.evidence = run.evidence
  BY <1>1 DEF Begun, Run
<1>4. \/ Plans(next) = Plans(run)
      \/ Plans(next) = Plans(run) \cup {PlanFromInput(input)}
  BY <1>1 DEF Begun, Plans, Run
<1>5. ~Proved(PlanFromInput(input))
  BY DEF Proved, PlanFromInput
<1> HIDE DEF next
<1>6. ProvedRanks(next) = ProvedRanks(run)
  BY <1>1, <1>2, <1>4, <1>5, NilIsNoRecord DEF ProvedRanks
<1>7. /\ Standing(next) = Standing(run) /\ Stage(next) = Stage(run)
      /\ Receipts(next) = Receipts(run)
  BY <1>1, <1>2, <1>3, SameShown
<1> QED
  BY <1>1, <1>6, <1>7, Unseen

LEMMA PlanNextShown ==
  ASSUME FilesSound, NEW id \in RunIds, PlanNext(id)
  PROVE  [Authority!Next]_Authority!vars
BY PlanNextRewrites, RewrittenPlanShown, BegunShown

LEMMA ProgressShown ==
  ASSUME FilesSound, NEW id \in RunIds, NEW input \in RecordInputs,
         RecordProgress(id, input)
  PROVE  Authority!Next
<1> DEFINE run   == runs[id]
           after == ActionNextPhase[input.action]
           next  == [run EXCEPT
             !.evidence = WithEvidence(run, input), !.phase = after,
             !.status = StatusAfter(after),
             !.allowedActions = ActionsFor(StatusAfter(after), after)]
<1>1. Exists(id) /\ Sound(run) /\ run \in Run /\ run.status = "active" /\ Save(id, next)
  BY DEF RecordProgress, FilesSound, Sound
<1>2. RunNext(id)
  BY DEF RunNext
<1>3. next \in Run
  BY <1>1, <1>2, SavedIsRun
<1>4. /\ next.plan = run.plan /\ next.history = run.history
      /\ next.phase = after /\ next.status = StatusAfter(after)
      /\ next.evidence = WithEvidence(run, input)
  BY <1>1 DEF Run
<1>5. run.phase \in Phases /\ input.action \in ActionsFor("active", run.phase)
  BY <1>1 DEF RecordProgress, Sound, Run
<1>6. /\ after \in Phases /\ PhaseRank[after] = PhaseRank[run.phase] + 1
      /\ after = "completed" <=> PhaseRank[run.phase] + 1 = PhaseRank["completed"]
      /\ PhaseRank[run.phase] < PhaseRank["completed"]
  <2>1. after \in Phases /\ PhaseRank[after] = PhaseRank[run.phase] + 1
    BY <1>5, ProgressIsByOne
  <2>2. \A phase \in Phases : PhaseRank[phase] <= PhaseRank["completed"]
    BY DEF Phases, PhaseRank
  <2> QED
    BY <2>1, <2>2, <1>5, PhasesAreRanked DEF Phases
<1> HIDE DEF next, after
<1>7. run # Nil /\ next # Nil
  BY <1>1, <1>3, NilIsNoRecord
<1>8. /\ Standing(run) = "live" /\ Stage(run) = PhaseRank[run.phase]
      /\ Stage(next) = Stage(run) + 1
      /\ Stage(run) < PhaseRank["completed"]
  BY <1>1, <1>4, <1>6, <1>7 DEF Standing, Stage
<1>9. Standing(next) = IF Stage(run) + 1 = PhaseRank["completed"] THEN "done" ELSE "live"
  BY <1>4, <1>6, <1>7, <1>8 DEF Standing, StatusAfter
<1>10. ProvedRanks(next) = ProvedRanks(run) /\ Receipts(next) = Receipts(run)
  BY <1>1, <1>3, <1>4, SameShown, NotesAreNoReceipts
<1>11. ASSUME Stage(run) \in {PhaseRank[phase] : phase \in CheckpointPhases}
       PROVE  Stage(run) \in ProvedRanks(run)
  <2>1. run.phase \in CheckpointPhases
    BY <1>5, <1>8, <1>11, PhasesAreRanked
  <2>2. PICK plan \in Plans(run) : plan.phase = run.phase /\ PlanComplete(plan)
    BY <2>1 DEF RecordProgress, AuthorizesProgress, PlanFor
  <2>3. Proved(plan)
    BY <1>1, <2>2 DEF Sound, Orderly, PlanComplete
  <2> QED
    BY <1>7, <1>8, <2>2, <2>3 DEF ProvedRanks
<1> QED
  BY <1>1, <1>8, <1>9, <1>10, <1>11, Advances

LEMMA ReceiptShown ==
  ASSUME FilesSound, NEW id \in RunIds, NEW input \in CheckpointInputs,
         RecordCheckpoint(id, input)
  PROVE  Authority!Next
<1> DEFINE run  == runs[id]
           next == Receipted(run, input)
           e == [kind |-> "checkpoint_commit", phase |-> run.phase,
                 validation |-> input.validation, candidate |-> input.candidate,
                 paths |-> input.paths, target |-> input.target]
<1>1. /\ Exists(id) /\ Sound(run) /\ run \in Run /\ Save(id, next)
      /\ input.strategy # "none" /\ Authorized(run, input) /\ run.status = "active"
  BY DEF RecordCheckpoint, Authorized, FilesSound, Sound
<1>2. next \in Run /\ e \in Evidence /\ e.kind = "checkpoint_commit"
  BY <1>1, ReceiptedSound DEF Sound, Run, Evidence, CheckpointInputs
<1>3. /\ next.plan = run.plan /\ next.history = run.history
      /\ next.phase = run.phase /\ next.status = run.status
      /\ next.evidence = Append(run.evidence, e)
  BY <1>1 DEF Receipted, Run
<1>4. PICK plan \in Plans(run) : PlanComplete(plan)
  BY <1>1 DEF Authorized, PlanFor
<1>5. Proved(plan) /\ run # Nil
  BY <1>1, <1>4, NilIsNoRecord DEF Sound, Orderly, PlanComplete
<1>6. PhaseRank[plan.phase] \in ProvedRanks(run)
  BY <1>4, <1>5 DEF ProvedRanks
<1> HIDE DEF next, e
<1>7. Receipts(next) = Receipts(run) + 1
  BY <1>1, <1>2, <1>3, AppendReceipts
<1>8. /\ Standing(run) = "live" /\ Standing(next) = "live" /\ Stage(next) = Stage(run)
      /\ ProvedRanks(next) = ProvedRanks(run)
  BY <1>1, <1>2, <1>3, SameShown
<1> QED
  BY <1>1, <1>6, <1>7, <1>8, Publishes

(* An operation that holds a run, releases it or drops it. *)
LEMMA StandingShown ==
  ASSUME FilesSound, NEW id \in RunIds, Exists(id), NEW next \in Run, Save(id, next),
         next.plan = runs[id].plan, next.history = runs[id].history,
         next.phase = runs[id].phase, Receipts(next) = Receipts(runs[id]),
         \/ runs[id].status = "active" /\ next.status = "blocked"
         \/ runs[id].status = "blocked" /\ next.status = "active"
         \/ runs[id].status \in Live /\ next.status = "abandoned"
  PROVE  Authority!Next
<1> DEFINE run == runs[id]
<1>1. run \in Run /\ run # Nil /\ next # Nil
  BY NilIsNoRecord DEF FilesSound, Sound
<1>2. Stage(next) = Stage(run) /\ ProvedRanks(next) = ProvedRanks(run)
  BY <1>1, SameShown
<1>3. \/ Standing(run) = "live" /\ Standing(next) = "held"
      \/ Standing(run) = "held" /\ Standing(next) = "live"
      \/ Standing(run) \in {"live", "held"} /\ Standing(next) = "dropped"
  BY <1>1 DEF Standing, Live
<1> QED
  BY <1>2, <1>3, Changes

(* An operation that writes what the authority does not see. *)
LEMMA FieldShown ==
  ASSUME FilesSound, NEW id \in RunIds, Exists(id), NEW next \in Run, Save(id, next),
         next.plan = runs[id].plan, next.history = runs[id].history,
         next.phase = runs[id].phase, next.status = runs[id].status,
         next.evidence = runs[id].evidence
  PROVE  UNCHANGED Authority!vars
<1>1. runs[id] \in Run
  BY DEF FilesSound, Sound
<1> QED
  BY <1>1, SameShown, Unseen

LEMMA RunNextShown ==
  ASSUME FilesSound, NEW id \in RunIds, RunNext(id)
  PROVE  [Authority!Next]_Authority!vars
<1> DEFINE run == runs[id]
<1>0. Exists(id) => run \in Run
  BY DEF FilesSound, Sound
<1>1. ASSUME NEW major \in Majors, NEW strategy \in Strategies, NEW scope \in Scopes,
             Create(id, major, strategy, scope)
      PROVE  Authority!Next
  <2> DEFINE next == NewRun(major, strategy, scope)
  <2>1. run = Nil /\ NoLiveRun /\ Save(id, next) /\ next \in Run
    BY <1>1, SavedIsRun DEF Create, Exists
  <2>2. /\ next.status = "active" /\ next.phase = "git_safety"
        /\ Plans(next) = {} /\ Len(next.evidence) = 0
    BY DEF NewRun, Plans
  <2>3. next # Nil
    BY <2>1, NilIsNoRecord
  <2> HIDE DEF next
  <2>4. Standing(next) = "live" /\ Stage(next) = 1 /\ ProvedRanks(next) = {}
    BY <2>2, <2>3 DEF Standing, Stage, PhaseRank, ProvedRanks
  <2>5. ReceiptsIn(next) = {}
    BY <2>2 DEF ReceiptsIn
  <2>6. Receipts(next) = 0
    BY <2>3, <2>5, FS_EmptySet DEF Receipts
  <2> QED
    BY <2>1, <2>4, <2>6, Opens
<1>2. ASSUME NEW input \in RecordInputs, RecordResolution(id, input)
      PROVE  Authority!Next
  <2> DEFINE next == [run EXCEPT
               !.evidence = WithEvidence(run, input), !.status = "active",
               !.allowedActions = ActionsFor("active", run.phase)]
  <2>1. Exists(id) /\ run.status = "blocked" /\ Save(id, next)
    BY <1>2 DEF RecordResolution
  <2>2. /\ next.plan = run.plan /\ next.history = run.history /\ next.phase = run.phase
        /\ next.status = "active" /\ next.evidence = WithEvidence(run, input)
    BY <1>0, <2>1 DEF Run
  <2> HIDE DEF next
  <2>3. next \in Run /\ Receipts(next) = Receipts(run)
    BY <1>0, <2>1, <2>2, SavedIsRun, NotesAreNoReceipts
  <2> QED
    BY <2>1, <2>2, <2>3, StandingShown
<1>3. ASSUME NEW action \in Confirmable, Confirm(id, action)
      PROVE  [Authority!Next]_Authority!vars
  <2> DEFINE next == [run EXCEPT !.confirmations = @ \cup {action}]
  <2>1. Exists(id) /\ Save(id, next)
    BY <1>3 DEF Confirm
  <2>2. /\ next.plan = run.plan /\ next.history = run.history /\ next.phase = run.phase
        /\ next.status = run.status /\ next.evidence = run.evidence
    BY <1>0, <2>1 DEF Run
  <2> HIDE DEF next
  <2> QED
    BY <2>1, <2>2, SavedIsRun, FieldShown
<1>4. ASSUME Block(id)
      PROVE  [Authority!Next]_Authority!vars
  <2> DEFINE next == [run EXCEPT !.status = "blocked",
                        !.allowedActions = ActionsFor("blocked", run.phase)]
  <2>1. Exists(id) /\ Save(id, next) /\ run.status = "active"
    BY <1>4 DEF Block
  <2>2. /\ next.plan = run.plan /\ next.history = run.history /\ next.phase = run.phase
        /\ next.status = "blocked" /\ next.evidence = run.evidence
    BY <1>0, <2>1 DEF Run
  <2> HIDE DEF next
  <2>3. next \in Run /\ Receipts(next) = Receipts(run)
    BY <1>0, <2>1, <2>2, SavedIsRun, SameShown
  <2> QED
    BY <2>1, <2>2, <2>3, StandingShown
<1>5. ASSUME ResolveBlock(id)
      PROVE  [Authority!Next]_Authority!vars
  <2> DEFINE next == [run EXCEPT !.status = "active",
                        !.allowedActions = ActionsFor("active", run.phase)]
  <2>1. Exists(id) /\ Save(id, next) /\ run.status = "blocked"
    BY <1>5 DEF ResolveBlock
  <2>2. /\ next.plan = run.plan /\ next.history = run.history /\ next.phase = run.phase
        /\ next.status = "active" /\ next.evidence = run.evidence
    BY <1>0, <2>1 DEF Run
  <2> HIDE DEF next
  <2>3. next \in Run /\ Receipts(next) = Receipts(run)
    BY <1>0, <2>1, <2>2, SavedIsRun, SameShown
  <2> QED
    BY <2>1, <2>2, <2>3, StandingShown
<1>6. ASSUME Abandon(id)
      PROVE  [Authority!Next]_Authority!vars
  <2> DEFINE next == [run EXCEPT !.status = "abandoned", !.allowedActions = {}]
  <2>1. Exists(id) /\ Save(id, next) /\ run.status \in Live
    BY <1>6 DEF Abandon
  <2>2. /\ next.plan = run.plan /\ next.history = run.history /\ next.phase = run.phase
        /\ next.status = "abandoned" /\ next.evidence = run.evidence
    BY <1>0, <2>1 DEF Run
  <2> HIDE DEF next
  <2>3. next \in Run /\ Receipts(next) = Receipts(run)
    BY <1>0, <2>1, <2>2, SavedIsRun, SameShown
  <2> QED
    BY <2>1, <2>2, <2>3, StandingShown
<1>7. ASSUME NEW snapshot \in Snapshots, RecordInventoryBaseline(id, snapshot)
      PROVE  [Authority!Next]_Authority!vars
  <2> DEFINE next == [run EXCEPT !.baseline = snapshot]
  <2>1. Exists(id) /\ Save(id, next)
    BY <1>7 DEF RecordInventoryBaseline
  <2>2. /\ next.plan = run.plan /\ next.history = run.history /\ next.phase = run.phase
        /\ next.status = run.status /\ next.evidence = run.evidence
    BY <1>0, <2>1 DEF Run
  <2> HIDE DEF next
  <2> QED
    BY <2>1, <2>2, SavedIsRun, FieldShown
<1>8. ASSUME NEW snapshot \in Snapshots, RecordInventoryFinal(id, snapshot)
      PROVE  [Authority!Next]_Authority!vars
  <2> DEFINE next == [run EXCEPT !.final = snapshot]
  <2>1. Exists(id) /\ Save(id, next)
    BY <1>8 DEF RecordInventoryFinal
  <2>2. /\ next.plan = run.plan /\ next.history = run.history /\ next.phase = run.phase
        /\ next.status = run.status /\ next.evidence = run.evidence
    BY <1>0, <2>1 DEF Run
  <2> HIDE DEF next
  <2> QED
    BY <2>1, <2>2, SavedIsRun, FieldShown
<1>9. ASSUME NEW plan \in ContribPlans, RecordContribPlan(id, plan)
      PROVE  [Authority!Next]_Authority!vars
  <2> DEFINE next == [run EXCEPT !.contribPlan = plan]
  <2>1. Exists(id) /\ Save(id, next)
    BY <1>9 DEF RecordContribPlan
  <2>2. /\ next.plan = run.plan /\ next.history = run.history /\ next.phase = run.phase
        /\ next.status = run.status /\ next.evidence = run.evidence
    BY <1>0, <2>1 DEF Run
  <2> HIDE DEF next
  <2> QED
    BY <2>1, <2>2, SavedIsRun, FieldShown
<1> QED
  BY <1>1, <1>2, <1>3, <1>4, <1>5, <1>6, <1>7, <1>8, <1>9, ProgressShown, ReceiptShown DEF RunNext

LEMMA InitShown == Init => Authority!Init
<1> SUFFICES ASSUME Init PROVE Authority!Init
  OBVIOUS
<1>1. \A id \in RunIds : ~Exists(id)
  BY DEF Init, Exists
<1> QED
  BY <1>1 DEF Authority!Init, StandingOf, StageOf, ProvedBy, ReceiptsOf

(* Every operation on the run files, and every interleaving of them, is a  *)
(* step of RunAuthority or changes nothing of it.                          *)
THEOREM StoreImplementsAuthority == Spec => ImplementsAuthority
<1>1. ASSUME Inv, [Next]_vars
      PROVE  [Authority!Next]_Authority!vars
  <2>1. CASE Next
    BY <2>1, <1>1, PlanNextShown, RunNextShown DEF Next, Inv
  <2>2. CASE UNCHANGED vars
    <3>1. runs' = runs
      BY <2>2 DEF vars
    <3>2. \A id \in RunIds :
            /\ StandingOf(id)' = StandingOf(id) /\ StageOf(id)' = StageOf(id)
            /\ ProvedBy(id)' = ProvedBy(id) /\ ReceiptsOf(id)' = ReceiptsOf(id)
      BY <3>1 DEF StandingOf, StageOf, ProvedBy, ReceiptsOf, Exists, Plans, Proved
    <3>3. standing' = standing /\ stage' = stage /\ proved' = proved /\ receipts' = receipts
      BY <3>2 DEF standing, stage, proved, receipts
    <3> QED
      BY <3>3, StutterShown
  <2> QED
    BY <1>1, <2>1, <2>2
<1> QED
  BY <1>1, InitShown, Invariance, PTL DEF Spec, ImplementsAuthority, Authority!Spec
=============================================================================
