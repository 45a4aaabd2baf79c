----------------------------- MODULE Checkpoint -----------------------------
(***************************************************************************)
(* One checkpoint from its plan to its publication: the executors of       *)
(* checkpoint_execute (internal/app/checkpoint_executor.go) and the        *)
(* publisher of checkpoint_commit (internal/app/checkpoint.go), processes  *)
(* that share the run files (module RunState), the git repository          *)
(* (internal/gitops) and the working tree, which people edit.              *)
(*                                                                         *)
(* The store operations are those of RunState, each one atomic: storeMu    *)
(* makes them so in one process, and between processes this is assumed.    *)
(* What a process keeps between two of them is lost when it crashes.       *)
(* Detecting the environment can only end a call, and is left out.         *)
(***************************************************************************)
EXTENDS Naturals, Sequences, FiniteSets

CONSTANTS
  RunId,            \* the run, the only one of its project here
  Major, Scope, Package, Validation,  \* what the run and its plan are about
  Paths,            \* paths of the repository
  Backups,          \* backup identifiers
  Executors,        \* processes that may call checkpoint_execute
  MaxVersion,       \* contents of a file that are explored, besides the first
  Outcomes,         \* outcomes of a step that are explored
  ManagedConfig,    \* the project has config/sync
  Nil

(* The contents of a file; 0 is the one first committed. *)
Versions == 0..MaxVersion

(* The identity of a candidate is the hash of the staged, unstaged and     *)
(* untracked text of the declared paths: here, what HEAD, the index and    *)
(* the working tree hold for each of them.                                 *)
Diffs == UNION {[paths -> Versions \X Versions \X Versions] : paths \in SUBSET Paths}

VARIABLES
  runs,             \* the run files (RunState)
  head, index, tree,\* file contents of HEAD, the index and the working tree
  backups,          \* backups on disk
  exec,             \* the processes that run checkpoint_execute
  pub,              \* the process that runs checkpoint_commit
  applied,          \* effects of each step of the current plan  (observation)
  doubtful,         \* mutations of it that a call gave up on at its deadline,
                    \* or that two calls had in hand             (observation)
  pristine,         \* backups made before the plan changed the site (observation)
  green,            \* diffs the validator found no error in     (observation)
  commits           \* commits made by the publisher             (observation)

files    == <<head, index, tree>>
observed == <<applied, doubtful, pristine, green, commits>>
vars     == <<runs, files, backups, exec, pub, observed>>

Store ==
  INSTANCE RunState WITH
    RunIds <- {RunId}, Majors <- {Major}, Scopes <- {Scope}, Packages <- {Package},
    Candidates <- Diffs, Validations <- {Validation},
    Snapshots <- {}, ContribPlans <- {}

(* Those of RunState, and the types of the two values that are no set. *)
ASSUME BoundsAreTyped == MaxVersion \in Nat /\ ManagedConfig \in BOOLEAN
ASSUME NilIsNoData == Nil \notin Diffs \cup Backups \cup {Validation}
ASSUME NilIsNoRecord == Nil \notin Store!StepEvidence \cup Store!Plan \cup Store!Run

run == runs[RunId]

(* The steps whose command changes the site or the working tree. *)
Mutating == {"update", "database_update", "config_export"}
SiteSteps == Mutating \ {"update"}
-----------------------------------------------------------------------------
(* gitops: the identity of the current diff, provided that its paths are   *)
(* exactly the declared ones; Nil stands for the error.                    *)
Changed == {p \in Paths : head[p] # index[p] \/ index[p] # tree[p]}

Identity(paths) == [p \in paths |-> <<head[p], index[p], tree[p]>>]

(* Mutant of CandidateForPaths: whatever changed is the candidate, though  *)
(* it is not what was declared, and though it is nothing.                  *)
CandidateOfChanges(paths) == Identity(Changed)

(* Mutant of CandidateForPaths: an identity once completed is not          *)
(* recomputed.                                                             *)
CandidateRecalled(paths) ==
  LET known == {plan \in Store!Plans(run) : plan.completed /\ plan.paths = paths} IN
  IF known # {} THEN (CHOOSE plan \in known : TRUE).candidate
  ELSE IF paths # {} /\ paths = Changed THEN Identity(paths) ELSE Nil

CandidateForPaths(paths) ==
  IF paths # {} /\ paths = Changed THEN Identity(paths) ELSE Nil

(* checkpointValidatedCandidate: what a validation of an earlier call saw. *)
ValidatedCandidate(plan) ==
  LET done == plan.steps["validation"] IN
  IF done.status = "succeeded" /\ done.evidence # Nil /\ done.evidence.paths = plan.paths
  THEN done.evidence.candidate ELSE Nil

(* The executor, at rest or in a call.  Its plan is the copy it read when  *)
(* the call began; the steps it has done since are marked in the copy.     *)
IdleExec ==
  [pc |-> "idle", plan |-> Nil, step |-> Nil, outcome |-> Nil,
   candidate |-> Nil, backup |-> Nil, validated |-> Nil]

Reading(plan) ==
  [IdleExec EXCEPT !.pc = "step", !.plan = plan, !.validated = ValidatedCandidate(plan)]

IdlePub == [pc |-> "idle", candidate |-> Nil]

Remaining(plan) ==
  {s \in Store!StepNames : plan.steps[s].status \notin {"absent", "succeeded"}}

IsNext(plan, s) ==
  /\ s \in Remaining(plan)
  /\ \A t \in Remaining(plan) : Store!StepRank[s] <= Store!StepRank[t]

NoEffects == [s \in Store!StepNames |-> 0]

(* A path gets another content, new or one that it had before. *)
Rewrites(p) ==
  \E v \in Versions \ {tree[p]} : tree' = [tree EXCEPT ![p] = v]

(* An effect on one path, or on none the repository tracks. *)
TouchesFiles == (\E p \in Paths : Rewrites(p)) \/ UNCHANGED tree
-----------------------------------------------------------------------------
Doubting(s) == doubtful \cup ({s} \cap Mutating)

(* The mutations that calls are at. *)
InHand ==
  {s \in Mutating : \E e \in Executors : exec[e].pc \in {"effect", "report"} /\ exec[e].step = s}

(* checkpoint_execute: the store returns the plan of this identity, new or *)
(* not.  Observation starts afresh with a new plan, but for what calls     *)
(* still have in hand of the last one.                                     *)
Begin(e, input, resume) ==
  /\ exec[e].pc = "idle"
  /\ Store!BeginCheckpointPlan(RunId, input)
  /\ exec' = [exec EXCEPT ![e] =
       IF resume THEN [IdleExec EXCEPT !.pc = "resume"]
       ELSE IF runs'[RunId].plan.completed THEN IdleExec
       ELSE Reading(runs'[RunId].plan)]
  /\ IF runs' = runs THEN UNCHANGED <<applied, doubtful, pristine>>
     ELSE applied' = NoEffects /\ doubtful' = InHand /\ pristine' = {}
  /\ UNCHANGED <<files, backups, pub, green, commits>>

(* The explicit recovery: a call refused here changes nothing. *)
Resume(e) ==
  /\ exec[e].pc = "resume"
  /\ \/ /\ Store!ResumeUnavailableCheckpoint(RunId)
        /\ exec' = [exec EXCEPT ![e] = Reading(runs'[RunId].plan)]
     \/ /\ ~Store!CanResume(run.plan)
        /\ exec' = [exec EXCEPT ![e] = IdleExec]
        /\ UNCHANGED runs
  /\ UNCHANGED <<files, backups, pub, observed>>

(* The next step is persisted as running before it has any effect; a step  *)
(* that a call before this one left unfinished is not started again.  The  *)
(* store accepts running over running: another call may have the step too. *)
StartStep(e, s) ==
  /\ exec[e].pc = "step"
  /\ IsNext(exec[e].plan, s)
  /\ exec[e].plan.steps[s].status = "pending"
  /\ Store!RecordCheckpointStep(RunId, s, "running", Nil)
  /\ exec' = [exec EXCEPT ![e].pc = "effect", ![e].step = s]
  /\ doubtful' = IF run.plan.steps[s].status = "running" THEN Doubting(s) ELSE doubtful
  /\ UNCHANGED <<files, backups, pub, applied, pristine, green, commits>>

RefuseStep(e, s) ==
  /\ exec[e].pc = "step"
  /\ IsNext(exec[e].plan, s)
  /\ \/ exec[e].plan.steps[s].status # "pending"
     \/ ~Store!CanRecordStep(run.plan, s, "running")
  /\ exec' = [exec EXCEPT ![e] = IdleExec]
  /\ UNCHANGED <<runs, files, backups, pub, observed>>

(* The outcome of a step: "ok", "failed" (an exit code), or one of the two *)
(* that checkpointUnavailable recognizes, "missing" (the executable) and   *)
(* "timeout".  Whatever ran may have had its effect, in whole or in part.  *)
Runs(outcome) == outcome # "missing"

CreateBackup(e, backup, outcome) ==
  /\ exec[e].pc = "effect" /\ exec[e].step = "backup"
  /\ backup \notin backups
  /\ exec' = [exec EXCEPT ![e].pc = IF outcome = "ok" THEN "bind" ELSE "report",
                          ![e].outcome = outcome, ![e].backup = backup]
  /\ IF outcome = "ok"
     THEN /\ backups' = backups \cup {backup}
          /\ pristine' = IF \A s \in SiteSteps : applied[s] = 0
                         THEN pristine \cup {backup} ELSE pristine
     ELSE UNCHANGED <<backups, pristine>>
  /\ UNCHANGED <<runs, files, pub, applied, doubtful, green, commits>>

BindBackup(e) ==
  /\ exec[e].pc = "bind"
  /\ \/ /\ Store!BindCheckpointBackup(RunId, exec[e].backup)
        /\ exec' = [exec EXCEPT ![e].pc = "report"]
     \/ /\ ~Store!CanBind(run.plan, exec[e].backup)
        /\ exec' = [exec EXCEPT ![e] = IdleExec]
        /\ UNCHANGED runs
  /\ UNCHANGED <<files, backups, pub, observed>>

RunCommand(e, outcome) ==
  /\ exec[e].pc = "effect" /\ exec[e].step \notin {"backup", "validation"}
  /\ exec' = [exec EXCEPT ![e].pc = "report", ![e].outcome = outcome]
  /\ IF Runs(outcome)
     THEN /\ applied' = [applied EXCEPT ![exec[e].step] = @ + 1]
          /\ IF exec[e].step \in {"update", "config_export"}
             THEN TouchesFiles ELSE UNCHANGED tree
     ELSE UNCHANGED <<applied, tree>>
  /\ doubtful' = IF outcome = "timeout" THEN Doubting(exec[e].step) ELSE doubtful
  /\ UNCHANGED <<runs, head, index, backups, pub, pristine, green, commits>>

(* Validation compares the candidate before and after the validator ran.   *)
BeginValidation(e) ==
  /\ exec[e].pc = "effect" /\ exec[e].step = "validation"
  /\ LET before == CandidateForPaths(exec[e].plan.paths) IN
     exec' = IF before = Nil
             THEN [exec EXCEPT ![e].pc = "report", ![e].outcome = "failed"]
             ELSE [exec EXCEPT ![e].pc = "validating", ![e].candidate = before]
  /\ UNCHANGED <<runs, files, backups, pub, observed>>

SameCandidate(before, after) == after # Nil /\ after = before

EndValidation(e, outcome) ==
  /\ exec[e].pc = "validating"
  /\ LET after == CandidateForPaths(exec[e].plan.paths) IN
     /\ green' = IF outcome = "ok" THEN green \cup {Identity(exec[e].plan.paths)} ELSE green
     /\ exec' =
          IF outcome = "ok" /\ SameCandidate(exec[e].candidate, after)
          THEN [exec EXCEPT ![e].pc = "report", ![e].outcome = "ok"]
          ELSE [exec EXCEPT ![e].pc = "report", ![e].candidate = Nil,
                            ![e].outcome = IF outcome = "ok" THEN "failed" ELSE outcome]
  /\ UNCHANGED <<runs, files, backups, pub, applied, doubtful, pristine, commits>>

(* Mutant of StatusOf: every error counts as unavailable. *)
StatusOfAnyError(outcome) == IF outcome = "ok" THEN "succeeded" ELSE "unavailable"

StatusOf(outcome) ==
  IF outcome = "ok" THEN "succeeded"
  ELSE IF outcome \in {"missing", "timeout"} THEN "unavailable" ELSE "failed"

(* checkpointStepResult, and on success the next turn of the loop. *)
ReportStep(e) ==
  /\ exec[e].pc = "report"
  /\ LET status   == StatusOf(exec[e].outcome)
         evidence == [paths |-> exec[e].plan.paths, candidate |-> exec[e].candidate]
         plan     == [exec[e].plan EXCEPT !.steps[exec[e].step].status = status]
     IN
     \/ /\ Store!RecordCheckpointStep(RunId, exec[e].step, status, evidence)
        /\ exec' = [exec EXCEPT ![e] =
             IF status # "succeeded" THEN IdleExec
             ELSE [IdleExec EXCEPT
                     !.pc = "step", !.plan = plan,
                     !.validated = IF exec[e].step = "validation" THEN exec[e].candidate
                                   ELSE exec[e].validated]]
     \/ /\ ~Store!CanRecordStep(run.plan, exec[e].step, status)
        /\ exec' = [exec EXCEPT ![e] = IdleExec]
        /\ UNCHANGED runs
  /\ UNCHANGED <<files, backups, pub, observed>>

(* Mutant of ClosesOn: whatever the last validation said, the candidate is *)
(* the one of the moment.                                                  *)
ClosesOnAny(e, candidate) == candidate # Nil

ClosesOn(e, candidate) == exec[e].validated # Nil /\ candidate = exec[e].validated

(* All steps done: the candidate must still be the validated one; it is    *)
(* recomputed before the store is asked to complete the plan with it.      *)
Close(e) ==
  /\ exec[e].pc = "step"
  /\ Remaining(exec[e].plan) = {}
  /\ LET candidate == CandidateForPaths(exec[e].plan.paths) IN
     exec' = IF ClosesOn(e, candidate)
             THEN [exec EXCEPT ![e].pc = "complete", ![e].candidate = candidate]
             ELSE [exec EXCEPT ![e] = IdleExec]
  /\ UNCHANGED <<runs, files, backups, pub, observed>>

Complete(e) ==
  /\ exec[e].pc = "complete"
  /\ exec' = [exec EXCEPT ![e] = IdleExec]
  /\ \/ Store!CompleteCheckpointPlan(RunId, exec[e].candidate)
     \/ ~Store!CanComplete(run.plan) /\ UNCHANGED runs
  /\ UNCHANGED <<files, backups, pub, observed>>

CrashExec(e) ==
  /\ exec[e].pc # "idle"
  /\ exec' = [exec EXCEPT ![e] = IdleExec]
  /\ UNCHANGED <<runs, files, backups, pub, observed>>
-----------------------------------------------------------------------------
(* checkpoint_commit: candidate, authorization, git, receipt. *)
Receipt(candidate) ==
  [strategy |-> run.strategy, scope |-> Scope, paths |-> DOMAIN candidate,
   validation |-> Validation, candidate |-> candidate, target |-> Major]

ComputeCandidate(paths) ==
  /\ pub.pc = "idle"
  /\ CandidateForPaths(paths) # Nil
  /\ pub' = [pc |-> "authorize", candidate |-> CandidateForPaths(paths)]
  /\ UNCHANGED <<runs, files, backups, exec, observed>>

(* Mutant of MayPublish: the run is not asked. *)
AlwaysPublishes(candidate) == run.strategy # "none"

MayPublish(candidate) ==
  run.strategy # "none" /\ Store!Authorized(run, Receipt(candidate))

Authorize ==
  /\ pub.pc = "authorize"
  /\ pub' = IF MayPublish(pub.candidate) THEN [pub EXCEPT !.pc = "stage"] ELSE IdlePub
  /\ UNCHANGED <<runs, files, backups, exec, observed>>

(* git add of the declared paths; anything else in the index aborts, after *)
(* a reset of the index.                                                   *)
Stage ==
  /\ pub.pc = "stage"
  /\ LET paths == DOMAIN pub.candidate
         added == [p \in Paths |-> IF p \in paths THEN tree[p] ELSE index[p]]
     IN IF {p \in Paths : head[p] # added[p]} \subseteq paths
        THEN index' = added /\ pub' = [pub EXCEPT !.pc = "commit"]
        ELSE index' = head /\ pub' = IdlePub
  /\ UNCHANGED <<runs, head, tree, backups, exec, observed>>

(* git commit takes the whole index. *)
Commit ==
  /\ pub.pc = "commit"
  /\ index # head
  /\ head' = index
  /\ commits' = Append(commits,
       [candidate |-> pub.candidate,
        content |-> [p \in {q \in Paths : index[q] # head[q]} |-> index[p]]])
  /\ pub' = [pub EXCEPT !.pc = "receipt"]
  /\ UNCHANGED <<runs, index, tree, backups, exec, applied, doubtful, pristine, green>>

(* Mutant of CommitFails: the exit code of git commit is ignored. *)
CommitFailureIgnored ==
  /\ pub.pc = "commit"
  /\ pub' = [pub EXCEPT !.pc = "receipt"]
  /\ UNCHANGED <<runs, files, backups, exec, observed>>

(* git commit fails (a hook, an empty index): what was staged stays so.    *)
CommitFails ==
  /\ pub.pc = "commit"
  /\ pub' = IdlePub
  /\ UNCHANGED <<runs, files, backups, exec, observed>>

RecordReceipt ==
  /\ pub.pc = "receipt"
  /\ pub' = IdlePub
  /\ \/ Store!RecordCheckpoint(RunId, Receipt(pub.candidate))
     \/ ~Store!Authorized(run, Receipt(pub.candidate)) /\ UNCHANGED runs
  /\ UNCHANGED <<files, backups, exec, observed>>

(* Also a git add that fails, or a rev-parse after the commit. *)
CrashPub ==
  /\ pub.pc # "idle"
  /\ pub' = IdlePub
  /\ UNCHANGED <<runs, files, backups, exec, observed>>
-----------------------------------------------------------------------------
(* The people and agents around: the independent validation of a completed *)
(* plan is recorded, files are edited and staged, the run is abandoned.    *)
RecordValidation(plan) ==
  /\ plan.completed
  /\ Store!RecordProgress(RunId,
       [action |-> Store!PhaseRecordAction[run.phase], kind |-> "validation",
        validation |-> Validation, candidate |-> plan.candidate,
        paths |-> plan.paths, target |-> plan.targetMajor])
  /\ UNCHANGED <<files, backups, exec, pub, observed>>

Edit(p) ==
  /\ Rewrites(p)
  /\ UNCHANGED <<runs, head, index, backups, exec, pub, observed>>

StageEdit(p) ==
  /\ index[p] # tree[p]
  /\ index' = [index EXCEPT ![p] = tree[p]]
  /\ UNCHANGED <<runs, head, tree, backups, exec, pub, observed>>

Abandon ==
  /\ Store!Abandon(RunId)
  /\ UNCHANGED <<files, backups, exec, pub, observed>>
-----------------------------------------------------------------------------
PlanInput(phase, paths) ==
  [phase |-> phase, targetMajor |-> Major, targets |-> {Package},
   paths |-> paths, requireExport |-> ManagedConfig, smoke |-> FALSE]

(* The run has just reached its first checkpoint phase. *)
AtCustomTheme ==
  [Store!NewRun(Major, "per-fix", Scope) EXCEPT
     !.phase = "custom_theme",
     !.allowedActions = Store!ActionsFor("active", "custom_theme")]

(* What a call does once it has begun. *)
CallNext(e) ==
  \/ Resume(e)
  \/ \E s \in Store!StepNames : StartStep(e, s) \/ RefuseStep(e, s)
  \/ \E backup \in Backups, outcome \in Outcomes : CreateBackup(e, backup, outcome)
  \/ BindBackup(e)
  \/ \E outcome \in Outcomes : RunCommand(e, outcome) \/ EndValidation(e, outcome)
  \/ BeginValidation(e)
  \/ ReportStep(e)
  \/ Close(e)
  \/ Complete(e)

ExecNext(e) ==
  \/ \E paths \in SUBSET Paths, resume \in BOOLEAN :
       Begin(e, PlanInput(run.phase, paths), resume)
  \/ CallNext(e)
  \/ CrashExec(e)

PubNext ==
  \/ \E paths \in SUBSET Paths : ComputeCandidate(paths)
  \/ Authorize
  \/ Stage
  \/ Commit
  \/ CommitFails
  \/ RecordReceipt
  \/ CrashPub

Others ==
  \/ \E plan \in Store!Plans(run) : RecordValidation(plan)
  \/ \E p \in Paths : Edit(p) \/ StageEdit(p)
  \/ Abandon

Next == (\E e \in Executors : ExecNext(e)) \/ PubNext \/ Others

Rest ==
  /\ index = head /\ tree = head
  /\ exec = [e \in Executors |-> IdleExec]
  /\ pub = IdlePub /\ applied = NoEffects /\ doubtful = {} /\ pristine = {}

Fresh ==
  /\ head = [p \in Paths |-> 0]
  /\ backups = {} /\ green = {} /\ commits = << >>
  /\ Rest

Init == runs = [id \in {RunId} |-> AtCustomTheme] /\ Fresh

Spec == Init /\ [][Next]_vars
-----------------------------------------------------------------------------
(***************************************************************************)
(* Properties                                                              *)
(***************************************************************************)

Receipts ==
  {i \in 1..Len(run.evidence) : run.evidence[i].kind = "checkpoint_commit"}

(* The processes are where their code can be, the files and the run well   *)
(* formed: a step in progress is one of the plan read when the call began, *)
(* and a candidate on its way to the store is about that plan's paths.     *)
TypeOK ==
  /\ Store!TypeOK
  /\ {head, index, tree} \subseteq [Paths -> Versions]
  /\ backups \subseteq Backups /\ pristine \subseteq backups
  /\ \A e \in Executors :
       /\ exec[e].pc \in {"idle", "resume", "step", "effect", "bind", "validating",
                         "report", "complete"}
       /\ exec[e].pc \notin {"idle", "resume"} => exec[e].plan # Nil
       /\ exec[e].pc \in {"effect", "bind", "validating", "report"} =>
            exec[e].step \in Remaining(exec[e].plan)
       /\ exec[e].candidate # Nil => DOMAIN exec[e].candidate = exec[e].plan.paths
  /\ pub.pc \in {"idle", "authorize", "stage", "commit", "receipt"}

(* Before a command of a plan changes the site, the plan is bound to a     *)
(* backup that was made before any of them did, whichever of the backups   *)
(* of crashed, resumed and concurrent calls that is (BindCheckpointBackup  *)
(* binds the first).                                                       *)
BackupPrecedesSiteChanges ==
  \A s \in SiteSteps : applied[s] > 0 =>
    run.plan.backup # Nil /\ run.plan.backup \in pristine

(* However often calls crash, are resumed or run at once, a command that   *)
(* changes the site runs twice for one plan only after one run of it was   *)
(* given up at its deadline, or if two calls had it in hand at once: never *)
(* after a crash, a failure or a missing command ("retrying them could     *)
(* duplicate a mutation", the comment on ResumeUnavailableCheckpoint).     *)
MutationsOnce == \A s \in Mutating : applied[s] > 1 => s \in doubtful

(* The candidate of a completed plan is one the validator found no error   *)
(* in, whatever was edited around it.                                      *)
CompletedWasValidated ==
  \A plan \in Store!Plans(run) : plan.completed => plan.candidate \in green

(* The discipline of a single operator, which the publisher relies on:     *)
(* nobody else writes the files while a publication is under way.          *)
QuietPublication == pub.pc # "idle" /\ UNCHANGED pub => UNCHANGED files

(* What a diff makes of HEAD: the paths whose content in the working tree  *)
(* is another, with it.                                                    *)
Outcome(diff) == [p \in {q \in DOMAIN diff : diff[q][3] # diff[q][1]} |-> diff[p][3]]

(* Every commit of the publisher makes of HEAD exactly what some diff does *)
(* that the validator found no error in, and touches no other path.        *)
PublishedWasValidated ==
  \A i \in 1..Len(commits) : \E diff \in green : commits[i].content = Outcome(diff)

Touches(commit, paths) == DOMAIN commit.content \cap paths # {}

(* One validated candidate is not committed twice, even when the publisher *)
(* crashed between the commit and its receipt and is called again: not     *)
(* unless a commit in between touched its paths, which can bring the same  *)
(* diff back, or the first held nothing of it (another index than the one  *)
(* that was staged).                                                       *)
CommittedOnce ==
  \A i, j \in 1..Len(commits) :
    i < j /\ commits[i].candidate = commits[j].candidate /\ Touches(commits[i], DOMAIN commits[i].candidate)
    => \E k \in (i + 1)..(j - 1) : Touches(commits[k], DOMAIN commits[i].candidate)

(* Each receipt of the run answers for a commit of its own. *)
ReceiptsHaveCommits ==
  /\ Cardinality(Receipts) <= Len(commits)
  /\ \A i \in Receipts : \E j \in 1..Len(commits) :
       commits[j].candidate = run.evidence[i].candidate
=============================================================================
