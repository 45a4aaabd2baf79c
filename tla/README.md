# A TLA+ verification of drup

drup helps an AI agent (or a person) upgrade a Drupal project. It is one Go
binary with two faces over the same code: an MCP server, whose tools an agent
calls one at a time, and a command line. Both work on a *project*: a git
repository with a Drupal site, whose directory `.drup/` holds drup's own durable
state. The upgrade itself is done by other programs (git, composer, drush, a
container runtime); what drup adds, and what is modelled here, is the authority
to act, the order in which things are done, the evidence that they were done,
and what is left behind when something fails in the middle.

Paths below are relative to `src/internal/` unless they begin with `docs/`.

## 1. Inventory

### Components, their state and operations

| component | state | operations | what makes it hard |
|---|---|---|---|
| run store, `runstate/runstate.go` | one JSON file per run: status, phase, allowed actions, evidence, checkpoint plan and its history, confirmations | `Create`, `Record`, `BeginCheckpointPlan`, `RecordCheckpointStep`, `BindCheckpointBackup`, `ResumeCheckpointPlan`, `CompleteCheckpointPlan`, `RecordCheckpoint`, `Confirm`, `Block`, `ResolveBlock`, `Abandon`, inventory and plan records, the guard `ValidateMutation` | long legal sequences of calls; evidence that names another candidate, plan or phase; `storeMu` is local to a process |
| checkpoint executor, `app/checkpoint_executor.go` | local to a call: a copy of the plan, the candidate, whether validation ran | `CheckpointExecute`, resume, one command per step | crashes between an effect and its record, two processes, commands that time out, files edited during the call |
| publication, `app/checkpoint.go`, `gitops/gitops.go` | git's HEAD, index and working tree | `CheckpointCommit`: candidate, authorization, `git add`, `git commit`, receipt | each step may fail or be the last one; the tree changes under it |
| operation ledger, `operation/operation.go` | `.drup/operations.json`: request id, tool, fingerprint, state, outcome | `FindRequest`, `Start`, `Complete`, `Fail`, `Unknown`, `Reconcile` | retries of lost answers, restarts, two servers |
| guard and session, `app/guard.go`, `session/`, `audit/` | session lock, mode, mutation log | `guardedSpecCall`: policy, ledger, freshness, cap, handler, audit, outcome | ambiguous failures; a counter at its limit; records that are not written |
| restore, `backup/restore.go` | the project tree, the preserved tree, the stage, a journal | `Restore`, `swapProject` with rollback, `Recover`, `HasIncompleteRestore` | a rename fails in a loop of renames, in its rollback, in the recovery; crashes |
| backups, `backup/backup.go` | directories with archive, dump and manifest | `Create`, `List`, `Delete`, newest manifest | half-made directories, age at the freshness gate |
| core upgrade, `app/commands.go`, `coreupgrade/` | composer.json and its backup, lock, code, database | `RunUpgradeCore`, `core_upgrade_apply` | nine external commands in a row, each of which may fail; a repeated call after a half-done one |
| compatibility fixes and patches, `app/compat.go`, `app/lenient.go`, `app/contrib_patch.go`, `patch/`, `patchreconcile/` | composer.json, patch files, code of modules that git ignores | `AllowLenient`, `PatchContribForCore`, `patch.Apply`, `create_patch` | partial failure between the code, the patch file and its registration |
| analyses, `app/mcp_tools.go`, `app/cleanup.go`, `scan/` | Upgrade Status required and enabled in the site; the evidence hash a client pins | `scan`, `validate`, `upgrade_scan`, `prepare_upgrade_status`, `cleanup` | commands that fail without saying so, deadlines, commands that outlive them, code edited meanwhile |
| planning, `upgradeplan/`, `contribplan/`, `semver/` | none | pure functions | boundaries of version ranges |
| bounded execution, `exec/exec.go` | processes started since a snapshot | `Run` with a deadline, `killNewProcessGroups` | concurrent calls kill one another's children |
| self update, `update/` | the binary, the extracted one next to it, its backup | check, download, verify, replace, restore | failure of the replacement and of its undoing, crashes |
| installer, `installer/`, `state/`, `packaging/`, `multiharness/` | per agent its skills, its roles and commands, and its configuration, backups of the first and the last, `state.json` | install, sync, uninstall | user edits, torn writes, retention shared by agents, a record that drifts from what is installed |
| MCP server, `mcp/` | none durable | a sequential request loop, retries of read-only tools | a handler that runs again while the world changes |
| other workflow handlers, inventory, reports, drupal.org client, environment detection | none durable | parse, call, format | little |

`PROJECT.json` repeats the list with a status for each.

### How they interact

    agent -> mcp -> guardedSpecCall -+-> session, ledger, freshness, cap
                                     +-> run store: ValidateMutation
                                     +-> handler -> executor / publication / restore / ...
    person -> command line -----------> the same handlers, without the guard
    executor, publication -> run store, backups, git, working tree
    analyses -> drush and composer, under deadlines; mcp retries the read-only ones
    install, sync, upgrade, uninstall -> the user's home: agents' files, state, binary
    restore -> journal; ValidateMutation reads it (the interlock)

Everything shared is a file: run files, ledger, mutation log, journal, index and
working tree, in the user's home the agents' files. Every process writes drup's own by
write-and-rename (the agents' files are truncated and written), but the mutexes that
make read-modify-write atomic are Go mutexes of one process, while several
processes of one project are normal (an MCP server per agent session, and the
command line). People edit the working tree throughout.

### What must be right

* **Authority.** One run of a project may act; it advances phase by phase, through
  a checkpoint phase only after a checkpoint of that phase was executed and
  validated; a receipt answers for a validation of the same diff; a finished run
  is inert; no proof already given is lost.
* **Checkpoint.** A backup precedes the first change of the database; no command
  that changes the site runs twice after a crash or a failure; what is completed is
  what the validator saw; what is committed is what was completed; commits and
  receipts match.
* **Ledger.** A request is handled at most once and always answered alike, the
  ledger does not claim what did not happen, doubt blocks repetition, the cap holds.
* **Shared run files.** Whatever processes overwrite of each other's updates, a phase that
  a run file says is passed has its proof in that file, and no step overtook another.
* **Analyses.** An answer reports what was there; a pinned validation passes on that
  evidence only; Upgrade Status is never enabled without its code; a request is answered.
* **Delivery.** The binary is replaced only by a whole, verified release; what is overwritten
  of a user's is kept; an agent on record is up to date or known not to be.
* **Composer commands.** A reported upgrade has requirements, lock, code and database
  at the target; a failed one can be undone without losing what others
  registered; a patch is applied and registered or neither; a patch made of a
  module records all that was changed in it.
* **Restore.** The journal is ahead of the effects, the old tree survives, the
  interlock is closed on half-restored projects, recovery gives the old tree back.

Some of these the code keeps with exceptions; each property states its own, and section 6
tells what they are. The hazards that threaten these, each at its line, are in `PROJECT.json` under
"hazards", with the properties that would catch them or the reason why none does.

## 2. Modules

| module | models | extends or instantiates |
|---|---|---|
| `RunAuthority` | abstract specification: who may act, which stage, which stages are proved, how many publications | |
| `RunState` | the run store | `RunAuthority` under a refinement mapping (`Authority`) |
| `RunStateProofs` | theorems about `RunState`, and that it implements `RunAuthority` | `RunState`, `TLAPS` |
| `RunFiles` | the run files between processes | `RunState`, once on what is on disk and once on what a process has read |
| `RunFilesProofs` | theorems about `RunFiles` | `RunFiles`, `TLAPS`, and `RunStateProofs` twice: on the disk and on what is in hand |
| `Checkpoint` | executors, publisher, git and working tree | `RunState` as its store (`Store`) |
| `CheckpointProofs` | theorems about `Checkpoint` | `Checkpoint`, `TLAPS`, and `RunStateProofs` on its store (`Kept`) |
| `OperationLedger` | ledger, guard, session, log and cap, several servers | |
| `OperationLedgerProofs` | theorems about `OperationLedger` | `OperationLedger`, `TLAPS` |
| `Restore` | restore, recovery, journal, interlock | |
| `RestoreProofs` | theorems about `Restore` | `Restore`, `TLAPS` |
| `ComposerCommands` | core upgrade, lenient list, patches of modules | |
| `ComposerCommandsProofs` | theorems about `ComposerCommands` | `ComposerCommands`, `TLAPS` |
| `Delivery` | install, sync, upgrade, uninstall over a user's home | |
| `DeliveryProofs` | theorems about `Delivery` | `Delivery`, `TLAPS` |
| `Scans` | the MCP server answering analyses, preparation and cleanup | |
| `ScansProofs` | theorems about `Scans` | `Scans`, `TLAPS` |
| `MCRunState`, `MCRunFiles`, `MCCheckpoint`, `MCOperationLedger`, `MCComposerCommands` | bounds for TLC | the module of the same name |

### RunState

`runs[id]` is the run file of `id`, `Nil` when there is none. An action is one
call of the Store method of its name and is the whole method: one
that changes status or phase recomputes the allowed actions too. A call that returns an error changes
nothing and is not an action. Plans, step states and evidence are records with
the fields the code reads back; validations and receipts are the only evidence
kept, since no other kind is ever read. A diff is an opaque candidate identity.
Summaries, timestamps and payload hashes are left out. The identity of a plan
(phase, major, targets, paths, export, smoke) is compared field by field as in
`sameCheckpointIdentity`.

`Authority` maps each run to a standing, a stage (the rank of its phase), the
checkpoint phases of which it holds a completed plan, and a number of receipts.
Under this mapping the store implements `RunAuthority` (run `run_whole`).

### RunFiles

`storeMu` makes an operation atomic among the goroutines of one process and among nothing
else. One process is followed from its read of the files (`Read`, after which `memory` is
what it knows) to its rename (`Rename`), which puts what it computed from `memory` over what
is on `disk` by then; `GiveUp` is a refusal, a failed write or a death. Operations of all
other processes (`Others`) are whole and fall in between, any number of them. The operations
are those of `RunState`, instantiated twice, so that no second model of the store exists.
Two slow processes at once are not followed. For the two invariants of `run_files_races` one is
enough: each speaks of one file, a rename replaces the whole of it, and what is renamed was
computed from a file that satisfied them, whoever else was slow meanwhile.

### Checkpoint

Processes that share the run files. `exec[e]` is a call of `checkpoint_execute`:
its program counter, the plan it read at the start, the step at hand and its
outcome, the candidate and backup it has obtained. One action per stretch of the
code between two accesses to shared state, so that whatever another process or a
person does between them is explored. `pub` is a call of `checkpoint_commit` in
the same manner. `head`, `index` and `tree` give every path a version; a
candidate is what the three hold for the declared paths, because the hash of
`CandidateForPaths` is computed from `git diff`, `git diff --cached` and the
untracked content. An edit may undo another one, and a diff come back. People edit
(`Edit`) and stage (`StageEdit`); a command ends well, badly, not at all because it is
missing, or at its deadline, when it may have had its effect; a crash
(`CrashExec`, `CrashPub`) forgets the locals and nothing else. The variables
marked *(observation)* record what happened and are read by no guard.

The composition with the store is by instance: `Store!BeginCheckpointPlan`,
`Store!RecordCheckpointStep` and the others are the very actions `RunStateProofs`
proves about.

### OperationLedger

A server handles one call at a time (the request loop of `mcp/server.go` is
sequential), so the program counter of `servers[s]` is that of
`guardedSpecCall`. A ledger operation is two actions, the read of the file
(`seen`) and the rename over it, because `ledgerMu` holds other goroutines off but
not other processes. `mode` says whether the session is guarded, locked, or opened
with the unsafe opt-out. Ledger writes may fail; log records may be lost when
`LogLosesRecords`. Requests have an id and an effect: two requests with one
effect have the same tool and fingerprint.

### Restore

The directories map names to the tree each entry comes from (`old`, `new`), one
rename per action. The journal has the statuses of the code; a failed write of it
leaves the previous content. `faults` counts failed renames and is observation.
The archive holds some names; `.git`, `vendor` and the like are excluded by
`backup.go:247`. One restore is followed by any number of recoveries.

### ComposerCommands

`composer`, `lock` and `patches` are the files, `head` what is committed of them,
`backup` is `composer.json.bak`. `code`, `db`, `plugin` and `tree` are what git does not
see: the installed core, its database, the lenient plugin in `vendor/`, and for each
module the changes made to what its project published. A patch is a set of
changes, so `git apply --check` is disjointness and `git diff` a difference. `call`
is the running command, with what it read when it began and its next step; one
action per external command or write, a failing twin where the code looks at the
outcome. Where the code ignores an error, the action goes on as if nothing had happened:
the backup (`WriteBackup`), the restoration (`restoreComposerJSON`) and `git apply -R`
(`RegisterAppliedFails`). drup writes composer.json and its backup with `os.WriteFile`, so a
write that fails leaves the file as it was or `Torn`; a torn composer.json stops every later
command that parses it. `last` is the command that ended last, with which outcome and
with which of its own writes lost; `unfinished` is whether the core requirement was moved
outside a complete upgrade (both observations). People commit, discard and
install between commands. composer and composer-patches are external, modelled from
how the code calls them: `update` resolves only if core-dev follows, and may fail
before or after it wrote the lock; installing a module anew gives it its registered
patches.

### Delivery

One command at a time over a home: `cmd` is the running command with what it loaded, the
agents it still has to visit and the plan for the one at hand. An agent has three files: the
skill, which stands for its skills directory; the role, for the roles and commands that drup
writes elsewhere; and the configuration, which is the user's and holds one entry of
drup's. Before a write drup copies the first and the last of them (`Archived`) and never the
role. `TomlAgents` are edited as text and so render from anything, the others refuse a
torn file. A file is what the user wrote last and the version of drup it carries, or `Torn`.
Each write may fail, tear the file, or be the last one; each save of the state may fail; the
download may be of something else, which only the checksum tells; the replacement of the
binary may fail, and its restoration too. The server may name any release as the latest,
and the binary be any build at first: drup refuses only an equal version. Agents appear and
users edit between any two steps. `late`, `cut` and `unnoted` are observations.

### Scans

`call` is the request at work: its tool, the step whose command runs, the attempt, and the
evidence it is pinned to. One action per command: it succeeds, breaks (perhaps after its
work was done), or meets its deadline, when the handler goes on and the command has had
its effect, has none, or has it later (`SurvivorEnds`), whichever command it is. The
outcomes of a step are what the handler does with them: an error, one that `retryLoop`
takes for transient, a doubt that the guard reports as unknown, or nothing at all. The site
is three facts: the package required, the module enabled, and the set of findings of the
code, which its authors change at any time (`CodeChanges`). An output is a report, blank,
drush notices only, or garbage. `seen` is what there was to find since the request, `belated`
whether a `drush en` or a `composer remove` had its effect after its deadline (observations).

## 3. Runs

Passing runs:

| run | question | distinct states | bounds |
|---|---|---|---|
| `run_whole` | do all phases need proved plans; step order, backed receipts, one live run, finality, no completed plan lost; does the store implement `RunAuthority`? | 23,290 | two environments: 1 run with one commit at its end, to that end, with one candidate, one plan per checkpoint phase (6), 7 pieces of evidence, smoke steps and inventories; 1 run with the per-fix strategy through 2 checkpoint phases, 2 candidates, 2 plans, 3 pieces of evidence, plans begun under a changed configuration, blocked, resolved or abandoned anywhere, and a second run in its first phase until the leading one has evidence |
| `run_files_races` | what holds in spite of lost updates | 20,670 | 1 run through its first checkpoint phase, one plan, 2 pieces of evidence, active or blocked; one slow process, others without bound |
| `checkpoint_shared` | mutations once but for timeouts and two calls at a step, backup before the site changes, completed was validated, published was validated, no candidate committed twice, commits and receipts | 517,138 | three environments: 2 executors of a plan, every outcome of every command; the same with files edited, outcomes ok and failed; or one executor at a time, the publisher, 2 plans in 2 phases, failing commits, edits and their undoing; 1 path of 2 contents, 2 backups, 4 pieces of evidence, crashes in all |
| `ledger_once` | at most one handling, equal answers, true outcomes, cap, no repetition of the unknown | 51,467 | 1 server, restarts in any mode, 2 requests, 2 effects, cap 1, lost log records |
| `restore_recover` | journal ahead of effects, old tree kept, the interlock, what a recovery gives back | 18,873 | 1 restore, any number of recoveries, every rename and journal write may fail, crashes |
| `composer_whole` | what success and failure of the commands mean | 372,632 | 3 commands, 1 module, 1 upstream patch, the catalogue drup ships (10 to 11), core-dev required or not, every step may fail or be the last, every write fail or tear its file |
| `delivery_home` | records that are true or known not to be, what the user wrote kept, a binary replaced by whole releases only | 4,045,964 | 2 agents (one JSON, one text) with 3 files each, 2 releases in any order, 1 backup of a kind, 1 edit, 1 failure or death, commands without bound |
| `scans_site` | faithful answers, a module with its code, every request answered | 942,316 | 2 findings (one informational), 3 attempts as in the code, every command may outlive its deadline, requests without bound |

Runs that TLC must find violated are the findings of section 6.

**Why the bounds are enough.** A checkpoint plan is tied to one phase, and six
phases differ only by the update step of three of them and by the strategy that
publishes, so two consecutive checkpoint phases show every hand-over; `run_whole`
walks all of them once. Plans interact only pairwise (the current one and one it
supersedes). A candidate can be right, or wrong; two values make both. The executor's
commands are independent of how often it was called before, except through
what the run file and the tree hold; two contents of a file are enough for an edit, for its
undoing and for a diff that comes back. Two backups are the bound and the orphan.
Two executors suffice for a lost update. A second commit of one candidate, which `CommittedOnce`
allows after a commit that touched its paths, needs more room than this run has (a third plan):
it was reached once, by a trace of 85 steps, with 3 plans and 6 pieces of evidence. The
theorem does not depend on that. In the ledger one request more than the
cap is needed. A race of run files needs one operation that has read and any number that
have not. In `Delivery` two agents show what one does to the other's backups and record, one
backup kept is the tightest limit there is, and one fault at every point what each alone does; two
faults in one history (a torn file and then a failed upgrade) are beyond the bound. In
`Scans` two findings tell the counted from the uncounted and a report from part of it. Of the
composer commands one pair is needed to change something and to depend on it, and a third for
a repetition between them; modules do not interact except through composer.json, which a
command writes as a whole. In `Restore` one name on both sides under different content, one
that only the project has and one that only the archive has let a loop of renames
fail at the start, in the middle and at the end.

**Bounds are constraints on actions, not on the model.** `StepWithinBounds` and the other
ACTION_CONSTRAINTs of the MC modules cut steps beyond the
`Bounds` of a run's strategy, or beyond `MaxRank`, `MaxPlans`, `MaxEvidence` and `MaxVersion`. The
VIEW of `MCRunFiles` forgets what a process has read once it has renamed. Managed
configuration, whose plans have one step more (the export), is left to the proofs: with
`ManagedConfig` TRUE the run finds nothing either, in 1,617,030 states. `checkpoint_shared`
has three environments, told apart by the commit strategy of the run, `ExecutorsAlone`,
`ExecutorsAndEdits` and `OneAtATime`, which has `QuietPublication` in it. That one is a real
assumption: without it `PublishedWasValidated` fails (section 6).

**Deadlock** is not checked (`CHECK_DEADLOCK FALSE`) but in the runs of `Scans`: a finished
or abandoned run, a completed restore, a home without drup, a bounded set of requests and the
bounds themselves are all ends the system really has; the server is never at an end. That a
request is answered is `EveryCallAnswered`.

**Fairness** is stated for what a call does by itself, never for changes of the code, new
requests or commands that go on. `Spec` of `Scans` has weak fairness of `Serve`: each of
its commands runs under a deadline of `runBounded`, so every step is taken, if only as
`TimesOut`; nothing is assumed of how often they time out. No liveness is stated of the
executor: its loop visits each step of the plan once and every other branch of it returns
(`app/checkpoint_executor.go:143`).

## 4. What is proved

For every value of the constants, by TLAPS. `PROJECT.json` lists the theorems by the
property they state.

**The run store** (`RunStateProofs`): the invariants `TypeCorrect`, `OneLiveRun`,
`OrderedSteps`, `PassedPhases`, `BackedReceipts`, and the action properties
`CompletedPlansAreKept` and `TheEndIsFinal`. The assumptions are that the absent value is
none of the data and no run (`NilIsNoData`, `NilIsNoRecord`): the code's empty string is
refused wherever such data is required.

None of the invariants is inductive alone. The invariant is `Inv`: every run file is well
formed, every run is `Sound` (together `FilesSound`), and no two runs are live. `Sound` says:

* *orderly plans*: in the current plan and in each plan of the history, a step that
  is not pending has all its predecessors succeeded, and a completed plan has
  all its steps succeeded and a candidate. Without the history `Record` could
  not be shown to rely on real work, because it accepts evidence for a retired plan;
* *backed receipts*: to each receipt in the evidence an earlier validation of the
  same paths and candidate. It is a statement on positions of a sequence that
  only grows, hence the lemmas on `Append`;
* *proved passed phases*: for each checkpoint phase ranked below the current one
  there is a completed plan in the run. It is kept by `Record` because of
  `authorizeCheckpointProgress`, and by the plan operations because a superseded
  completed plan goes to the history and a completed step cannot be reopened.

The step of the induction goes through one description of every operation, `WritesSound`: it
replaces one file by a sound run, which is live only if it was or if no run was (`WrittenInv`).
The plan operations have a finer one, `RewritesPlan`, which the other results use again;
lemmas above them say what each operator on plans and runs preserves. The action properties
follow from `FilesSound` and `TakesNothingBack`: every completed plan of the old file
is in the new one, and a finished run keeps its end. That needs the invariant, since only an
orderly plan has no step left that an operation could record anew. What stands of a completed
plan is its identity, backup and steps: `CompleteCheckpointPlan` may complete it again under
another candidate (`runstate/runstate.go:544`), so the candidate is no part of the property.

**The refinement** (also in `RunStateProofs`): `StoreImplementsAuthority`, the store implements
`RunAuthority` under the mapping of `RunState`. What the authority sees of a run depends on
its file alone, and an operation changes the view of its own run only (`SavedView`); so each
operation is placed by what it changes of one file: nothing that shows (`Unseen`), a run that
opens, a phase proved, a stage advanced, a publication, a change of standing. One case per
action of `RunState`. The enabling conditions of the abstract steps come from
`FilesSound` and `AtMostOneLiveRun`.

**Executor and publisher** (`CheckpointProofs`), for any paths, backups, executors and
outcomes of commands, from the assumptions of `RunState` on its store and `BoundsAreTyped`. The
store is not proved again: each step of a call or of the publisher that touches the run
file is shown to be an operation of the store, so the file stays `FilesSound` by the lemmas
of `RunStateProofs`, instantiated as `Kept`. To that `Typed` adds what each process
holds at each of its steps, which gives `TypeCorrect`. The others need more:

* `CompletedAreValidated`: a candidate on its way to a completion is a validated diff wherever
  it is: in the call that computed it, in the evidence of the validation step, in a plan that is
  completed or superseded (`Validated`). No hypothesis on who else calls, edits or crashes.
* `ReceiptsAnswerForCommits`: a publisher at its last step is one commit ahead of the receipts
  in the file (`Answered`).
* `BackupsComeFirst` assumes `OneExecutor`. Then what a call has read of the plan is still what
  the file says of it, but for the step that it has set running (`InPlace`), and that step could
  only be set running behind a backup that had succeeded; `BackedUp` says that until then
  nothing has changed the site, so any backup made until then is one from before.
* `MutationsHappenOnce`, with no hypothesis: a mutation of the current plan takes effect twice
  only if a call gave one run of it up at its deadline, or if two calls had it in hand at once
  (`doubtful`). For every other mutation the invariant `Once` says that at most one call has it in
  hand, and that it has had no effect while its step may still be run or run again.
* `CommitsAreNew`, with no hypothesis although the run assumes `QuietPublication`: a candidate
  starts where HEAD is (`FromHead`), and until a commit touches its paths again HEAD differs on
  them from where a commit of anything of it found them (`MovedOn`), so the same candidate can only
  be had again after such a commit. That edits may be undone does not matter to the argument.
* `PublishedAreValidated` assumes `[][QuietPublication]_vars`. Then the index and the tree keep,
  from the candidate to the commit, what the candidate says of them (`Publishing`), so what is
  committed is what the candidate makes of HEAD.

The two hypotheses are needed: without each of them section 6 has a behaviour in which the
property fails. That a backup precedes the changes also with two executors of *one* plan is
checked by `checkpoint_shared` only; with two plans it is false.

**The server and Upgrade Status** (`ScansProofs`), for any findings and number of attempts, every
command being free to outlive its deadline: `ServerTypes` (with `HandlerInPlace`, which step a
tool's handler can be at); `AnswersAreFaithful`, by `Faithful`, which adds that during a
request what the code holds has been seen and nothing has been answered yet; and
`ModuleStaysWhole`, whose invariant `WholeModule` adds to the property that the module is not
enabled while its package is being removed. Both properties state their exception, an analysis
that broke with exit code 3 and notices only and a late `drush en` or `composer remove`
(section 6); the theorems have no hypothesis.

**The home** (`DeliveryProofs`), for any agents, releases in any order, number of backups kept,
edits and faults, from `BoundsAreNumbers` and `NilAndTornAreNoContent` (a missing
or torn file is no content and no release). `DeliveryTyped` says where a command is and what it
then holds (`CommandInPlace`, `UpgradeSound`: when the new binary is renamed into place, what lies
next to it is the verified release and the backup is the binary it replaces), which gives
`BinaryIsReplacedWhole`. The other two need invariants of their own:

* `RecordedAgentsCarryTheirVersion` is about idle states, so the invariant (`DeliverySound`)
  has to say what holds in the middle of a command: an install loses none of the agents it
  began with, those it has done carry its version, the files it will not write carry
  it already, and an agent whose removal has begun counts as cut short. An upgrade that could not
  record the version it installed adds it to `unnoted`, and a later sync writes that one. The heart
  of it is `NotCutCarries`: an agent keeps what it carries through every step, or that step cuts it
  short.
* `OverwrittenFilesAreKept`, of the skills directory and the configuration: at each step that
  writes one of them, it has been copied, or was edited since, or holds nothing of the user's
  (`CopySound`). The lemma `BackupIsKept` says that the newest copy survives the pruning, whatever the limit.

**The run files between processes** (`RunFilesProofs`): `ProofsAreNotOverwritten` and
`OrderIsNotOverwritten`, for any runs and data. The invariant is that what is on disk and
what the slow process has in hand are both `FilesSound`: what it read was a run file, what it
computes from it is sound by the lemmas on the operations of the store, and a rename puts one
sound run over another. No lemma is proved twice: `RunStateProofs` is instantiated on either
set of files. Of the assumptions those lemmas need `NilIsNoData` and `NilIsNoRecord` are
those of `RunState`, stated of the constants of `RunFiles`. That at most one run is live
does not carry over, since it relates two files: `run_files_two_live`.

**The ledger** (`OperationLedgerProofs`), for any requests, effects and cap, from
`NilIsNothing`. Two theorems hold for any number of servers: `TypeCorrect`, by `Typed`, which
says what a call names at each step and that a server has a ledger in hand only between the two
halves of a ledger operation; and `CapIsKept`, whose invariant `CapCounts` says that a session
spends no more than the log counts and that a call past the gates has a record left, whoever
else logs in between. The
other four, `HandlerRunsOnce`, `ReplaysAgree`, `EntriesAreTrue` and `UnknownIsNotRepeated`, assume
`OneServer`: with two servers `HandledOnce` fails (section 6), because the ledger that is
renamed over need not be the one that was read. Their invariant `LedgerTrue` says of each request
what its entry tells of the handler's runs and of the answers given (`EntryTrue`), and of the
call what its step tells (`CallTrue`): what it has read is still the ledger, its entry is
started from the gates to the outcome, and its handler has run only if it is past it. A server
that dies leaves a started entry whose handler may or may not have run; that is why
`EntryTrue` says of such an entry only that nothing was answered.

**Restore** (`RestoreProofs`), for any names in the archive and in the project and any faults,
from `NilIsNothing`: `JournalIsAhead`, `OldTreeIsKept`, `InterlockIsOpenOnlyOnWhole`,
`FirstRecoveryIsWhole`. The invariant says where a process is and what its journal says there
(`ProcessInPlace`, `JournalInPlace`: the journal in memory is never behind the one on disk), and
where each entry of the trees is. The second part is by phase of the swap (`RestoreTrees`): before
it nothing has moved; while entries move out, they are in the project or in the preserved tree;
while they move in, each name is in exactly one of project and stage (`Split`); when a failed
swap is undone, what was moved in is new and what was moved out is old, so no rename of the
rollback can land on an old entry. `RecoverTrees` says the same of a recovery as long as no
rename has failed and no recovery before it was cut short (both are `faults`),
`RestoreDatabase` that files are swapped over a restored database only,
which is what the interlock relies on.

**Composer commands** (`ComposerCommandsProofs`), for any catalogue, packages, patches and
number of commands, from `NilIsNothing` and `TornIsNoFile`: `UpgradesComplete`,
`FailedUpgradesRecover`, `LenientTakesEffect`, `ApplyAllOrNothing`, `PatchesRecordChanges`. Each
property speaks of the command that ended last, so each gets an invariant on the command that
runs: what an upgrade has brought to the target by each of its steps and which file its backup
holds (`UpgradeInPlace`), that the plugin is there when
a package is listed (`LenientInPlace`), that a patch waiting to be registered changed the
code by its own changes and nothing else (`ApplyInPlace`), and that what a contrib-patch is about to
register is all that differs from the published code (`PatchInPlace`); and one lemma that
people's steps between commands end the claim, because they forget the last command. The answer
"already at target" needs an invariant between commands, `CoreInPlace`: while every move of the
core requirement was completed, requirements, lock, code and database are at one major. Nothing is
assumed of the writes: what the code makes of a lost one is in the properties (`lost`).

TLC checked each of these invariants on the small instances before it was proved.

## 5. What is only model-checked

Every safety property that a passing run checks is also a theorem, some under a hypothesis.
TLC alone shows:

* liveness (`EveryCallAnswered`), which the prover does not handle;
* `BackupPrecedesSiteChanges` with two executors of one plan (`checkpoint_shared`): the proof
  rests on a call's reading of the plan staying true, which it does for one executor only.

## 6. Findings

Places where the code does something other than what a comment or a document of
the repository says. Each is a run in which TLC finds the property violated;
`PROJECT.json` quotes the line.

| run | what happens |
|---|---|
| `run_stranded_plan` | `Record` advances on an older completed plan and leaves the open plan of the old phase in the run file, which blocks every later plan |
| `run_files_two_live` | two processes create a run at once, neither sees the other's file, both runs are active; docs/mcp-tools.md:480 says the second is rejected |
| `upgrade_false_noop` | composer.json is at the target and lock, code and database are not, after `core_upgrade_apply` or an upgrade that failed or died; the next `upgrade-core` answers "already at target" with success. The comments at `app/commands.go:1609` and `coreupgrade/apply.go:123` mean to rule this out |
| `scans_false_zero` | `upgrade_scan` answers with success and no findings when its analysis failed without output; docs/mcp-tools.md:236 says it stops at the first failing step |

The models show more, of which no run is kept. Each of these is a behaviour of a model, with
the bound or assumption lifted where one is named:

* "The effect may have happened. Do not retry with this or a new equivalent request ID"
  (docs/mcp-tools.md:98, of an unknown operation): an operation whose server died in the
  handler stays started, and `Start` refuses an equivalent request only for an unknown one
  (`operation/operation.go:142`), so the effect is repeated under a new id.
* A completed restore leaves the project without `.git`, `vendor` and the media, which no
  archive holds and `swapProject` moves out with the rest (`backup/restore.go:336`; with
  `Excluded` not empty), although `backup/backup.go:247` leaves `.git` out so as not to
  destroy work.
* A rename that fails during a recovery loses what was already in its stage, whose removal is
  deferred (`backup/restore.go:418`).
* When `composer update` fails after it wrote the lock, composer.json goes back to the old
  major and composer.lock does not; the comment at `app/commands.go:876` says that "the
  project is never left with constraints its lock cannot satisfy".
* `TerminalIsFinal` on the files of `RunFiles`: an operation that had read the run before it
  was abandoned renames an active run over the abandoned one; docs/upgrade-workflow.md:22
  calls such runs terminal.
* `ModuleKeepsItsCode` without `belated`: a `composer remove` that goes on after its deadline
  takes the package from under a module that was enabled again, and a `drush en` that goes on
  enables a module that is then removed (`exec/exec.go:208`).
* `AnswersReportSite` without its exception: an analysis that breaks with exit code 3 and leaves
  only notices (lines that begin with `[`, such as drush's own errors) is no findings to
  `isNoFindingsOutput` (`scan/checkstyle.go:109`), and the guard against a crash asks for an empty
  output (`app/mcp_tools.go:438`, `app/commands.go:473`): scan and validate report success with
  zero findings. docs/mcp-tools.md:226 warns of exit code 3 with *empty* stdout only.
* What a user wrote into a role or a command file that drup installs is lost at the next install
  or sync that changes it, in `agents/`, `commands/` or the project's instruction file:
  `BackupConfig` archives the skills directory (`installer/installer.go:1273`), while
  `writeFileContent` writes wherever `resolveFilePath` says (1168-1185).
* An upgrade may be to an older version: drup compares the latest release with its own version
  for equality (`app/commands.go:767`), so a withdrawn release, a backport or a newer local build
  takes the binary back. Nothing in the repository says otherwise.
* An uninstall that removed all it found leaves an agent with drup: sync writes to every
  agent it detects, recorded or not (`app/commands.go:682`; the comment above it says "all
  previously installed agents"), install forgets those that failed this time, and uninstall
  visits those on record, although the comment at `app/commands.go:1742` says that it
  "removes drup from all installed agents".
* `MutationsOnce` without `doubtful`, in two ways. A command that timed out counts as
  unavailable (`app/checkpoint_executor.go:279`) and is run again on resume, although the comment
  on `ResumeUnavailableCheckpoint` (`runstate/runstate.go:475`) leaves "in-flight effects" blocked
  "because retrying them could duplicate a mutation". And `RecordCheckpointStep` accepts
  running over running (`runstate/runstate.go:434`), so two calls run one command.
* `BackupPrecedesSiteChanges` with two executors and two plans: `RecordCheckpointStep` does not
  ask whose step it records, so a call whose plan another executor has meanwhile completed and
  superseded goes on with its steps, and changes the site while the new plan has no backup.
* `PublishedWasValidated` without `QuietPublication`: what is edited between the
  candidate and `git add` (`app/checkpoint.go:83`) is committed.
* Steps of a run that was abandoned or blocked during the call are still started
  (`RecordCheckpointStep` asks for the plan only), although
  docs/upgrade-workflow.md:22 calls such runs terminal.
* `HandledOnce` with two servers: both read a ledger without the request and both
  rename theirs over it (`operation/operation.go:131`).
* `FirstRecoveryGivesOldTree` without `~faults`: after a rolled-back swap the preserved
  tree exists and is empty; recovering from it moves the project away and installs
  nothing (`backup/restore.go:411`). The same happens when a recovery is begun on top of one
  that was cut short.
* `FailedUpgradeIsRecoverable` without `lost`: the error of the backup's write is
  ignored (`app/commands.go:1541`), so after a failed update the restoration does nothing, or puts
  back the backup of an earlier failed upgrade; its own error is ignored too
  (`app/commands.go:881`) and may leave a torn composer.json.
* `ApplyIsAtomic` without `lost`: the result of `git apply -R` is ignored (`patch/patch.go:174`),
  so "not applied" may leave the patch in the code; and registering it truncates composer.json
  before it writes (`patch/patch.go:420`).

These are visible in the actions themselves:

* `upgrade_scan` refuses unless `prepare_upgrade_status` was called before, while
  docs/mcp-tools.md:113 and 230-238 say that it installs and enables the module.
* `scan` counts findings without the informational rows, `validate` and `upgrade_scan` with
  them (`scan/checkstyle.go:88`): the same site has two totals.
* `prepare_upgrade_status` takes a `pm:list` that fails for one that does not name the module,
  and deletes the configuration of a module that is enabled (`app/mcp_tools.go:1228`).
* After an upgrade that died before its last save nothing says that the agents are to be
  synced, and the binary is newer than the record (`app/commands.go:785`); the error of
  loading the state is ignored there, and a state file that cannot be read ends the process.
* `state.Remove` looks for the legacy directory in `~/.config`, not in the home its comment
  names, so that directory and the spare binary in it stay (`state/state.go:144`).
* In the contrib phases `composer update` is the first step of a plan, before its backup
  (`runstate/runstate.go:608`); docs/upgrade-workflow.md:10 asks for a fresh backup
  "before guarded mutation checkpoints".
* `toolAllowed` (`runstate/runstate.go:1082`) has no case for `checkpoint_commit`, which
  docs/mcp-tools.md:17 lists as a guarded tool: only the command line can publish.
* A contrib-patch that failed after it widened the declaration leaves the widened file in
  the module. The next call takes its copy to compare with from there
  (`app/contrib_patch.go:102`), so its patch, and its report of success, lack the
  declaration; and a patch of the same major overwrites the file of an earlier one.
* `create_patch` leaves rector's changes in the module although docs/mcp-tools.md says
  it does not apply the patch; applying it then fails `git apply --check`.
* drup's own files pass the first clean check of the upgrade (`app/commands.go:1508`) and
  fail the second one (`coreupgrade/apply.go:134`).

## 7. Abstractions and limits

* In `RunState` and `Checkpoint` a store operation is atomic, also between
  processes; the code ensures it within one. `RunFiles` lifts the assumption for the store
  alone, not for the executors and the publisher that use it; `OperationLedger` does not
  make it of the ledger.
* `RunFiles` follows one slow process. What it shows holds for any runs and data (section 4), but for
  one such process only.
* Contents in `Checkpoint` are numbered versions, of which an edit takes any other one; a
  candidate is what HEAD, index and tree hold of its paths.
* Commands of the executor are an outcome and an effect on at most one path.
  Detecting the environment and parsing the validator's output are their results.
* Freshness of the backup and the decision of `ValidateMutation` are inputs of the
  ledger model (`toolAllowed`).
* `Restore` is one restore of one backup; two restores at once are a hazard no
  property covers yet.
* `ComposerCommands` runs one command at a time, as its callers do; `rector.php` and drup's
  other own files, the wording of constraints and the download of patches are left out.
* In `Delivery` commands do not run at the same time; the several skills of an agent are one
  file, its roles and commands another; that a rendering may fail is its refusal of a torn
  configuration.
* In `Scans` the filters by scope, module and file are left out, the configuration that
  `prepare_upgrade_status` deletes (`update.settings`), and what else a
  session does: each tool's own guard is `OperationLedger`.
* Not modelled, for good: parsing, formatting, wording, HTTP, generated contracts,
  reports and inventories, and the start-up of the programs.

## 8. Plan

Modules, in order:

1. `Backups`: `Create` step by step with failures and crashes, listing, deletion, and the
   freshness gate reading the newest manifest; the guard of `OperationLedger` on top of it.
2. `WorkflowGuards`: preflight, branch, and the tools a phase allows, composed with the
   guard of `OperationLedger`.
3. `PatchReconcile`: patches carried to a new release, rolled back, and the custom
   compatibility fixes, on top of `ComposerCommands`.
4. `Plans`: upgrade and contrib planning and version ranges as functions, compared with
   reference definitions over bounded inputs.
5. The registry of processes of `exec/exec.go` with two servers on one machine.

Theorems: each of these modules is to be proved about in the form of section 4. Of what
exists, the assumption `OneServer` of the ledger could be replaced by the weaker one that no
two servers handle requests at once, and `OneExecutor` of `Checkpoint` likewise.
