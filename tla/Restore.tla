------------------------------- MODULE Restore -------------------------------
(***************************************************************************)
(* The restore of a backup and the recovery from a restore that failed:    *)
(* restoreTransactional, swapProject and Recover of                        *)
(* internal/backup/restore.go, with the journal they leave in              *)
(* .drup/restores for whoever comes next.                                  *)
(*                                                                         *)
(* One restore of one verified backup, and any number of recoveries of it, *)
(* one process at a time.  Renames and journal writes may fail and the     *)
(* process may die between any two of them.  A directory maps a top-level  *)
(* name to the tree its content is from; .drup is never moved.             *)
(***************************************************************************)
CONSTANTS
  Before,           \* names at the top of the project before the restore
  Archived,         \* names at the top of the files archive of the backup
  Excluded,         \* names that no archive holds: .git, vendor, node_modules
  MovesMayFail,     \* whether a rename may fail
  WritesMayFail,    \* whether a journal write may fail
  Nil

ASSUME ArchiveExcludes == Archived \cap Excluded = {}
ASSUME FaultSwitches == MovesMayFail \in BOOLEAN /\ WritesMayFail \in BOOLEAN

VARIABLES
  disk,             \* the journal on disk, or Nil
  mem,              \* the journal of the running process, or Nil
  pc,               \* where that process is
  job,              \* what it does: restore or recover
  dirs,             \* the directories: the project and its copies
  preserved,        \* whether the directory previous_path names exists
  installed, moved, \* names a swap has moved in and out so far
  db,               \* the database: old, partial or new
  faults            \* a rename has failed, or a recovery began again (observation)

vars == <<disk, mem, pc, job, dirs, preserved, installed, moved, db, faults>>

Names == Before \cup Archived

(* "orphan" stands for staging directories of processes that died. *)
Dirs == {"project", "stage", "previous", "failed", "orphan"}

Trees == [Names -> {"old", "new", Nil}]
Empty == [n \in Names |-> Nil]
OldTree == [n \in Names |-> IF n \in Before THEN "old" ELSE Nil]
NewTree == [n \in Names |-> IF n \in Archived THEN "new" ELSE Nil]

States ==
  {"preflight", "rescue_created", "files_staged", "database_restored",
   "filesystem_swapping", "completed", "recovery_required", "filesystem_recovered"}

Journal == [state : States, rescue : BOOLEAN, previous : BOOLEAN]

ASSUME NilIsNothing == Nil \notin Journal \cup {"old", "new"}

Init ==
  /\ disk = Nil
  /\ mem = Nil
  /\ pc = "idle"
  /\ job = "restore"
  /\ dirs = [d \in Dirs |-> IF d = "project" THEN OldTree ELSE Empty]
  /\ preserved = FALSE
  /\ installed = {} /\ moved = {}
  /\ db = "old"
  /\ faults = FALSE

(* Mutant of HasIncompleteRestore: only a restore known to have failed. *)
HasFailedRestore == disk # Nil /\ disk.state = "recovery_required"

HasIncompleteRestore == disk # Nil /\ disk.state # "completed"

Held(d) == {n \in Names : dirs[d][n] # Nil}

(* A rename, onto whatever has that name. *)
Moved(n, from, to) ==
  [dirs EXCEPT ![from][n] = Nil, ![to][n] = dirs[from][n]]

Reaches(next, state) == pc' = next /\ mem' = [mem EXCEPT !.state = state]

(* Mutant of Returns: the staging tree stays. *)
ReturnsKeepingStage == pc' = "idle" /\ mem' = Nil /\ installed' = {} /\ moved' = {} /\ dirs' = dirs

(* The call returns, and its deferred RemoveAll takes the staging tree. *)
Returns ==
  /\ pc' = "idle"
  /\ mem' = Nil
  /\ dirs' = [dirs EXCEPT !["stage"] = Empty]
  /\ installed' = {} /\ moved' = {}

(* recovery and fail: the journal says so if it can still be written. *)
GivesUp ==
  /\ \/ disk' = [mem EXCEPT !.state = "recovery_required"]
     \/ WritesMayFail /\ disk' = disk
  /\ Returns
-----------------------------------------------------------------------------
(* RestoreCheck and the preflight journal; if that cannot be written,      *)
(* nothing happens.  disk = Nil is the bound of one restore.               *)
Begin ==
  /\ pc = "idle"
  /\ ~HasIncompleteRestore
  /\ disk = Nil
  /\ disk' = [state |-> "preflight", rescue |-> FALSE, previous |-> FALSE]
  /\ mem' = disk'
  /\ pc' = "rescue"
  /\ job' = "restore"
  /\ UNCHANGED <<dirs, preserved, installed, moved, db, faults>>

CreateRescue ==
  /\ pc = "rescue"
  /\ mem' = [mem EXCEPT !.state = "rescue_created", !.rescue = TRUE]
  /\ pc' = "write"
  /\ UNCHANGED <<disk, job, dirs, preserved, installed, moved, db, faults>>

Extract ==
  /\ pc = "extract"
  /\ dirs' = [dirs EXCEPT !["stage"] = NewTree]
  /\ Reaches("write", "files_staged")
  /\ UNCHANGED <<disk, job, preserved, installed, moved, db, faults>>

(* drush sql:cli: the import is not atomic. *)
BeginImport ==
  /\ pc = "import"
  /\ db' = "partial"
  /\ pc' = "importing"
  /\ UNCHANGED <<disk, mem, job, dirs, preserved, installed, moved, faults>>

EndImport ==
  /\ pc = "importing"
  /\ db' = "new"
  /\ Reaches("write", "database_restored")
  /\ UNCHANGED <<disk, job, dirs, preserved, installed, moved, faults>>

(* Mutant of Swapping: the journal does not name the preserved tree yet. *)
SwappingUnnamed == [mem EXCEPT !.state = "filesystem_swapping"]

Swapping == [mem EXCEPT !.state = "filesystem_swapping", !.previous = TRUE]

(* What follows once the journal says so. *)
AfterWrite ==
  [rescue_created |-> "extract", files_staged |-> "import", filesystem_swapping |-> "swap"]

WriteJournal ==
  /\ pc = "write"
  /\ mem.state \in DOMAIN AfterWrite
  /\ disk' = mem
  /\ pc' = AfterWrite[mem.state]
  /\ UNCHANGED <<mem, job, dirs, preserved, installed, moved, db, faults>>

(* database_restored is followed by filesystem_swapping at once. *)
WriteDatabaseRestored ==
  /\ pc = "write"
  /\ mem.state = "database_restored"
  /\ disk' = mem
  /\ mem' = Swapping
  /\ UNCHANGED <<pc, job, dirs, preserved, installed, moved, db, faults>>

WriteLast ==
  /\ pc = "write"
  /\ mem.state \in {"completed", "filesystem_recovered"}
  /\ disk' = mem
  /\ Returns
  /\ UNCHANGED <<job, preserved, db, faults>>

WriteFails ==
  /\ pc = "write"
  /\ WritesMayFail
  /\ IF mem.state \in {"completed", "filesystem_recovered"}
     THEN Returns /\ UNCHANGED disk
     ELSE GivesUp
  /\ UNCHANGED <<job, preserved, db, faults>>

(* Rescue backup, extraction, environment, import or verification fails. *)
StepFails ==
  /\ pc \in {"rescue", "extract", "import", "importing", "verify"}
  /\ GivesUp
  /\ UNCHANGED <<job, preserved, db, faults>>

Verify ==
  /\ pc = "verify"
  /\ Reaches("write", "completed")
  /\ UNCHANGED <<disk, job, dirs, preserved, installed, moved, db, faults>>
-----------------------------------------------------------------------------
(* swapProject: every name of the project moves to the saving directory,   *)
(* then every name of the stage moves in; a failure undoes both, as far as *)
(* it can be undone.                                                       *)
Saving == IF job = "restore" THEN "previous" ELSE "failed"

BeginSwap ==
  /\ pc = "swap"
  /\ pc' = "out"
  /\ preserved' = (preserved \/ job = "restore")
  /\ UNCHANGED <<disk, mem, job, dirs, installed, moved, db, faults>>

MoveOut ==
  /\ pc = "out"
  /\ \E n \in Held("project") :
       /\ dirs' = Moved(n, "project", Saving)
       /\ moved' = moved \cup {n}
  /\ UNCHANGED <<disk, mem, pc, job, preserved, installed, db, faults>>

AllOut ==
  /\ pc = "out"
  /\ Held("project") = {}
  /\ pc' = "in"
  /\ UNCHANGED <<disk, mem, job, dirs, preserved, installed, moved, db, faults>>

MoveIn ==
  /\ pc = "in"
  /\ \E n \in Held("stage") :
       /\ dirs' = Moved(n, "stage", "project")
       /\ installed' = installed \cup {n}
  /\ UNCHANGED <<disk, mem, pc, job, preserved, moved, db, faults>>

AllIn ==
  /\ pc = "in"
  /\ Held("stage") = {}
  /\ IF job = "restore"
     THEN pc' = "verify" /\ UNCHANGED mem
     ELSE Reaches("write", "filesystem_recovered")
  /\ UNCHANGED <<disk, job, dirs, preserved, installed, moved, db, faults>>

(* A rename fails, or the directory cannot be made or read. *)
SwapFails ==
  /\ pc \in {"swap", "out", "in"}
  /\ MovesMayFail
  /\ pc' = "undo"
  /\ faults' = TRUE
  /\ UNCHANGED <<disk, mem, job, dirs, preserved, installed, moved, db>>

(* Mutant of UndoesOut: what was moved out comes back first. *)
UndoesOutFirst == moved # {}

(* What was moved in leaves again before what was moved out comes back. *)
UndoesOut == moved # {} /\ installed = {}

(* Each rename of the rollback may fail, which nobody notices. *)
UndoIn ==
  /\ pc = "undo"
  /\ ~UndoesOut
  /\ \E n \in installed :
       /\ installed' = installed \ {n}
       /\ dirs' \in {dirs, Moved(n, "project", "stage")}
  /\ UNCHANGED <<disk, mem, pc, job, preserved, moved, db, faults>>

UndoOut ==
  /\ pc = "undo"
  /\ UndoesOut
  /\ \E n \in moved :
       /\ moved' = moved \ {n}
       /\ dirs' \in {dirs, Moved(n, Saving, "project")}
  /\ UNCHANGED <<disk, mem, pc, job, preserved, installed, db, faults>>

Undone ==
  /\ pc = "undo"
  /\ installed = {} /\ moved = {}
  /\ IF job = "restore" THEN GivesUp ELSE Returns /\ UNCHANGED disk
  /\ UNCHANGED <<job, preserved, db, faults>>
-----------------------------------------------------------------------------
(* Mutant of Recoverable: a restore cut short in its swap is recovered too. *)
RecoverableInSwap ==
  disk # Nil /\ disk.state \in {"recovery_required", "filesystem_swapping"} /\ disk.previous

Recoverable == disk # Nil /\ disk.state = "recovery_required" /\ disk.previous

(* Recover: the preserved tree is staged and swapped in. *)
BeginRecover ==
  /\ pc = "idle"
  /\ Recoverable
  /\ preserved
  /\ mem' = disk
  /\ job' = "recover"
  /\ pc' = "unstash"
  /\ faults' = (faults \/ job = "recover")
  /\ UNCHANGED <<disk, dirs, preserved, installed, moved, db>>

Unstash ==
  /\ pc = "unstash"
  /\ \E n \in Held("previous") : dirs' = Moved(n, "previous", "stage")
  /\ UNCHANGED <<disk, mem, pc, job, preserved, installed, moved, db, faults>>

AllUnstashed ==
  /\ pc = "unstash"
  /\ Held("previous") = {}
  /\ pc' = "swap"
  /\ UNCHANGED <<disk, mem, job, dirs, preserved, installed, moved, db, faults>>

UnstashFails ==
  /\ pc = "unstash"
  /\ MovesMayFail
  /\ Returns
  /\ faults' = TRUE
  /\ UNCHANGED <<disk, job, preserved, db>>
-----------------------------------------------------------------------------
(* The process dies: no deferred call runs. *)
Crash ==
  /\ pc # "idle"
  /\ pc' = "idle"
  /\ mem' = Nil
  /\ installed' = {} /\ moved' = {}
  /\ dirs' = [dirs EXCEPT
                !["stage"] = Empty,
                !["orphan"] = [n \in Names |->
                   IF dirs["stage"][n] = Nil \/ @[n] = "old" THEN @[n] ELSE dirs["stage"][n]]]
  /\ UNCHANGED <<disk, job, preserved, db, faults>>

Swap == BeginSwap \/ MoveOut \/ AllOut \/ MoveIn \/ AllIn \/ SwapFails \/ UndoIn \/ UndoOut \/ Undone

RestoreNext ==
  \/ Begin \/ CreateRescue \/ Extract \/ BeginImport \/ EndImport \/ Verify
  \/ WriteJournal \/ WriteDatabaseRestored \/ WriteLast \/ WriteFails
  \/ StepFails
  \/ Swap
  \/ Crash

RecoverNext == BeginRecover \/ Unstash \/ AllUnstashed \/ UnstashFails

Next == RestoreNext \/ RecoverNext

Spec == Init /\ [][Next]_vars
-----------------------------------------------------------------------------
(***************************************************************************)
(* Properties                                                              *)
(***************************************************************************)

(* Journals and trees are well formed; a process has a journal while it    *)
(* runs, and a staging tree only then.                                     *)
TypeOK ==
  /\ disk \in Journal \cup {Nil}
  /\ mem \in Journal \cup {Nil}
  /\ job \in {"restore", "recover"}
  /\ dirs \in [Dirs -> Trees]
  /\ preserved \in BOOLEAN
  /\ installed \subseteq Names /\ moved \subseteq Names /\ faults \in BOOLEAN
  /\ db \in {"old", "partial", "new"}
  /\ mem = Nil <=> pc = "idle"
  /\ pc = "idle" => dirs["stage"] = Empty

(* Write-ahead: the database is touched only once the journal on disk      *)
(* names a rescue backup, and the project tree only once it names the      *)
(* place where the old tree is kept, so that whoever finds the journal     *)
(* after a crash knows where to look.                                      *)
JournalPrecedesEffects ==
  /\ db # "old" => disk # Nil /\ disk.rescue
  /\ dirs["project"] # OldTree => disk # Nil /\ disk.previous

(* The interlock (HasIncompleteRestore) is open only on a project that is  *)
(* whole: the old database under the old tree, or the restored one under   *)
(* the restored tree.                                                      *)
InterlockGuardsHalfRestored ==
  ~HasIncompleteRestore =>
    \/ db = "old" /\ dirs["project"] = OldTree
    \/ db = "new" /\ dirs["project"] = NewTree

(* Every name of the old tree is still somewhere. *)
OldTreeHeld == \A n \in Before : \E d \in Dirs : dirs[d][n] = "old"

(* A restore never loses the old tree, however its swap fails, is undone,  *)
(* fails to be undone, or is cut short.                                    *)
OldTreeKept == job = "restore" => OldTreeHeld

(* The first recovery of a swap in which no rename failed gives the old    *)
(* tree back, wherever the restore died or could not write its journal. A  *)
(* recovery begun on top of one that was cut short counts as a fault.      *)
FirstRecoveryGivesOldTree ==
  disk # Nil /\ disk.state = "filesystem_recovered" /\ ~faults => dirs["project"] = OldTree
==============================================================================
