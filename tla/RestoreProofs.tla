---------------------------- MODULE RestoreProofs ----------------------------
(* Theorems about Restore, for any names and with or without faults.       *)
EXTENDS Restore, TLAPS

(***************************************************************************)
(* Where a process is, and what the journal then says                      *)
(***************************************************************************)

Steps ==
  {"idle", "rescue", "write", "extract", "import", "importing",
   "swap", "out", "in", "undo", "verify", "unstash"}

(* The states a restore goes through before its outcome is written.        *)
RestoreStates == {"preflight", "rescue_created", "files_staged", "database_restored", "filesystem_swapping"}

(* What a process does at each of its steps, and the state its own journal *)
(* is in.                                                                  *)
ProcessInPlace ==
  /\ pc \in Steps
  /\ pc \in {"rescue", "extract", "import", "importing", "verify"} => job = "restore"
  /\ pc = "unstash" => job = "recover"
  /\ pc = "rescue" => mem.state = "preflight"
  /\ pc = "extract" => mem.state = "rescue_created"
  /\ pc \in {"import", "importing"} => mem.state = "files_staged"
  /\ pc = "write" /\ job = "restore" =>
       mem.state \in {"rescue_created", "files_staged", "database_restored",
                      "filesystem_swapping", "completed"}
  /\ pc = "write" /\ job = "recover" => mem.state = "filesystem_recovered"
  /\ pc \in {"swap", "out", "in", "undo", "verify"} /\ job = "restore" =>
       mem.state = "filesystem_swapping"
  /\ pc = "idle" => installed = {} /\ moved = {}
  /\ pc = "undo" => faults

(* The journal in memory is never behind the one on disk, and the one on   *)
(* disk is never behind the effects of the step.                           *)
JournalInPlace ==
  /\ disk = Nil => job = "restore" /\ pc = "idle" /\ ~preserved
  /\ pc # "idle" => (disk.rescue => mem.rescue) /\ (disk.previous => mem.previous)
  /\ pc # "idle" => (mem.previous => mem.rescue)
  /\ disk # Nil => (disk.previous => disk.rescue)
  /\ pc \notin {"idle", "rescue"} => mem.rescue
  /\ pc \in {"extract", "import", "importing"} => disk.rescue
  /\ pc = "write" =>
       /\ mem.state \notin {"rescue_created", "files_staged"} => disk.rescue
       /\ mem.state = "filesystem_swapping" => mem.previous
       /\ mem.state \in {"completed", "filesystem_recovered"} => disk.previous
  /\ pc \in {"swap", "out", "in", "undo", "verify", "unstash"} => disk.previous
  /\ pc # "idle" /\ job = "restore" => disk.state \in RestoreStates
  /\ job = "recover" => disk.state \in {"recovery_required", "filesystem_recovered"}
  /\ pc # "idle" /\ job = "recover" => disk.state = "recovery_required"

Places == ProcessInPlace /\ JournalInPlace

(***************************************************************************)
(* Where the trees are                                                     *)
(***************************************************************************)

(* Every name of a tree is in x or in y, and in one of them only.          *)
Split(x, y, tree) ==
  \A n \in Names : \/ x[n] = tree[n] /\ y[n] = Nil
                   \/ x[n] = Nil /\ y[n] = tree[n]

BeforeSwap ==
  \/ pc \in {"rescue", "extract", "import", "importing", "swap"}
  \/ pc = "write" /\ mem.state # "completed"

Restored == pc = "verify" \/ (pc = "write" /\ mem.state = "completed")

(* Where the trees are during the restore. What a swap undoes, it undoes   *)
(* name by name: what it moved in is new and what it moved out is old, so  *)
(* that neither rename of the rollback can cover an old name.              *)
RestoreTrees ==
  job = "restore" =>
    /\ \A n \in Before : dirs["project"][n] = "old" \/ dirs["previous"][n] = "old"
    /\ \A n \in Names : dirs["stage"][n] # "old" /\ dirs["previous"][n] \in {OldTree[n], Nil}
    /\ \A n \in installed : dirs["project"][n] = "new"
    /\ \A n \in moved : dirs["previous"][n] = "old"
    /\ BeforeSwap => dirs["project"] = OldTree /\ ~preserved
    /\ pc \in {"import", "importing", "swap", "out"} => dirs["stage"] = NewTree
    /\ pc = "write" /\ mem.state \in {"files_staged", "database_restored", "filesystem_swapping"} =>
         dirs["stage"] = NewTree
    /\ pc = "out" => \A n \in Names : dirs["project"][n] \in {OldTree[n], Nil}
    /\ pc = "in" => Split(dirs["project"], dirs["stage"], NewTree)
    /\ Restored => dirs["project"] = NewTree
    /\ pc = "in" \/ Restored => dirs["previous"] = OldTree
    /\ disk # Nil /\ disk.state = "completed" => dirs["project"] = NewTree

(* The files are swapped, and the outcome is written, only over a restored *)
(* database.                                                               *)
RestoreDatabase ==
  /\ job = "restore" =>
       /\ pc \in {"swap", "out", "in", "verify"} => db = "new"
       /\ pc = "write" /\ mem.state \in {"database_restored", "filesystem_swapping", "completed"} =>
            db = "new"
  /\ disk # Nil /\ disk.state = "completed" => db = "new"

(* Where the old tree is while no rename has failed: preserved when a      *)
(* restore gives up after its swap, and split between two directories at   *)
(* every step of a recovery.                                               *)
RecoverTrees ==
  ~faults =>
    /\ job = "restore" /\ preserved /\ disk # Nil /\ disk.state = "recovery_required" =>
         dirs["previous"] = OldTree
    /\ pc = "unstash" => Split(dirs["previous"], dirs["stage"], OldTree)
    /\ job = "recover" /\ pc \in {"swap", "out"} => dirs["stage"] = OldTree
    /\ job = "recover" /\ pc = "in" => Split(dirs["project"], dirs["stage"], OldTree)
    /\ job = "recover" /\ pc = "write" => dirs["project"] = OldTree
    /\ disk # Nil /\ disk.state = "filesystem_recovered" => dirs["project"] = OldTree

(***************************************************************************)
(* Types                                                                   *)
(***************************************************************************)

LEMMA TreesAreTrees ==
  Empty \in Trees /\ OldTree \in Trees /\ NewTree \in Trees
BY DEF Empty, OldTree, NewTree, Trees

LEMMA MovedIsTree ==
  ASSUME TypeOK, NEW n \in Names, NEW from \in Dirs, NEW to \in Dirs
  PROVE  Moved(n, from, to) \in [Dirs -> Trees]
BY DEF TypeOK, Moved, Trees

LEMMA ReturnsTyped ==
  ASSUME TypeOK, Returns
  PROVE  /\ mem' = Nil /\ pc' = "idle" /\ installed' = {} /\ moved' = {}
         /\ dirs' \in [Dirs -> Trees] /\ dirs'["stage"] = Empty
BY TreesAreTrees DEF Returns, TypeOK, Dirs

LEMMA MarkedIsJournal ==
  ASSUME NEW j \in Journal, NEW s \in States
  PROVE  [j EXCEPT !.state = s] \in Journal
BY DEF Journal

LEMMA TypeInit == Init => TypeOK
BY TreesAreTrees DEF Init, TypeOK, Dirs, Journal

LEMMA TypeNext == TypeOK /\ [Next]_vars => TypeOK'
<1> SUFFICES ASSUME TypeOK, [Next]_vars PROVE TypeOK'
    OBVIOUS
<1> USE TreesAreTrees, NilIsNothing
<1>1. CASE UNCHANGED vars
      BY <1>1 DEF TypeOK, vars
<1>2. CASE Begin
      <2>1. disk' \in Journal /\ mem' \in Journal
            BY <1>2 DEF Begin, Journal, States
      <2>2. QED BY <1>2, <2>1 DEF Begin, TypeOK
<1>3. CASE CreateRescue
      <2>1. mem' \in Journal
            BY <1>3 DEF CreateRescue, TypeOK, Journal, States
      <2>2. QED BY <1>3, <2>1 DEF CreateRescue, TypeOK
<1>4. CASE Extract
      <2>1. mem' \in Journal
            BY <1>4, MarkedIsJournal DEF Extract, Reaches, TypeOK, States
      <2>2. QED BY <1>4, <2>1 DEF Extract, Reaches, TypeOK, Dirs
<1>5. CASE BeginImport \/ EndImport
      <2>1. mem' \in Journal
            BY <1>5, MarkedIsJournal DEF BeginImport, EndImport, Reaches, TypeOK, States
      <2>2. QED BY <1>5, <2>1 DEF BeginImport, EndImport, Reaches, TypeOK
<1>6. CASE Verify \/ AllIn
      <2>1. mem' \in Journal
            BY <1>6, MarkedIsJournal DEF Verify, AllIn, Reaches, TypeOK, States
      <2>2. QED BY <1>6, <2>1 DEF Verify, AllIn, Reaches, TypeOK
<1>7. CASE WriteJournal
      BY <1>7 DEF WriteJournal, AfterWrite, TypeOK
<1>8. CASE WriteDatabaseRestored
      <2>1. mem' \in Journal /\ disk' \in Journal
            BY <1>8 DEF WriteDatabaseRestored, Swapping, TypeOK, Journal, States
      <2>2. QED BY <1>8, <2>1 DEF WriteDatabaseRestored, TypeOK
<1>9. CASE WriteLast \/ WriteFails \/ StepFails \/ Undone \/ UnstashFails
      <2>1. Returns /\ UNCHANGED <<job, preserved, db>> /\ faults' \in BOOLEAN
            BY <1>9 DEF WriteLast, WriteFails, StepFails, Undone, UnstashFails, GivesUp, TypeOK
      <2>2. pc # "idle" => [mem EXCEPT !.state = "recovery_required"] \in Journal
            BY MarkedIsJournal DEF TypeOK, States
      <2>3. disk' \in Journal \cup {Nil}
            BY <1>9, <2>2 DEF WriteLast, WriteFails, StepFails, Undone, UnstashFails, GivesUp, TypeOK
      <2>4. QED BY <2>1, <2>3, ReturnsTyped DEF TypeOK
<1>10. CASE BeginSwap \/ AllOut \/ SwapFails \/ AllUnstashed
      BY <1>10 DEF BeginSwap, AllOut, SwapFails, AllUnstashed, TypeOK
<1>11. CASE MoveOut \/ MoveIn \/ UndoIn \/ UndoOut \/ Unstash
      <2>1. dirs' \in [Dirs -> Trees] /\ installed' \subseteq Names /\ moved' \subseteq Names
            BY <1>11, MovedIsTree
            DEF MoveOut, MoveIn, UndoIn, UndoOut, Unstash, Held, Saving, Dirs, TypeOK
      <2>2. QED BY <1>11, <2>1 DEF MoveOut, MoveIn, UndoIn, UndoOut, Unstash, TypeOK
<1>12. CASE BeginRecover
      BY <1>12 DEF BeginRecover, Recoverable, TypeOK
<1>13. CASE Crash
      <2>1. dirs' \in [Dirs -> Trees] /\ dirs'["stage"] = Empty
            BY <1>13 DEF Crash, TypeOK, Dirs, Trees
      <2>2. QED BY <1>13, <2>1 DEF Crash, TypeOK
<1>14. QED
      BY <1>1, <1>2, <1>3, <1>4, <1>5, <1>6, <1>7, <1>8, <1>9, <1>10, <1>11, <1>12, <1>13
      DEF Next, RestoreNext, RecoverNext, Swap

(***************************************************************************)
(* Places                                                                  *)
(***************************************************************************)

(* A journal whose state is set keeps what it names.                       *)
LEMMA MarkedFields ==
  ASSUME NEW j \in Journal, NEW s \in States
  PROVE  /\ [j EXCEPT !.state = s].state = s
         /\ [j EXCEPT !.state = s].rescue = j.rescue
         /\ [j EXCEPT !.state = s].previous = j.previous
BY DEF Journal

(* A restore that gives up leaves the journal as it was, or says so and    *)
(* names all that the process knew (recovery, fail).                       *)
LEMMA GivesUpMarks ==
  ASSUME TypeOK, pc # "idle", GivesUp
  PROVE  \/ UNCHANGED disk
         \/ /\ disk' # Nil /\ disk'.state = "recovery_required"
            /\ disk'.rescue = mem.rescue /\ disk'.previous = mem.previous
<1> DEFINE marked == [mem EXCEPT !.state = "recovery_required"]
<1>1. mem \in Journal /\ "recovery_required" \in States
      BY DEF TypeOK, States
<1>2. /\ marked # Nil /\ marked.state = "recovery_required"
      /\ marked.rescue = mem.rescue /\ marked.previous = mem.previous
      BY <1>1, MarkedFields, MarkedIsJournal, NilIsNothing
<1>3. disk' = marked \/ disk' = disk
      BY DEF GivesUp
<1> HIDE DEF marked
<1> QED BY <1>2, <1>3

LEMMA PlacesInit == Init => Places
BY DEF Init, Places, ProcessInPlace, JournalInPlace, Steps

(* Every step leaves the process and its journal in place.                 *)
LEMMA PlacesNext == TypeOK /\ Places /\ [Next]_vars => Places'
<1> SUFFICES ASSUME TypeOK, Places, [Next]_vars PROVE Places'
    OBVIOUS
<1> USE NilIsNothing DEF Places, ProcessInPlace, JournalInPlace, Steps
<1>0. /\ pc # "idle" => mem \in Journal /\ disk \in Journal
      /\ pc = "idle" => mem = Nil
      BY DEF TypeOK
<1>1. CASE UNCHANGED vars
      BY <1>1 DEF vars
<1>2. CASE Begin
      <2>1. /\ disk' # Nil /\ mem'.state = "preflight" /\ disk' = mem'
            /\ disk'.rescue = FALSE /\ disk'.previous = FALSE /\ disk'.state = "preflight"
            <3>1. disk' = [state |-> "preflight", rescue |-> FALSE, previous |-> FALSE] /\ mem' = disk'
                  BY <1>2 DEF Begin
            <3>2. disk' \in Journal
                  BY <3>1 DEF Journal, States
            <3>3. QED BY <3>1, <3>2
      <2>2. QED BY <1>2, <2>1 DEF Begin, RestoreStates, TypeOK
<1>3. CASE CreateRescue
      <2>1. /\ mem'.state = "rescue_created" /\ mem'.rescue = TRUE
            /\ mem'.previous = mem.previous
            BY <1>3, <1>0 DEF CreateRescue, Journal
      <2>2. QED BY <1>3, <2>1, <1>0 DEF CreateRescue
<1>4. CASE Extract
      <2>1. /\ mem'.state = "files_staged" /\ mem'.rescue = mem.rescue
            /\ mem'.previous = mem.previous
            BY <1>4, <1>0, MarkedFields DEF Extract, Reaches, States
      <2>2. QED BY <1>4, <2>1, <1>0 DEF Extract, Reaches
<1>5. CASE BeginImport
      BY <1>5, <1>0 DEF BeginImport
<1>6. CASE EndImport
      <2>1. /\ mem'.state = "database_restored" /\ mem'.rescue = mem.rescue
            /\ mem'.previous = mem.previous
            BY <1>6, <1>0, MarkedFields DEF EndImport, Reaches, States
      <2>2. QED BY <1>6, <2>1, <1>0 DEF EndImport, Reaches
<1>7. CASE Verify
      <2>1. /\ mem'.state = "completed" /\ mem'.rescue = mem.rescue
            /\ mem'.previous = mem.previous
            BY <1>7, <1>0, MarkedFields DEF Verify, Reaches, States
      <2>2. QED BY <1>7, <2>1, <1>0 DEF Verify, Reaches
<1>8. CASE WriteJournal
      <2>1. /\ mem.state = "rescue_created" => pc' = "extract"
            /\ mem.state = "files_staged" => pc' = "import"
            /\ mem.state = "filesystem_swapping" => pc' = "swap"
            /\ mem.state \in {"rescue_created", "files_staged", "filesystem_swapping"}
            BY <1>8 DEF WriteJournal, AfterWrite
      <2>2. pc = "write" /\ disk' = mem /\ mem' = mem /\ job' = job /\ installed' = installed
            /\ moved' = moved /\ faults' = faults /\ job = "restore"
            BY <1>8, <2>1 DEF WriteJournal, TypeOK
      <2>3. QED BY <2>1, <2>2, <1>0 DEF RestoreStates
<1>9. CASE WriteDatabaseRestored
      <2>1. /\ mem'.state = "filesystem_swapping" /\ mem'.rescue = mem.rescue
            /\ mem'.previous = TRUE
            BY <1>9, <1>0 DEF WriteDatabaseRestored, Swapping, Journal
      <2>2. QED BY <1>9, <2>1, <1>0 DEF WriteDatabaseRestored, RestoreStates
<1>10. CASE WriteLast
      BY <1>10, <1>0 DEF WriteLast, Returns, RestoreStates
<1>11. CASE WriteFails
      <2>1. CASE mem.state \in {"completed", "filesystem_recovered"}
            BY <1>11, <2>1, <1>0 DEF WriteFails, Returns
      <2>2. CASE mem.state \notin {"completed", "filesystem_recovered"}
            BY <1>11, <2>2, <1>0, GivesUpMarks DEF WriteFails, GivesUp, Returns, TypeOK
      <2>3. QED BY <2>1, <2>2
<1>12. CASE StepFails
      BY <1>12, <1>0, GivesUpMarks DEF StepFails, GivesUp, Returns
<1>13. CASE BeginSwap \/ MoveOut \/ AllOut \/ MoveIn \/ SwapFails \/ UndoIn \/ UndoOut
      BY <1>13, <1>0 DEF BeginSwap, MoveOut, AllOut, MoveIn, SwapFails, UndoIn, UndoOut
<1>14. CASE AllIn
      <2>1. CASE job = "restore"
            BY <1>14, <2>1, <1>0 DEF AllIn
      <2>2. CASE job = "recover"
            <3>1. /\ mem'.state = "filesystem_recovered" /\ mem'.rescue = mem.rescue
                  /\ mem'.previous = mem.previous
                  <4>1. mem' = [mem EXCEPT !.state = "filesystem_recovered"]
                        BY <1>14, <2>2 DEF AllIn, Reaches
                  <4>2. mem \in Journal /\ "filesystem_recovered" \in States
                        BY <1>14, <1>0 DEF AllIn, States
                  <4>3. QED BY <4>1, <4>2, MarkedFields
            <3>2. QED BY <1>14, <2>2, <3>1, <1>0 DEF AllIn, Reaches
      <2>3. QED BY <2>1, <2>2 DEF TypeOK
<1>15. CASE Undone
      <2>1. CASE job = "restore"
            BY <1>15, <2>1, <1>0, GivesUpMarks DEF Undone, GivesUp, Returns
      <2>2. CASE job # "restore"
            BY <1>15, <2>2, <1>0 DEF Undone, Returns
      <2>3. QED BY <2>1, <2>2
<1>16. CASE BeginRecover
      BY <1>16 DEF BeginRecover, Recoverable
<1>17. CASE Unstash \/ AllUnstashed
      BY <1>17, <1>0 DEF Unstash, AllUnstashed
<1>18. CASE UnstashFails
      BY <1>18, <1>0 DEF UnstashFails, Returns
<1>19. CASE Crash
      BY <1>19, <1>0 DEF Crash
<1>20. QED
      BY <1>1, <1>2, <1>3, <1>4, <1>5, <1>6, <1>7, <1>8, <1>9, <1>10, <1>11, <1>12, <1>13,
         <1>14, <1>15, <1>16, <1>17, <1>18, <1>19
      DEF Next, RestoreNext, RecoverNext, Swap

(***************************************************************************)
(* The journal is ahead of the effects                                     *)
(***************************************************************************)

(* What a journal on disk names, it names for good.                        *)
LEMMA JournalKept ==
  ASSUME TypeOK, Places, [Next]_vars, disk # Nil
  PROVE  /\ disk' # Nil
         /\ disk.rescue => disk'.rescue
         /\ disk.previous => disk'.previous
<1> USE NilIsNothing
<1>1. CASE UNCHANGED disk
      BY <1>1
<1>2. CASE disk' = mem /\ pc # "idle"
      BY <1>2 DEF Places, JournalInPlace, TypeOK
<1>3. CASE GivesUp /\ pc # "idle"
      <2>1. [mem EXCEPT !.state = "recovery_required"] \in Journal
            BY <1>3, MarkedIsJournal DEF TypeOK, States
      <2>2. disk' # Nil
            BY <1>3, <2>1 DEF GivesUp
      <2>3. QED BY <1>3, <2>2, GivesUpMarks DEF Places, JournalInPlace
<1>4. QED
      <2>1. CASE UNCHANGED vars
            BY <1>1, <2>1 DEF vars
      <2>2. CASE Begin
            BY <2>2 DEF Begin
      <2>3. CASE CreateRescue \/ Extract \/ BeginImport \/ EndImport \/ Verify \/ Crash
            BY <1>1, <2>3 DEF CreateRescue, Extract, BeginImport, EndImport, Verify, Crash
      <2>4. CASE WriteJournal \/ WriteDatabaseRestored \/ WriteLast
            BY <1>2, <2>4 DEF WriteJournal, WriteDatabaseRestored, WriteLast
      <2>5. CASE WriteFails \/ StepFails \/ Undone
            BY <1>1, <1>3, <2>5 DEF WriteFails, StepFails, Undone
      <2>6. CASE BeginSwap \/ MoveOut \/ AllOut \/ MoveIn \/ AllIn \/ SwapFails \/ UndoIn \/ UndoOut
            BY <1>1, <2>6 DEF BeginSwap, MoveOut, AllOut, MoveIn, AllIn, SwapFails, UndoIn, UndoOut
      <2>7. CASE RecoverNext
            BY <1>1, <2>7 DEF RecoverNext, BeginRecover, Unstash, AllUnstashed, UnstashFails
      <2>8. QED BY <2>1, <2>2, <2>3, <2>4, <2>5, <2>6, <2>7 DEF Next, RestoreNext, Swap

(* What a rename does: the name leaves one directory, and covers whatever  *)
(* the other one had under that name.                                      *)
LEMMA MovedApplies ==
  ASSUME TypeOK, NEW n \in Names, NEW from \in Dirs, NEW to \in Dirs, from # to
  PROVE  /\ \A d \in Dirs : d # from /\ d # to => Moved(n, from, to)[d] = dirs[d]
         /\ \A m \in Names :
              /\ Moved(n, from, to)[from][m] = (IF m = n THEN Nil ELSE dirs[from][m])
              /\ Moved(n, from, to)[to][m] = (IF m = n THEN dirs[from][n] ELSE dirs[to][m])
BY DEF TypeOK, Moved, Trees

(* The deferred RemoveAll touches the staging tree only.                   *)
LEMMA ReturnsCleans ==
  ASSUME TypeOK, Returns
  PROVE  /\ dirs'["stage"] = Empty
         /\ \A d \in Dirs : d # "stage" => dirs'[d] = dirs[d]
BY DEF Returns, TypeOK, Dirs

(* So does the death of a process.                                         *)
LEMMA CrashCleans ==
  ASSUME TypeOK, Crash
  PROVE  /\ dirs'["stage"] = Empty
         /\ \A d \in Dirs : d # "stage" /\ d # "orphan" => dirs'[d] = dirs[d]
BY DEF Crash, TypeOK, Dirs

(* Only the moves of a swap, and of its rollback, change the project.      *)
LEMMA ProjectChangesInSwap ==
  ASSUME TypeOK, [Next]_vars, dirs'["project"] # dirs["project"]
  PROVE  pc \in {"out", "in", "undo"}
<1> USE DEF Dirs
<1>1. CASE UNCHANGED vars
      BY <1>1 DEF vars
<1>2. CASE Begin \/ CreateRescue \/ BeginImport \/ EndImport \/ Verify \/ WriteJournal \/ WriteDatabaseRestored
      BY <1>2 DEF Begin, CreateRescue, BeginImport, EndImport, Verify, WriteJournal, WriteDatabaseRestored
<1>3. CASE Extract
      BY <1>3 DEF Extract, TypeOK
<1>4. CASE WriteLast \/ WriteFails \/ StepFails \/ Undone \/ UnstashFails
      <2>1. Returns
            BY <1>4 DEF WriteLast, WriteFails, StepFails, Undone, UnstashFails, GivesUp
      <2>2. QED BY <2>1, ReturnsCleans
<1>5. CASE Crash
      BY <1>5, CrashCleans
<1>6. CASE BeginSwap \/ AllOut \/ AllIn \/ SwapFails \/ BeginRecover \/ AllUnstashed
      BY <1>6 DEF BeginSwap, AllOut, AllIn, SwapFails, BeginRecover, AllUnstashed
<1>7. CASE Unstash
      <2>1. PICK n \in Names : dirs' = Moved(n, "previous", "stage")
            BY <1>7 DEF Unstash, Held
      <2>2. QED BY <2>1, MovedApplies
<1>8. CASE MoveOut \/ MoveIn \/ UndoIn \/ UndoOut
      BY <1>8 DEF MoveOut, MoveIn, UndoIn, UndoOut
<1>9. QED
      BY <1>1, <1>2, <1>3, <1>4, <1>5, <1>6, <1>7, <1>8 DEF Next, RestoreNext, RecoverNext, Swap

(* Only the import changes the database.                                   *)
LEMMA DatabaseChangesInImport ==
  ASSUME [Next]_vars, db' # db
  PROVE  pc \in {"import", "importing"}
<1>1. CASE UNCHANGED vars
      BY <1>1 DEF vars
<1>2. CASE RestoreNext
      BY <1>2
      DEF RestoreNext, Begin, CreateRescue, Extract, BeginImport, EndImport, Verify, WriteJournal,
          WriteDatabaseRestored, WriteLast, WriteFails, StepFails, Crash, Swap, BeginSwap, MoveOut,
          AllOut, MoveIn, AllIn, SwapFails, UndoIn, UndoOut, Undone
<1>3. CASE RecoverNext
      BY <1>3 DEF RecoverNext, BeginRecover, Unstash, AllUnstashed, UnstashFails
<1>4. QED BY <1>1, <1>2, <1>3 DEF Next

LEMMA EffectsInit == Init => JournalPrecedesEffects
BY DEF Init, JournalPrecedesEffects, Dirs

(* The journal stays ahead of the effects.                                 *)
LEMMA EffectsNext ==
  TypeOK /\ Places /\ JournalPrecedesEffects /\ [Next]_vars => JournalPrecedesEffects'
<1> SUFFICES ASSUME TypeOK, Places, JournalPrecedesEffects, [Next]_vars
             PROVE  JournalPrecedesEffects'
    OBVIOUS
<1>1. ASSUME db' # "old" PROVE disk' # Nil /\ disk'.rescue
      <2>1. CASE db # "old"
            BY <2>1, JournalKept DEF JournalPrecedesEffects
      <2>2. CASE db' # db
            <3>1. disk # Nil /\ disk.rescue
                  BY <2>2, DatabaseChangesInImport DEF Places, JournalInPlace
            <3>2. QED BY <3>1, JournalKept
      <2>3. QED BY <1>1, <2>1, <2>2
<1>2. ASSUME dirs'["project"] # OldTree PROVE disk' # Nil /\ disk'.previous
      <2>1. CASE dirs["project"] # OldTree
            BY <2>1, JournalKept DEF JournalPrecedesEffects
      <2>2. CASE dirs'["project"] # dirs["project"]
            <3>1. disk # Nil /\ disk.previous
                  BY <2>2, ProjectChangesInSwap DEF Places, JournalInPlace
            <3>2. QED BY <3>1, JournalKept
      <2>3. QED BY <1>2, <2>1, <2>2
<1>3. QED BY <1>1, <1>2 DEF JournalPrecedesEffects

(***************************************************************************)
(* The trees of a restore                                                  *)
(***************************************************************************)

LEMMA DatabaseInit == Init => RestoreDatabase
BY DEF Init, RestoreDatabase

LEMMA DatabaseNext ==
  TypeOK /\ Places /\ RestoreDatabase /\ [Next]_vars => RestoreDatabase'
<1> SUFFICES ASSUME TypeOK, Places, RestoreDatabase, [Next]_vars PROVE RestoreDatabase'
    OBVIOUS
<1> USE NilIsNothing DEF RestoreDatabase
<1>0. /\ pc # "idle" => mem \in Journal /\ disk \in Journal
      /\ pc = "idle" => mem = Nil
      /\ job \in {"restore", "recover"}
      BY DEF TypeOK, Places, JournalInPlace
<1>1. CASE UNCHANGED vars
      BY <1>1 DEF vars
<1>2. CASE Begin
      BY <1>2 DEF Begin
<1>3. CASE CreateRescue
      BY <1>3, <1>0 DEF CreateRescue, Journal
<1>4. CASE Extract
      BY <1>4, <1>0, MarkedFields DEF Extract, Reaches, States
<1>5. CASE BeginImport
      BY <1>5, <1>0 DEF BeginImport, Places, ProcessInPlace, JournalInPlace, RestoreStates
<1>6. CASE EndImport
      BY <1>6, <1>0 DEF EndImport, Reaches
<1>7. CASE Verify
      BY <1>7, <1>0 DEF Verify, Reaches
<1>8. CASE WriteJournal
      BY <1>8, <1>0 DEF WriteJournal, AfterWrite
<1>9. CASE WriteDatabaseRestored
      BY <1>9, <1>0 DEF WriteDatabaseRestored
<1>10. CASE WriteLast
      BY <1>10, <1>0 DEF WriteLast, Returns, Places, ProcessInPlace
<1>11. CASE WriteFails \/ StepFails \/ Undone
      <2>1. pc # "idle" /\ pc' = "idle" /\ UNCHANGED db /\ (GivesUp \/ UNCHANGED disk)
            BY <1>11 DEF WriteFails, StepFails, Undone, GivesUp, Returns
      <2>2. UNCHANGED disk \/ disk'.state = "recovery_required"
            BY <2>1, GivesUpMarks
      <2>3. QED BY <2>1, <2>2
<1>12. CASE BeginSwap \/ MoveOut \/ AllOut \/ MoveIn \/ SwapFails \/ UndoIn \/ UndoOut
      BY <1>12, <1>0 DEF BeginSwap, MoveOut, AllOut, MoveIn, SwapFails, UndoIn, UndoOut
<1>13. CASE AllIn
      BY <1>13, <1>0 DEF AllIn, Reaches
<1>14. CASE RecoverNext
      BY <1>14, <1>0
      DEF RecoverNext, BeginRecover, Unstash, AllUnstashed, UnstashFails, Returns, Places, ProcessInPlace
<1>15. CASE Crash
      BY <1>15, <1>0 DEF Crash
<1>16. QED
      BY <1>1, <1>2, <1>3, <1>4, <1>5, <1>6, <1>7, <1>8, <1>9, <1>10, <1>11, <1>12, <1>13, <1>14, <1>15
      DEF Next, RestoreNext, Swap

LEMMA RestoreTreesInit == Init => RestoreTrees
<1> SUFFICES ASSUME Init PROVE RestoreTrees
    OBVIOUS
<1>1. /\ dirs["project"] = OldTree /\ dirs["stage"] = Empty /\ dirs["previous"] = Empty
      /\ installed = {} /\ moved = {} /\ pc = "idle" /\ disk = Nil
      BY DEF Init, Dirs
<1>2. \A n \in Names : Empty[n] = Nil
      BY DEF Empty
<1>3. \A n \in Before : n \in Names /\ OldTree[n] = "old"
      BY DEF OldTree, Names
<1>4. QED BY <1>1, <1>2, <1>3, NilIsNothing DEF RestoreTrees, BeforeSwap, Restored

LEMMA NoneHeld ==
  ASSUME TypeOK, NEW d \in Dirs, Held(d) = {}
  PROVE  \A n \in Names : dirs[d][n] = Nil
BY DEF Held

(* When one part of a split tree is empty, the other one is the tree.      *)
LEMMA SplitDone ==
  ASSUME NEW x \in Trees, NEW y \in Trees, NEW t \in Trees, Split(x, y, t), \A n \in Names : y[n] = Nil
  PROVE  x = t
<1>1. \A n \in Names : x[n] = t[n]
      BY DEF Split
<1> QED BY <1>1 DEF Trees

LEMMA SplitBegins ==
  ASSUME NEW x \in Trees, NEW t \in Trees, \A n \in Names : x[n] = Nil
  PROVE  Split(x, t, t)
BY DEF Split, Trees

(* Every step of a restore keeps the trees in place.                       *)
LEMMA RestoreTreesNext ==
  TypeOK /\ Places /\ RestoreTrees /\ JournalPrecedesEffects /\ [Next]_vars => RestoreTrees'
<1> SUFFICES ASSUME TypeOK, Places, RestoreTrees, JournalPrecedesEffects, [Next]_vars, job' = "restore"
             PROVE  RestoreTrees'
    BY DEF RestoreTrees
<1> USE NilIsNothing, TreesAreTrees DEF Dirs
<1>0. /\ pc # "idle" => mem \in Journal /\ disk \in Journal
      /\ pc = "idle" => mem = Nil
      /\ job \in {"restore", "recover"}
      BY DEF TypeOK, Places, JournalInPlace
<1>1. CASE UNCHANGED vars
      BY <1>1 DEF vars, RestoreTrees, BeforeSwap, Restored
<1>2. CASE Begin
      <2>1. /\ pc' = "rescue" /\ dirs["project"] = OldTree /\ ~preserved
            /\ installed = {} /\ moved = {} /\ dirs["stage"] = Empty
            /\ UNCHANGED <<dirs, preserved, installed, moved>> /\ job = "restore"
            BY <1>2 DEF Begin, JournalPrecedesEffects, Places, ProcessInPlace, JournalInPlace, TypeOK
      <2>2. disk'.state # "completed"
            BY <1>2 DEF Begin
      <2>3. QED BY <2>1, <2>2 DEF RestoreTrees, BeforeSwap, Restored
<1>3. CASE CreateRescue
      BY <1>3, <1>0 DEF CreateRescue, RestoreTrees, BeforeSwap, Restored, Journal
<1>4. CASE Extract
      BY <1>4, <1>0, MarkedFields
      DEF Extract, Reaches, RestoreTrees, BeforeSwap, Restored, States, NewTree, TypeOK
<1>5. CASE BeginImport
      BY <1>5, <1>0 DEF BeginImport, RestoreTrees, BeforeSwap, Restored
<1>6. CASE EndImport
      <2>1. mem'.state = "database_restored"
            BY <1>6, <1>0, MarkedFields DEF EndImport, Reaches, States
      <2>2. QED BY <1>6, <2>1, <1>0 DEF EndImport, Reaches, RestoreTrees, BeforeSwap, Restored
<1>7. CASE Verify
      BY <1>7, <1>0, MarkedFields DEF Verify, Reaches, RestoreTrees, BeforeSwap, Restored, States
<1>8. CASE WriteJournal
      BY <1>8, <1>0 DEF WriteJournal, AfterWrite, RestoreTrees, BeforeSwap, Restored
<1>9. CASE WriteDatabaseRestored
      BY <1>9, <1>0 DEF WriteDatabaseRestored, Swapping, RestoreTrees, BeforeSwap, Restored
<1>10. CASE WriteLast \/ WriteFails \/ StepFails \/ Undone \/ UnstashFails
      <2>1. Returns /\ UNCHANGED <<job, preserved>>
            BY <1>10 DEF WriteLast, WriteFails, StepFails, Undone, UnstashFails, GivesUp
      <2>2. disk' # Nil /\ disk'.state = "completed" => dirs["project"] = NewTree
            <3>1. CASE WriteLast
                  BY <3>1, <2>1 DEF WriteLast, RestoreTrees, Restored
            <3>2. CASE ~WriteLast
                  BY <1>10, <3>2, <2>1, GivesUpMarks
                  DEF WriteFails, StepFails, Undone, UnstashFails, RestoreTrees
            <3>3. QED BY <3>1, <3>2
      <2>3. QED BY <2>1, <2>2, ReturnsCleans DEF Returns, RestoreTrees, BeforeSwap, Restored, Empty
<1>12. CASE BeginSwap \/ SwapFails
      BY <1>12, <1>0 DEF BeginSwap, SwapFails, RestoreTrees, BeforeSwap, Restored
<1>13. CASE MoveOut
      <2>1. PICK n \in Names : /\ dirs' = Moved(n, "project", "previous") /\ dirs["project"][n] # Nil
                               /\ moved' = moved \cup {n}
            BY <1>13 DEF MoveOut, Held, Saving
      <2>2. n \in Before /\ dirs["project"][n] = "old"
            BY <2>1, <1>13 DEF MoveOut, RestoreTrees, OldTree
      <2>3. /\ dirs'["stage"] = dirs["stage"]
            /\ \A m \in Names :
                 /\ dirs'["project"][m] = IF m = n THEN Nil ELSE dirs["project"][m]
                 /\ dirs'["previous"][m] = IF m = n THEN "old" ELSE dirs["previous"][m]
            BY <2>1, <2>2, MovedApplies DEF Names
      <2>4. /\ pc = "out" /\ pc' = "out" /\ moved' = moved \cup {n}
            /\ UNCHANGED <<installed, disk, mem, job>>
            BY <1>13, <2>1 DEF MoveOut
      <2>5. QED
            BY <2>2, <2>3, <2>4, <1>0 DEF RestoreTrees, BeforeSwap, Restored, OldTree, Names, TypeOK
<1>14. CASE AllOut
      <2>1. \A n \in Names : dirs["project"][n] = Nil
            BY <1>14, NoneHeld DEF AllOut
      <2>2. dirs["previous"] = OldTree
            <3>1. \A n \in Names : dirs["previous"][n] = OldTree[n]
                  BY <1>14, <2>1 DEF AllOut, RestoreTrees, OldTree, Names
            <3>2. QED BY <3>1 DEF TypeOK, Trees
      <2>3. Split(dirs["project"], dirs["stage"], NewTree)
            BY <1>14, <2>1, SplitBegins DEF AllOut, RestoreTrees, TypeOK
      <2>4. QED BY <1>14, <2>2, <2>3 DEF AllOut, RestoreTrees, BeforeSwap, Restored
<1>15. CASE MoveIn
      <2>1. PICK n \in Names : /\ dirs' = Moved(n, "stage", "project") /\ dirs["stage"][n] # Nil
                               /\ installed' = installed \cup {n}
            BY <1>15 DEF MoveIn, Held
      <2>2. dirs["stage"][n] = "new" /\ NewTree[n] = "new" /\ dirs["project"][n] = Nil
            BY <2>1, <1>15 DEF MoveIn, RestoreTrees, NewTree, Split
      <2>3. /\ dirs'["previous"] = dirs["previous"]
            /\ \A m \in Names :
                 /\ dirs'["stage"][m] = IF m = n THEN Nil ELSE dirs["stage"][m]
                 /\ dirs'["project"][m] = IF m = n THEN "new" ELSE dirs["project"][m]
            BY <2>1, <2>2, MovedApplies
      <2>4. pc = "in" /\ pc' = "in" /\ UNCHANGED <<moved, disk, mem, job>>
            BY <1>15 DEF MoveIn
      <2>5. Split(dirs'["project"], dirs'["stage"], NewTree)
            <3>1. Split(dirs["project"], dirs["stage"], NewTree)
                  BY <2>4 DEF RestoreTrees
            <3>2. QED BY <2>2, <2>3, <3>1 DEF Split
      <2>6. QED
            BY <2>1, <2>2, <2>3, <2>4, <2>5, <1>0 DEF RestoreTrees, BeforeSwap, Restored, TypeOK, Names, Places, JournalInPlace, RestoreStates
<1>16. CASE AllIn
      <2>1. dirs["project"] = NewTree
            BY <1>16, NoneHeld, SplitDone DEF AllIn, RestoreTrees, TypeOK
      <2>2. QED BY <1>16, <2>1 DEF AllIn, RestoreTrees, BeforeSwap, Restored
<1>17. CASE UndoIn
      <2>1. PICK n \in installed : /\ installed' = installed \ {n}
                                   /\ dirs' \in {dirs, Moved(n, "project", "stage")}
            BY <1>17 DEF UndoIn
      <2>2. n \in Names /\ dirs["project"][n] = "new"
            BY <1>17 DEF UndoIn, RestoreTrees, TypeOK
      <2>3. /\ dirs'["previous"] = dirs["previous"]
            /\ \A m \in Names :
                 /\ dirs'["stage"][m] \in {dirs["stage"][m], "new"}
                 /\ m # n => dirs'["project"][m] = dirs["project"][m]
            BY <2>1, <2>2, MovedApplies
      <2>4. pc = "undo" /\ pc' = "undo" /\ UNCHANGED <<moved, disk, mem, job>>
            BY <1>17 DEF UndoIn
      <2>5. \A m \in Before : dirs'["project"][m] = "old" \/ dirs'["previous"][m] = "old"
            BY <2>2, <2>3, <2>4 DEF RestoreTrees, Names
      <2>6. QED
            BY <2>1, <2>2, <2>3, <2>4, <2>5, <1>0
            DEF RestoreTrees, BeforeSwap, Restored, TypeOK, Places, JournalInPlace, RestoreStates
<1>18. CASE UndoOut
      <2>1. PICK n \in moved : /\ moved' = moved \ {n}
                               /\ dirs' \in {dirs, Moved(n, "previous", "project")}
            BY <1>18 DEF UndoOut, Saving
      <2>2. n \in Names /\ dirs["previous"][n] = "old"
            BY <1>18 DEF UndoOut, RestoreTrees, TypeOK
      <2>3. /\ dirs'["stage"] = dirs["stage"]
            /\ \A m \in Names :
                 /\ dirs'["previous"][m] \in {dirs["previous"][m], Nil}
                 /\ m # n => dirs'["previous"][m] = dirs["previous"][m]
                 /\ m # n => dirs'["project"][m] = dirs["project"][m]
            /\ dirs'["project"][n] = "old" \/ dirs'["previous"][n] = "old"
            BY <2>1, <2>2, MovedApplies
      <2>4. /\ pc = "undo" /\ pc' = "undo" /\ UNCHANGED <<installed, disk, mem, job>> /\ installed = {}
            BY <1>18 DEF UndoOut, UndoesOut
      <2>5. \A m \in Before : dirs'["project"][m] = "old" \/ dirs'["previous"][m] = "old"
            BY <2>2, <2>3, <2>4 DEF RestoreTrees, Names
      <2>6. QED
            BY <2>1, <2>2, <2>3, <2>4, <2>5, <1>0
            DEF RestoreTrees, BeforeSwap, Restored, TypeOK, Places, JournalInPlace, RestoreStates
<1>19. CASE Crash
      <2>1. /\ dirs'["stage"] = Empty
            /\ dirs'["project"] = dirs["project"] /\ dirs'["previous"] = dirs["previous"]
            BY <1>19, CrashCleans
      <2>2. pc' = "idle" /\ installed' = {} /\ moved' = {} /\ UNCHANGED <<disk, job>>
            BY <1>19 DEF Crash
      <2>3. QED BY <2>1, <2>2 DEF RestoreTrees, BeforeSwap, Restored, Empty
<1>20. CASE BeginRecover \/ Unstash \/ AllUnstashed
      BY <1>20 DEF BeginRecover, Unstash, AllUnstashed, Places, ProcessInPlace
<1>21. QED
      BY <1>1, <1>2, <1>3, <1>4, <1>5, <1>6, <1>7, <1>8, <1>9, <1>10, <1>12, <1>13, <1>14, <1>15,
         <1>16, <1>17, <1>18, <1>19, <1>20
      DEF Next, RestoreNext, RecoverNext, Swap

(***************************************************************************)
(* The old tree of a recovery                                              *)
(***************************************************************************)

LEMMA RecoverTreesInit == Init => RecoverTrees
BY DEF Init, RecoverTrees

(* A rename from one part of a split tree to the other splits it again.    *)
LEMMA SplitMoves ==
  ASSUME TypeOK, NEW t \in Trees, NEW from \in Dirs, NEW to \in Dirs, from # to,
         Split(dirs[to], dirs[from], t), NEW n \in Held(from)
  PROVE  Split(Moved(n, from, to)[to], Moved(n, from, to)[from], t)
<1>1. n \in Names /\ dirs[from][n] # Nil
      BY DEF Held
<1>2. dirs[from][n] = t[n]
      BY <1>1 DEF Split
<1>3. QED BY <1>1, <1>2, MovedApplies DEF Split

LEMMA SplitTurns ==
  ASSUME NEW x, NEW y, NEW t, Split(x, y, t)
  PROVE  Split(y, x, t)
BY DEF Split

(* Every step keeps the old tree in place for the first recovery.          *)
LEMMA RecoverTreesNext ==
  TypeOK /\ Places /\ RestoreTrees /\ RecoverTrees /\ [Next]_vars => RecoverTrees'
<1> SUFFICES ASSUME TypeOK, Places, RestoreTrees, RecoverTrees, [Next]_vars, ~faults'
             PROVE  RecoverTrees'
    BY DEF RecoverTrees
<1> USE NilIsNothing, TreesAreTrees DEF Dirs
<1>0. /\ pc # "idle" => mem \in Journal /\ disk \in Journal
      /\ pc = "idle" => mem = Nil
      /\ job \in {"restore", "recover"}
      /\ pc # "idle" /\ job = "restore" => disk.state \in RestoreStates
      BY DEF TypeOK, Places, JournalInPlace
<1>1. CASE UNCHANGED vars
      BY <1>1 DEF vars, RecoverTrees
<1>2. CASE Begin
      BY <1>2 DEF Begin, RecoverTrees
<1>3. CASE CreateRescue \/ Extract \/ BeginImport \/ EndImport \/ Verify
      <2>1. /\ job = "restore" /\ UNCHANGED <<disk, job>>
            /\ pc # "idle" /\ pc' \notin {"idle", "unstash"}
            BY <1>3 DEF CreateRescue, Extract, BeginImport, EndImport, Verify, Reaches, Places, ProcessInPlace
      <2>2. QED BY <2>1, <1>0 DEF RecoverTrees, RestoreStates
<1>4. CASE WriteJournal \/ WriteDatabaseRestored
      <2>1. /\ disk' = mem /\ job' = job /\ job = "restore"
            /\ mem.state \in {"rescue_created", "files_staged", "filesystem_swapping", "database_restored"}
            /\ pc' # "unstash"
            BY <1>4, <1>0 DEF WriteJournal, WriteDatabaseRestored, AfterWrite, Places, ProcessInPlace
      <2>2. QED BY <2>1 DEF RecoverTrees
<1>5. CASE WriteLast
      <2>1. /\ dirs'["project"] = dirs["project"] /\ pc' = "idle" /\ disk' = mem /\ pc = "write"
            /\ UNCHANGED <<job, preserved, faults>>
            /\ mem.state \in {"completed", "filesystem_recovered"}
            BY <1>5, ReturnsCleans DEF WriteLast, Returns
      <2>2. mem.state = "filesystem_recovered" => job = "recover"
            BY <2>1, <1>0 DEF Places, ProcessInPlace
      <2>3. QED BY <2>1, <2>2 DEF RecoverTrees
<1>6. CASE WriteFails \/ StepFails
      <2>1. /\ dirs'["project"] = dirs["project"] /\ dirs'["previous"] = dirs["previous"]
            /\ pc' = "idle" /\ UNCHANGED <<job, preserved, faults>> /\ pc # "idle"
            BY <1>6, ReturnsCleans DEF WriteFails, StepFails, GivesUp, Returns
      <2>2. CASE UNCHANGED disk
            BY <2>1, <2>2 DEF RecoverTrees
      <2>3. CASE disk' # disk
            <3>1. GivesUp /\ (pc = "write" => mem.state \notin {"completed", "filesystem_recovered"})
                  /\ pc \in {"write", "rescue", "extract", "import", "importing", "verify"}
                  BY <1>6, <2>3 DEF WriteFails, StepFails
            <3>2. disk'.state = "recovery_required" /\ job = "restore"
                  BY <2>3, <3>1, GivesUpMarks, <1>0 DEF Places, ProcessInPlace
            <3>3. preserved => dirs["previous"] = OldTree
                  BY <3>1, <3>2 DEF RestoreTrees, BeforeSwap, Restored
            <3>4. QED BY <2>1, <3>2, <3>3 DEF RecoverTrees
      <2>4. QED BY <2>2, <2>3
<1>7. CASE BeginSwap
      BY <1>7, <1>0 DEF BeginSwap, RecoverTrees, RestoreStates
<1>8. CASE MoveOut
      <2>1. PICK n \in Names : dirs' = Moved(n, "project", Saving)
            BY <1>8 DEF MoveOut, Held
      <2>2. dirs'["stage"] = dirs["stage"]
            BY <2>1, MovedApplies DEF Saving
      <2>3. pc = "out" /\ pc' = "out" /\ UNCHANGED <<disk, mem, job, faults, preserved>>
            BY <1>8 DEF MoveOut
      <2>4. QED
            BY <2>2, <2>3, <1>0 DEF RecoverTrees, RestoreStates, Places, JournalInPlace
<1>9. CASE AllOut
      <2>1. job = "recover" => Split(dirs["project"], dirs["stage"], OldTree)
            <3>1. \A n \in Names : dirs["project"][n] = Nil
                  BY <1>9, NoneHeld DEF AllOut
            <3>2. QED BY <1>9, <3>1, SplitBegins DEF AllOut, RecoverTrees, TypeOK
      <2>2. QED BY <1>9, <2>1, <1>0 DEF AllOut, RecoverTrees
<1>10. CASE MoveIn
      <2>1. PICK n \in Held("stage") : dirs' = Moved(n, "stage", "project")
            BY <1>10 DEF MoveIn
      <2>2. pc = "in" /\ pc' = "in" /\ UNCHANGED <<disk, mem, job, faults, preserved>>
            BY <1>10 DEF MoveIn
      <2>3. job = "recover" => Split(dirs'["project"], dirs'["stage"], OldTree)
            BY <2>1, <2>2, SplitMoves DEF RecoverTrees
      <2>4. QED
            BY <2>2, <2>3, <1>0 DEF RecoverTrees, RestoreStates, Places, JournalInPlace
<1>11. CASE AllIn
      <2>1. job = "recover" => dirs["project"] = OldTree
            BY <1>11, NoneHeld, SplitDone DEF AllIn, RecoverTrees, TypeOK
      <2>2. QED BY <1>11, <2>1, <1>0 DEF AllIn, Reaches, RecoverTrees
<1>12. CASE SwapFails \/ UnstashFails
      BY <1>12 DEF SwapFails, UnstashFails
<1>13. CASE UndoIn \/ UndoOut \/ Undone
      BY <1>13 DEF UndoIn, UndoOut, Undone, Places, ProcessInPlace
<1>14. CASE Crash
      <2>1. /\ dirs'["project"] = dirs["project"] /\ dirs'["previous"] = dirs["previous"]
            /\ pc' = "idle" /\ UNCHANGED <<disk, job, preserved, faults>>
            BY <1>14, CrashCleans DEF Crash
      <2>2. QED BY <2>1 DEF RecoverTrees
<1>15. CASE BeginRecover
      <2>1. job = "restore" /\ job' = "recover" /\ pc' = "unstash" /\ dirs' = dirs /\ disk' = disk
            BY <1>15, <1>0 DEF BeginRecover
      <2>2. dirs["previous"] = OldTree /\ dirs["stage"] = Empty /\ disk.state = "recovery_required"
            BY <1>15, <2>1 DEF BeginRecover, Recoverable, RecoverTrees, TypeOK
      <2>3. Split(dirs["previous"], dirs["stage"], OldTree)
            BY <2>2 DEF Split, Empty
      <2>4. QED BY <2>1, <2>2, <2>3 DEF RecoverTrees
<1>16. CASE Unstash
      <2>1. PICK n \in Held("previous") : dirs' = Moved(n, "previous", "stage")
            BY <1>16 DEF Unstash
      <2>2. pc = "unstash" /\ pc' = "unstash" /\ UNCHANGED <<disk, mem, job, faults, preserved>>
            BY <1>16 DEF Unstash
      <2>3. Split(dirs'["previous"], dirs'["stage"], OldTree)
            BY <2>1, <2>2, SplitMoves, SplitTurns DEF RecoverTrees
      <2>4. QED
            BY <2>2, <2>3, <1>0 DEF RecoverTrees, RestoreStates, Places, ProcessInPlace, JournalInPlace
<1>17. CASE AllUnstashed
      <2>1. dirs["stage"] = OldTree
            <3>1. Split(dirs["stage"], dirs["previous"], OldTree)
                  BY <1>17, SplitTurns DEF AllUnstashed, RecoverTrees
            <3>2. QED BY <1>17, <3>1, NoneHeld, SplitDone DEF AllUnstashed, TypeOK
      <2>2. QED BY <1>17, <2>1, <1>0 DEF AllUnstashed, RecoverTrees, Places, ProcessInPlace, JournalInPlace
<1>18. QED
      BY <1>1, <1>2, <1>3, <1>4, <1>5, <1>6, <1>7, <1>8, <1>9, <1>10, <1>11, <1>12, <1>13,
         <1>14, <1>15, <1>16, <1>17
      DEF Next, RestoreNext, RecoverNext, Swap

(***************************************************************************)
(* Theorems                                                                *)
(***************************************************************************)

(* The inductive invariant. *)
Inv ==
  /\ TypeOK
  /\ Places
  /\ JournalPrecedesEffects
  /\ RestoreTrees
  /\ RestoreDatabase
  /\ RecoverTrees

(* Journals and trees stay well formed, a process has a journal while it   *)
(* runs, and a staging tree only then (restoreTransactional, Recover).     *)
THEOREM TypeCorrect == Spec => []TypeOK
<1>1. Init => TypeOK BY TypeInit
<1>2. TypeOK /\ [Next]_vars => TypeOK' BY TypeNext
<1>3. QED BY <1>1, <1>2, PTL DEF Spec

(* The invariant is inductive.                                             *)
LEMMA InvHolds == Spec => []Inv
<1>1. Init => Inv
      BY TypeInit, PlacesInit, EffectsInit, DatabaseInit, RestoreTreesInit, RecoverTreesInit DEF Inv
<1>2. Inv /\ [Next]_vars => Inv'
      BY TypeNext, PlacesNext, EffectsNext, DatabaseNext, RestoreTreesNext, RecoverTreesNext DEF Inv
<1>3. QED BY <1>1, <1>2, PTL DEF Spec

(* The database is touched only once the journal on disk names a rescue    *)
(* backup, and the project only once it names the preserved tree           *)
(* (restoreTransactional writes the journal before each step), whatever    *)
(* fails and wherever the process dies.                                    *)
THEOREM JournalIsAhead == Spec => []JournalPrecedesEffects
<1>1. Inv => JournalPrecedesEffects BY DEF Inv
<1>2. QED BY <1>1, InvHolds, PTL

(* HasIncompleteRestore lets a command pass only over the old database     *)
(* under the old tree, or the restored one under the restored tree.        *)
THEOREM InterlockIsOpenOnlyOnWhole == Spec => []InterlockGuardsHalfRestored
<1>1. ASSUME Inv, ~HasIncompleteRestore PROVE InterlockGuardsHalfRestored
      <2>1. CASE disk = Nil
            BY <1>1, <2>1 DEF Inv, JournalPrecedesEffects, InterlockGuardsHalfRestored
      <2>2. CASE disk # Nil /\ disk.state = "completed"
            <3>1. job = "restore"
                  BY <1>1, <2>2 DEF Inv, Places, JournalInPlace, TypeOK
            <3>2. QED BY <1>1, <2>2, <3>1 DEF Inv, RestoreTrees, RestoreDatabase, InterlockGuardsHalfRestored
      <2>3. QED BY <1>1, <2>1, <2>2 DEF HasIncompleteRestore
<1>2. Inv => InterlockGuardsHalfRestored
      BY <1>1 DEF InterlockGuardsHalfRestored
<1>3. QED BY <1>2, InvHolds, PTL

(* No restore loses a name of the old tree, however the renames of         *)
(* swapProject and of its rollback fail and wherever the process dies      *)
(* between two of them.                                                    *)
THEOREM OldTreeIsKept == Spec => []OldTreeKept
<1>1. Inv => OldTreeKept
      BY DEF Inv, RestoreTrees, OldTreeKept, OldTreeHeld, Dirs
<1>2. QED BY <1>1, InvHolds, PTL

(* The first recovery of a swap in which no rename failed gives the old    *)
(* tree back exactly (Recover), whatever journal writes failed and         *)
(* wherever the restore died; nothing is said of a recovery begun after    *)
(* another one was cut short (BeginRecover counts it among the faults).    *)
THEOREM FirstRecoveryIsWhole == Spec => []FirstRecoveryGivesOldTree
<1>1. Inv => FirstRecoveryGivesOldTree
      BY DEF Inv, RecoverTrees, FirstRecoveryGivesOldTree
<1>2. QED BY <1>1, InvHolds, PTL
=============================================================================
