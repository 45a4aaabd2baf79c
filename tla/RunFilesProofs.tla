---------------------------- MODULE RunFilesProofs ----------------------------
(* Theorems about RunFiles: the lemmas of RunStateProofs, on what is on     *)
(* disk and on what the slow process computes, for any number of runs.      *)
EXTENDS RunFiles, TLAPS

OnDisk == INSTANCE RunStateProofs WITH runs <- disk
InMemory == INSTANCE RunStateProofs WITH runs <- memory

(* Every file is sound, and so is every run the slow process has in hand:  *)
(* what it read was a file, and what it computed from it is sound too.     *)
FilesSound == OnDisk!FilesSound /\ InMemory!FilesSound

(***************************************************************************)
(* The definitions of RunState that RunFiles instantiates are those its    *)
(* lemmas speak of                                                         *)
(***************************************************************************)

(* What the other processes do is a step of the store. *)
LEMMA OthersStep == Others => \E id \in RunIds : OnDisk!PlanNext(id) \/ OnDisk!RunNext(id)
<1>1. Disk!Next => \E id \in RunIds : OnDisk!PlanNext(id) \/ OnDisk!RunNext(id)
  BY DEF Disk!Strategies, OnDisk!Strategies, Disk!Statuses, OnDisk!Statuses, Disk!Live, OnDisk!Live,
         Disk!PhaseRank, OnDisk!PhaseRank, Disk!Phases, OnDisk!Phases, Disk!CheckpointPhases,
         OnDisk!CheckpointPhases, Disk!ContribPhases, OnDisk!ContribPhases, Disk!PhaseRecordAction,
         OnDisk!PhaseRecordAction, Disk!ActionNextPhase, OnDisk!ActionNextPhase, Disk!Actions,
         OnDisk!Actions, Disk!Confirmable, OnDisk!Confirmable, Disk!ActionsFor, OnDisk!ActionsFor,
         Disk!StepRank, OnDisk!StepRank, Disk!StepNames, OnDisk!StepNames, Disk!StepStatuses,
         OnDisk!StepStatuses, Disk!StepEvidence, OnDisk!StepEvidence, Disk!StepState, OnDisk!StepState,
         Disk!PlanSteps, OnDisk!PlanSteps, Disk!PlanInputs, OnDisk!PlanInputs, Disk!Plan, OnDisk!Plan,
         Disk!PlanFromInput, OnDisk!PlanFromInput, Disk!SameIdentity, OnDisk!SameIdentity,
         Disk!StepsDone, OnDisk!StepsDone, Disk!PlanComplete, OnDisk!PlanComplete, Disk!Plans,
         OnDisk!Plans, Disk!Evidence, OnDisk!Evidence, Disk!RecordInputs, OnDisk!RecordInputs,
         Disk!CheckpointInputs, OnDisk!CheckpointInputs, Disk!Run, OnDisk!Run, Disk!WithEvidence,
         OnDisk!WithEvidence, Disk!PlanFor, OnDisk!PlanFor, Disk!AuthorizesProgress,
         OnDisk!AuthorizesProgress, Disk!Newest, OnDisk!Newest, Disk!Vouches, OnDisk!Vouches,
         Disk!Authorized, OnDisk!Authorized, Disk!Exists, OnDisk!Exists, Disk!Save, OnDisk!Save,
         Disk!SavePlan, OnDisk!SavePlan, Disk!NoLiveRun, OnDisk!NoLiveRun, Disk!NewRun, OnDisk!NewRun,
         Disk!Create, OnDisk!Create, Disk!RecordResolution, OnDisk!RecordResolution, Disk!StatusAfter,
         OnDisk!StatusAfter, Disk!RecordProgress, OnDisk!RecordProgress, Disk!ValidPlanInput,
         OnDisk!ValidPlanInput, Disk!CanBegin, OnDisk!CanBegin, Disk!Begun, OnDisk!Begun,
         Disk!BeginCheckpointPlan, OnDisk!BeginCheckpointPlan, Disk!PriorStepsDone,
         OnDisk!PriorStepsDone, Disk!CanRecordStep, OnDisk!CanRecordStep, Disk!StepRecorded,
         OnDisk!StepRecorded, Disk!RecordCheckpointStep, OnDisk!RecordCheckpointStep, Disk!CanBind,
         OnDisk!CanBind, Disk!Bound, OnDisk!Bound, Disk!BindCheckpointBackup,
         OnDisk!BindCheckpointBackup, Disk!CanResume, OnDisk!CanResume, Disk!Resumed, OnDisk!Resumed,
         Disk!ResumeUnavailableCheckpoint, OnDisk!ResumeUnavailableCheckpoint, Disk!CanComplete,
         OnDisk!CanComplete, Disk!CompletedWith, OnDisk!CompletedWith, Disk!CompleteCheckpointPlan,
         OnDisk!CompleteCheckpointPlan, Disk!Receipted, OnDisk!Receipted, Disk!RecordCheckpoint,
         OnDisk!RecordCheckpoint, Disk!Confirm, OnDisk!Confirm, Disk!Block, OnDisk!Block,
         Disk!ResolveBlock, OnDisk!ResolveBlock, Disk!Abandon, OnDisk!Abandon,
         Disk!RecordInventoryBaseline, OnDisk!RecordInventoryBaseline, Disk!RecordInventoryFinal,
         OnDisk!RecordInventoryFinal, Disk!RecordContribPlan, OnDisk!RecordContribPlan, Disk!PlanNext,
         OnDisk!PlanNext, Disk!RunNext, OnDisk!RunNext, Disk!Next, OnDisk!Next
<1> QED
  BY <1>1 DEF Others

(* What the slow process computes is a step of the store from what it      *)
(* read.                                                                   *)
LEMMA RenameStep ==
  ASSUME NEW id \in RunIds, Rename(id)
  PROVE  InMemory!PlanNext(id) \/ InMemory!RunNext(id)
<1>1. Memory!PlanNext(id) \/ Memory!RunNext(id) => InMemory!PlanNext(id) \/ InMemory!RunNext(id)
  BY DEF Memory!Strategies, InMemory!Strategies, Memory!Statuses, InMemory!Statuses, Memory!Live,
         InMemory!Live, Memory!PhaseRank, InMemory!PhaseRank, Memory!Phases, InMemory!Phases,
         Memory!CheckpointPhases, InMemory!CheckpointPhases, Memory!ContribPhases,
         InMemory!ContribPhases, Memory!PhaseRecordAction, InMemory!PhaseRecordAction,
         Memory!ActionNextPhase, InMemory!ActionNextPhase, Memory!Actions, InMemory!Actions,
         Memory!Confirmable, InMemory!Confirmable, Memory!ActionsFor, InMemory!ActionsFor,
         Memory!StepRank, InMemory!StepRank, Memory!StepNames, InMemory!StepNames, Memory!StepStatuses,
         InMemory!StepStatuses, Memory!StepEvidence, InMemory!StepEvidence, Memory!StepState,
         InMemory!StepState, Memory!PlanSteps, InMemory!PlanSteps, Memory!PlanInputs,
         InMemory!PlanInputs, Memory!Plan, InMemory!Plan, Memory!PlanFromInput, InMemory!PlanFromInput,
         Memory!SameIdentity, InMemory!SameIdentity, Memory!StepsDone, InMemory!StepsDone,
         Memory!PlanComplete, InMemory!PlanComplete, Memory!Plans, InMemory!Plans, Memory!Evidence,
         InMemory!Evidence, Memory!RecordInputs, InMemory!RecordInputs, Memory!CheckpointInputs,
         InMemory!CheckpointInputs, Memory!Run, InMemory!Run, Memory!WithEvidence,
         InMemory!WithEvidence, Memory!PlanFor, InMemory!PlanFor, Memory!AuthorizesProgress,
         InMemory!AuthorizesProgress, Memory!Newest, InMemory!Newest, Memory!Vouches, InMemory!Vouches,
         Memory!Authorized, InMemory!Authorized, Memory!Exists, InMemory!Exists, Memory!Save,
         InMemory!Save, Memory!SavePlan, InMemory!SavePlan, Memory!NoLiveRun, InMemory!NoLiveRun,
         Memory!NewRun, InMemory!NewRun, Memory!Create, InMemory!Create, Memory!RecordResolution,
         InMemory!RecordResolution, Memory!StatusAfter, InMemory!StatusAfter, Memory!RecordProgress,
         InMemory!RecordProgress, Memory!ValidPlanInput, InMemory!ValidPlanInput, Memory!CanBegin,
         InMemory!CanBegin, Memory!Begun, InMemory!Begun, Memory!BeginCheckpointPlan,
         InMemory!BeginCheckpointPlan, Memory!PriorStepsDone, InMemory!PriorStepsDone,
         Memory!CanRecordStep, InMemory!CanRecordStep, Memory!StepRecorded, InMemory!StepRecorded,
         Memory!RecordCheckpointStep, InMemory!RecordCheckpointStep, Memory!CanBind, InMemory!CanBind,
         Memory!Bound, InMemory!Bound, Memory!BindCheckpointBackup, InMemory!BindCheckpointBackup,
         Memory!CanResume, InMemory!CanResume, Memory!Resumed, InMemory!Resumed,
         Memory!ResumeUnavailableCheckpoint, InMemory!ResumeUnavailableCheckpoint, Memory!CanComplete,
         InMemory!CanComplete, Memory!CompletedWith, InMemory!CompletedWith,
         Memory!CompleteCheckpointPlan, InMemory!CompleteCheckpointPlan, Memory!Receipted,
         InMemory!Receipted, Memory!RecordCheckpoint, InMemory!RecordCheckpoint, Memory!Confirm,
         InMemory!Confirm, Memory!Block, InMemory!Block, Memory!ResolveBlock, InMemory!ResolveBlock,
         Memory!Abandon, InMemory!Abandon, Memory!RecordInventoryBaseline,
         InMemory!RecordInventoryBaseline, Memory!RecordInventoryFinal, InMemory!RecordInventoryFinal,
         Memory!RecordContribPlan, InMemory!RecordContribPlan, Memory!PlanNext, InMemory!PlanNext,
         Memory!RunNext, InMemory!RunNext
<1> QED
  BY <1>1 DEF Rename

(* The assumptions of RunState hold of both instances. *)
LEMMA NilIsNothing ==
  /\ Nil \notin Candidates \cup Backups \cup Snapshots \cup ContribPlans \cup Validations
  /\ Nil \notin OnDisk!StepEvidence \cup OnDisk!Plan \cup OnDisk!Run
  /\ Nil \notin InMemory!StepEvidence \cup InMemory!Plan \cup InMemory!Run
BY NilIsNoData, NilIsNoRecord
   DEF Disk!Run, OnDisk!Run, InMemory!Run, Disk!Plan, OnDisk!Plan, InMemory!Plan, Disk!StepState,
       OnDisk!StepState, InMemory!StepState, Disk!StepEvidence, OnDisk!StepEvidence,
       InMemory!StepEvidence, Disk!StepStatuses, OnDisk!StepStatuses, InMemory!StepStatuses,
       Disk!StepNames, OnDisk!StepNames, InMemory!StepNames, Disk!Evidence, OnDisk!Evidence,
       InMemory!Evidence, Disk!Statuses, OnDisk!Statuses, InMemory!Statuses, Disk!Strategies,
       OnDisk!Strategies, InMemory!Strategies, Disk!Phases, OnDisk!Phases, InMemory!Phases,
       Disk!CheckpointPhases, OnDisk!CheckpointPhases, InMemory!CheckpointPhases,
       Disk!PhaseRecordAction, OnDisk!PhaseRecordAction, InMemory!PhaseRecordAction,
       Disk!ActionNextPhase, OnDisk!ActionNextPhase, InMemory!ActionNextPhase, Disk!Actions,
       OnDisk!Actions, InMemory!Actions, Disk!Confirmable, OnDisk!Confirmable,
       InMemory!Confirmable

(* A run is sound wherever it is. *)
LEMMA SoundEverywhere ==
  ASSUME NEW run
  PROVE  /\ OnDisk!Sound(run) <=> InMemory!Sound(run)
         /\ run \in OnDisk!Run <=> run \in InMemory!Run
BY DEF OnDisk!Sound, InMemory!Sound, OnDisk!Orderly, InMemory!Orderly,
       OnDisk!Run, InMemory!Run, OnDisk!Plan, InMemory!Plan, OnDisk!StepState, InMemory!StepState,
       OnDisk!StepEvidence, InMemory!StepEvidence, OnDisk!StepStatuses, InMemory!StepStatuses,
       OnDisk!StepNames, InMemory!StepNames, OnDisk!Evidence, InMemory!Evidence, OnDisk!Statuses,
       InMemory!Statuses, OnDisk!Strategies, InMemory!Strategies, OnDisk!Phases, InMemory!Phases,
       OnDisk!CheckpointPhases, InMemory!CheckpointPhases, OnDisk!ContribPhases,
       InMemory!ContribPhases, OnDisk!PhaseRank, InMemory!PhaseRank, OnDisk!PhaseRecordAction,
       InMemory!PhaseRecordAction, OnDisk!ActionNextPhase, InMemory!ActionNextPhase, OnDisk!Actions,
       InMemory!Actions, OnDisk!ActionsFor, InMemory!ActionsFor, OnDisk!Confirmable,
       InMemory!Confirmable, OnDisk!Plans, InMemory!Plans, OnDisk!PlanSteps, InMemory!PlanSteps,
       OnDisk!StepRank, InMemory!StepRank, OnDisk!Proved, InMemory!Proved, OnDisk!Backed,
       InMemory!Backed

(***************************************************************************)
(* The invariant                                                           *)
(***************************************************************************)

(* A sound run that takes the place of a file leaves sound files.          *)
LEMMA DiskStaysSound ==
  ASSUME OnDisk!FilesSound, NEW id \in RunIds, NEW run, OnDisk!Sound(run),
         disk' = [disk EXCEPT ![id] = run]
  PROVE  OnDisk!FilesSound'
<1>1. run \in OnDisk!Run
  BY DEF OnDisk!Sound
<1>2. \A other \in RunIds : disk'[other] = IF other = id THEN run ELSE disk[other]
  BY DEF OnDisk!FilesSound
<1>3. disk' \in [RunIds -> OnDisk!Run \cup {Nil}]
  BY <1>1 DEF OnDisk!FilesSound
<1> QED
  BY <1>2, <1>3 DEF OnDisk!FilesSound, OnDisk!Exists

LEMMA MemoryStaysSound ==
  ASSUME InMemory!FilesSound, NEW id \in RunIds, NEW run, InMemory!Sound(run),
         memory' = [memory EXCEPT ![id] = run]
  PROVE  InMemory!FilesSound' /\ memory'[id] = run
<1>1. run \in InMemory!Run
  BY DEF InMemory!Sound
<1>2. \A other \in RunIds : memory'[other] = IF other = id THEN run ELSE memory[other]
  BY DEF InMemory!FilesSound
<1>3. memory' \in [RunIds -> InMemory!Run \cup {Nil}]
  BY <1>1 DEF InMemory!FilesSound
<1> QED
  BY <1>2, <1>3 DEF InMemory!FilesSound, InMemory!Exists

(* A reading process has the files, and files that are sound for one are   *)
(* sound for the other.                                                    *)
LEMMA ReadSound ==
  ASSUME OnDisk!FilesSound, memory' = disk
  PROVE  InMemory!FilesSound'
<1>1. disk \in [RunIds -> InMemory!Run \cup {Nil}]
  BY SoundEverywhere DEF OnDisk!FilesSound
<1>2. \A id \in RunIds : disk[id] # Nil => InMemory!Sound(disk[id])
  BY SoundEverywhere DEF OnDisk!FilesSound, OnDisk!Exists
<1> QED
  BY <1>1, <1>2 DEF InMemory!FilesSound, InMemory!Exists

LEMMA InitSound == Init => FilesSound
BY DEF Init, Disk!Init, FilesSound, OnDisk!FilesSound, InMemory!FilesSound, OnDisk!Exists, InMemory!Exists

LEMMA FilesStaySound == FilesSound /\ [Next]_vars => FilesSound'
<1> SUFFICES ASSUME FilesSound, [Next]_vars
             PROVE  FilesSound'
  OBVIOUS
<1>1. OnDisk!FilesSound /\ InMemory!FilesSound
  BY DEF FilesSound
<1>2. ASSUME UNCHANGED disk
      PROVE  OnDisk!FilesSound'
  BY <1>1, <1>2 DEF OnDisk!FilesSound, OnDisk!Exists
<1>3. ASSUME UNCHANGED memory
      PROVE  InMemory!FilesSound'
  BY <1>1, <1>3 DEF InMemory!FilesSound, InMemory!Exists
<1>4. CASE Read
  BY <1>1, <1>2, <1>4, ReadSound DEF Read, FilesSound
<1>5. ASSUME NEW id \in RunIds, Rename(id)
      PROVE  FilesSound'
  <2>1. InMemory!WritesSound(id)
    BY <1>1, <1>5, RenameStep, NilIsNothing, InMemory!PlanNextSound, InMemory!RunNextSound
  <2>2. PICK run \in InMemory!Run : InMemory!Sound(run) /\ memory' = [memory EXCEPT ![id] = run]
    BY <2>1 DEF InMemory!WritesSound, InMemory!Save
  <2>3. InMemory!FilesSound' /\ memory'[id] = run
    BY <1>1, <2>2, MemoryStaysSound
  <2>4. OnDisk!Sound(run) /\ disk' = [disk EXCEPT ![id] = run]
    BY <1>5, <2>2, <2>3, SoundEverywhere DEF Rename, Renamed
  <2> QED
    BY <1>1, <2>3, <2>4, DiskStaysSound DEF FilesSound
<1>6. CASE GiveUp
  BY <1>2, <1>3, <1>6 DEF GiveUp, FilesSound
<1>7. CASE Others
  <2>1. PICK id \in RunIds : OnDisk!WritesSound(id)
    BY <1>1, <1>7, OthersStep, NilIsNothing, OnDisk!PlanNextSound, OnDisk!RunNextSound
  <2>2. PICK run \in OnDisk!Run : OnDisk!Sound(run) /\ disk' = [disk EXCEPT ![id] = run]
    BY <2>1 DEF OnDisk!WritesSound, OnDisk!Save
  <2> QED
    BY <1>1, <1>3, <1>7, <2>2, DiskStaysSound DEF Others, FilesSound
<1>8. CASE UNCHANGED vars
  BY <1>2, <1>3, <1>8 DEF vars, FilesSound
<1> QED
  BY <1>4, <1>5, <1>6, <1>7, <1>8 DEF Next

(* Whatever the processes overwrite of each other, every file is sound.    *)
THEOREM Invariance == Spec => []FilesSound
BY InitSound, FilesStaySound, PTL DEF Spec

-----------------------------------------------------------------------------
(* ProofsSurviveRaces. Whatever is overwritten, a run file is past a        *)
(* checkpoint phase only with the proved plan of that phase in it          *)
(* (writeLocked renames a whole file, phase and plans together).           *)
THEOREM ProofsAreNotOverwritten == Spec => []ProofsSurviveRaces
<1>1. /\ Disk!CheckpointPhases = OnDisk!CheckpointPhases /\ Disk!PhaseRank = OnDisk!PhaseRank
      /\ \A run : Disk!Plans(run) = OnDisk!Plans(run)
      /\ \A plan : OnDisk!Proved(plan) => Disk!Proved(plan)
  BY DEF Disk!CheckpointPhases, OnDisk!CheckpointPhases, Disk!PhaseRank, OnDisk!PhaseRank,
         Disk!Plans, OnDisk!Plans, Disk!Proved, OnDisk!Proved, Disk!PlanSteps, OnDisk!PlanSteps,
         Disk!ContribPhases, OnDisk!ContribPhases
<1>2. FilesSound => ProofsSurviveRaces
  BY <1>1 DEF FilesSound, OnDisk!FilesSound, OnDisk!Sound, OnDisk!Exists,
              ProofsSurviveRaces, Disk!PassedPhasesProved, Disk!Exists
<1> QED
  BY <1>2, Invariance, PTL

(* OrderSurvivesRaces. No plan of a run file shows a step started before   *)
(* its predecessors succeeded, whoever recorded which of them.             *)
THEOREM OrderIsNotOverwritten == Spec => []OrderSurvivesRaces
<1>1. FilesSound => OrderSurvivesRaces
  BY DEF FilesSound, OnDisk!FilesSound, OrderSurvivesRaces, Disk!StepsInOrder, OnDisk!Sound, OnDisk!Orderly,
         Disk!Exists, OnDisk!Exists, Disk!StepRank, OnDisk!StepRank, Disk!StepNames, OnDisk!StepNames,
         Disk!Plans, OnDisk!Plans
<1> QED
  BY <1>1, Invariance, PTL
===============================================================================
