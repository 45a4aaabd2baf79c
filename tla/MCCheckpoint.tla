---------------------------- MODULE MCCheckpoint ----------------------------
(* Bounds for model-checking Checkpoint with several actors, in one of two *)
(* environments, told apart by the commit strategy of the run: several     *)
(* executors of a run that is never published, or one executor at a time   *)
(* and a publisher.                                                        *)
EXTENDS Checkpoint, TLC

CONSTANTS
  MaxRank,      \* rank of the last phase that is explored
  MaxPlans,     \* plans of the run
  MaxEvidence   \* evidence entries of the run

WithinBounds ==
  /\ Store!PhaseRank[run.phase] <= MaxRank
  /\ Cardinality(Store!Plans(run)) <= MaxPlans
  /\ Len(run.evidence) <= MaxEvidence
  /\ \A s \in Store!StepNames : applied[s] <= 2

(* Executors that race, while files are edited. *)
ExecutorsAndEdits ==
  /\ UNCHANGED pub /\ run'.evidence = << >> /\ run'.phase = "custom_theme"
  /\ \A e \in Executors : exec'[e].outcome \in {"ok", "failed", Nil}
  /\ \A p \in Paths : tree'[p] >= tree[p] /\ tree'[p] <= 1

(* Executors that race, each command ending in any way. *)
ExecutorsAlone ==
  /\ UNCHANGED <<pub, files>> /\ run'.evidence = << >> /\ run'.phase = "custom_theme"

(* One executor at a time, and a publisher. *)
OneAtATime ==
  /\ QuietPublication
  /\ Cardinality({e \in Executors : exec'[e].pc # "idle"}) <= 1
  /\ \A e \in Executors : exec'[e].outcome \in {"ok", Nil}

SharedWithinBounds ==
  /\ WithinBounds'
  /\ CASE run.strategy = "none" -> ExecutorsAndEdits
       [] run.strategy = "single" -> ExecutorsAlone
       [] run.strategy = "per-fix" -> OneAtATime

SharedInit ==
  /\ \E strategy \in {"none", "single", "per-fix"} :
       runs = [id \in {RunId} |-> [AtCustomTheme EXCEPT !.strategy = strategy]]
  /\ Fresh

SharedSpec == SharedInit /\ [][Next]_vars

Alike == Permutations(Executors) \cup Permutations(Backups)
=============================================================================
