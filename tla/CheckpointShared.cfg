SPECIFICATION SharedSpec
ACTION_CONSTRAINT SharedWithinBounds
CONSTANTS
  Nil = Nil
  RunId = r1
  Executors = {e1, e2}
  Major = 11
  Scope = all
  Package = p1
  Validation = v1
  Paths = {f1}
  Backups = {b1, b2}
  MaxVersion = 1
  Outcomes = {"ok", "failed", "missing", "timeout"}
  ManagedConfig = FALSE
  MaxRank = 8
  MaxPlans = 2
  MaxEvidence = 4
CHECK_DEADLOCK FALSE
INVARIANT TypeOK
INVARIANT MutationsOnce
INVARIANT PublishedWasValidated
INVARIANT CommittedOnce
INVARIANT ReceiptsHaveCommits
INVARIANT BackupPrecedesSiteChanges
INVARIANT CompletedWasValidated
SYMMETRY Alike
