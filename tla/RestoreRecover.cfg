SPECIFICATION Spec
CONSTANTS
  Nil = Nil
  Before = {"code", "lock", "gone"}
  Archived = {"code", "lock", "back"}
  Excluded = {}
  MovesMayFail = TRUE
  WritesMayFail = TRUE
INVARIANT JournalPrecedesEffects
INVARIANT OldTreeKept
INVARIANT InterlockGuardsHalfRestored
INVARIANT FirstRecoveryGivesOldTree
CHECK_DEADLOCK FALSE
