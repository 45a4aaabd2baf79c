SPECIFICATION Spec
ACTION_CONSTRAINT StepWithinBounds
CONSTANTS
  Nil = Nil
  RunIds = {r1, r2}
  Leader = r1
  Majors = {11}
  Scopes = {all}
  Packages = {p1}
  Paths = {f1}
  Candidates = {c1, c2}
  Validations = {v1}
  Backups = {b1}
  Snapshots = {s1}
  ContribPlans = {cp1}
  StrategiesUsed = {"single", "per-fix"}
  Bounds <- WholeAndPlans
CHECK_DEADLOCK FALSE
SYMMETRY Alike
INVARIANT TypeOK
INVARIANT PassedPhasesProved
INVARIANT StepsInOrder
INVARIANT ReceiptsBacked
INVARIANT AtMostOneLiveRun
PROPERTY ImplementsAuthority
PROPERTY TerminalIsFinal
PROPERTY CompletedPlansStand
