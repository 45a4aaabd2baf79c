SPECIFICATION Spec
ACTION_CONSTRAINT StepWithinBounds
VIEW WhileItMatters
CONSTANTS
  Nil = Nil
  RunIds = {r1}
  Leader = r1
  Majors = {11}
  Scopes = {all}
  Packages = {p1}
  Paths = {f1}
  Candidates = {c1}
  Validations = {v1}
  Backups = {b1}
  Snapshots = {s1}
  ContribPlans = {cp1}
  StrategiesUsed = {"per-fix"}
  Bounds <- OnePlanOnly
CHECK_DEADLOCK FALSE
INVARIANT ProofsSurviveRaces
INVARIANT OrderSurvivesRaces
