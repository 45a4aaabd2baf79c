SPECIFICATION Spec
ACTION_CONSTRAINT StepWithinBounds
CONSTANTS
  Nil = Nil
  RunIds = {r1}
  Leader = r1
  Majors = {11}
  Scopes = {all}
  Packages = {p1}
  Paths = {f1, f2}
  Candidates = {c1}
  Validations = {v1}
  Backups = {b1}
  Snapshots = {}
  ContribPlans = {}
  StrategiesUsed = {"per-fix"}
  Bounds <- StrandingOnly
CHECK_DEADLOCK FALSE
INVARIANT OpenPlanIsOfCurrentPhase
