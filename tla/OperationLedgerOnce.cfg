SPECIFICATION Spec
CONSTANTS
  Nil = Nil
  Servers = {s1}
  Requests = {q1, q2}
  Effects = {x, y}
  DryRunnable = {y}
  Cap = 1
  LogLosesRecords = TRUE
SYMMETRY Alike
INVARIANT TypeOK
INVARIANT HandledOnce
INVARIANT AnswersAgree
INVARIANT OutcomesTrue
INVARIANT CapHolds
PROPERTY UnknownNotRepeated
