SPECIFICATION Spec
CONSTANT
  Findings = {f1}
  Infos = {}
  MaxAttempts = 3
  Blank = Blank
  Notices = Notices
  Garbage = Garbage
  Nil = Nil
INVARIANT FailedAnalysisIsReported
