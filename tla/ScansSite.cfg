SPECIFICATION Spec
CONSTANT
  Findings = {f1, f2}
  Infos = {f2}
  MaxAttempts = 3
  Blank = Blank
  Notices = Notices
  Garbage = Garbage
  Nil = Nil
INVARIANT TypeOK
INVARIANT AnswersReportSite
INVARIANT ModuleKeepsItsCode
PROPERTY EveryCallAnswered

