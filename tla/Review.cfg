SPECIFICATION MCSpec
CONSTANTS
  Files = {1, 2, 3}
  Judged = {1, 2}
  Sections = {s1, s2}
  Extract = extract
  ModelCalls = 3
  ReadAhead = 2
  JudgeWidth = 2
  FailLimit = 2
  Versions = {1, 2}
  MaxRuns = 2
  MaxEdits = 2
  MaxCrashes = 1
INVARIANTS ReviewTypeOK ManifestNotAhead SkippedIsKnown BudgetInFileOrder
PROPERTIES ReviewEnds
CHECK_DEADLOCK FALSE
