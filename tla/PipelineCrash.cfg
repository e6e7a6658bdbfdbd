CONSTANTS
  p1 = p1
  p2 = p2
  c1 = c1
  c2 = c2
  Paths = {p1, p2}
  Contents = {c1}
  Videos = {}
  Workers = {w1, w2}
  None = None
  InitFs <- Copies
  BatchSize = 1
  StepsFail = TRUE
  Retries = {FALSE, TRUE}
  MaxStamp = 2
  MaxRuns = 3
SPECIFICATION Spec
SYMMETRY WorkerSymmetry
CHECK_DEADLOCK FALSE
INVARIANTS
  OneTaskPerStep
  ResultsMatchStatus
  ThumbnailBehindStatus
PROPERTIES
  FinishedStays
