CONSTANTS
  p1 = p1
  p2 = p2
  c1 = c1
  c2 = c2
  Paths = {p1, p2}
  Contents = {c1, c2}
  Videos = {}
  Workers = {w1}
  None = None
  InitFs <- Single
  BatchSize = 2
  StepsFail = FALSE
  Retries = {FALSE}
  MaxStamp = 4
  MaxRuns = 2
SPECIFICATION Spec
SYMMETRY WorkerSymmetry
CHECK_DEADLOCK FALSE
INVARIANTS
  MovedFileKeepsContent
