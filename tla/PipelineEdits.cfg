CONSTANTS
  p1 = p1
  p2 = p2
  c1 = c1
  c2 = c2
  Paths = {p1, p2}
  Contents = {c1, c2}
  Videos = {c2}
  Workers = {w1}
  None = None
  InitFs <- Single
  BatchSize = 1
  StepsFail = FALSE
  Retries = {FALSE}
  MaxStamp = 4
  MaxRuns = 3
SPECIFICATION Spec
SYMMETRY WorkerSymmetry
CHECK_DEADLOCK FALSE
INVARIANTS
  LinksFaithful
  SecondRunCompletes
PROPERTIES
  NoFalseOffline
