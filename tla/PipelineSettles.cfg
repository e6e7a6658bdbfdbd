CONSTANTS
  p1 = p1
  p2 = p2
  c1 = c1
  c2 = c2
  Paths = {p1}
  Contents = {c1, c2}
  Videos = {c2}
  Workers = {w1, w2}
  None = None
  InitFs <- Alone
  BatchSize = 1
  StepsFail = TRUE
  Retries = {TRUE}
  MaxStamp = 2
  MaxRuns = 1
SPECIFICATION FairSpec
CHECK_DEADLOCK FALSE
PROPERTIES
  RunsSettle
