CONSTANTS
  Workers = {w1, w2}
  Requests = {r1}
  Tasks <- MCTasks
  Uses <- MCUses
  None = None
SPECIFICATION FairSpec
CHECK_DEADLOCK FALSE
INVARIANTS
  WorkersGoneFirst
  FailedLoadKeepsPending
  IndexOnlyComplete
PROPERTIES
  ProcessEnds
