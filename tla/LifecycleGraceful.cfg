CONSTANTS
  Workers = {w1}
  Requests = {r1}
  Tasks <- MCTasks
  Uses <- MCUses
  None = None
SPECIFICATION Spec
CHECK_DEADLOCK FALSE
PROPERTY GracefulShutdown
