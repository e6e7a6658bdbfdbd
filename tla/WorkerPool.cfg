CONSTANTS
  Workers = {w1, w2}
  Values <- MCValues
  Root = "index"
  Priority <- MCPriority
  Spawns <- MCSpawns
  IndexOnly = TRUE
  NoItem = NoItem
  MaxPushes = 4
SPECIFICATION FairSpec
INVARIANTS
  WorkConserving
  IdleMeansDone
PROPERTIES
  NothingAfterIdle
  MainExits
  ServesFifo
