CONSTANTS
  Readers = {r1, r2, r3}
  Writers = {w1, w2}
  Concurrency = 2
  NoOne = NoOne
SPECIFICATION FairSpec
INVARIANTS
  WatchAccurate
PROPERTIES
  ImplementsPromise
  CallsReturn
