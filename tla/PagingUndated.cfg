CONSTANTS
  Ids = {1, 2, 3}
  Captures <- MCCaptures
  Distances <- MCDistances
  Limits = {0, 3}
  DefaultLimit = 1
  MaxLimit = 2
  MaxShown = 5
  Null = Null
  Files = {f1, f2}
  ViewerAssets = {1, 2, 3, 4}
  ViewerPage = 2
  MaxChanges = 2
  MaxFailures = 1
  MediaFiles <- MCMediaFiles
  Unknown = Unknown
  Photos = {p1, p2}
  NoPhoto = NoPhoto
  InSize = 1
  OutSize = 1
  Setups = {u1, u2}
  Parts = {m1, m2}
  Downloaded = {m1}
  Absent = Absent
  MaxDeaths = 1
  Starters = {s1, s2}
  OldAssets = {a1, a2}
  NoTx = NoTx
  SampleSize = 1
  W = 3
  H = 3
  Boxes = 3
  Widths = {2, 3, 5}
  Readings <- MCReadings
  MaxBatchWidth = 8
SPECIFICATION ServicesSpec
CHECK_DEADLOCK FALSE
INVARIANT AllOnce
