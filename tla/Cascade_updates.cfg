SPECIFICATION CascadeSpec
CONSTANTS
  Ids <- ThreeIds
  Tracked <- LastTwo
  MaxTime = 4
  MaxVal = 1
  MaxUpdates = 2
  HistoryLength = 2
  SensorTimeout = 2
  Smooth = TRUE
  PredictToNow = TRUE
INVARIANTS
  UpdateReplaces
PROPERTY
  UpdatesApplied
