SPECIFICATION EstimationSpec
CONSTANTS
  Ids <- ThreeIds
  MaxTime = 4
  HistoryLength = 1
  SensorTimeout = 2
  Smooth = TRUE
  PredictToNow = FALSE
  t1 = t1
  t2 = t2
  v1 = v1
  v2 = v2
  Absent = Absent
  Values <- ValueSet
  Trackers <- TrackerSet
  KeyOf <- KeyOfTracker
  MaxKey = 3
  History = 1
  MaxChanges = 4
  MaxPoseTime = 5
  PoseHistory = 2
  c1 = c1
  c2 = c2
  c3 = c3
  c4 = c4
  NoEntry = NoEntry
  Clocks <- MCClocks
  Moving <- MCMoving
  MapperLists <- MCMapperLists
  Readings <- MCReadings
  MaxMappers = 4
  Payloads <- ValueSet
  NoValue = NoValue
  Storage = 2
  QueueCap = 2
  MaxSets = 4
  Angles <- MCAngles
  YawHistory = 2
  MaxTurns = 1
INVARIANTS
  NothingLost
  Exact
  HistoryIsRecent
  FreshIsCurrent
  DerivedIsCurrent
  LatestCommonPair
  InverseInStep
  CheapestConversion
  NewestOnce
PROPERTIES
  ShortestTurn
CHECK_DEADLOCK FALSE
