SPECIFICATION LinkSpec
CONSTANTS
  None = None
  Logged = TRUE
  MaxRuns = 2
  MaxPoses = 1
  Configs <- Deployments
PROPERTIES
  OneWay
  StatusSeen
  SleepFollowed
  ConfigFollowed
  CorrectionReaches
CHECK_DEADLOCK FALSE
