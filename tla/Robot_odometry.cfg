SPECIFICATION LinkSpec
CONSTANTS
  None = None
  Logged = FALSE
  MaxRuns = 2
  MaxPoses = 1
  Configs <- Deployments
PROPERTY OdometryHeard
CHECK_DEADLOCK FALSE
