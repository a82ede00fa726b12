SPECIFICATION CameraFairSpec
CONSTANTS
  NumWorkers = 1
  Optional <- NoneOptional
  PipelineMethods <- NoMethods
  PacketKinds <- EmptyOrPose
  RestartTries = 2
  EstimatorObserves = FALSE
  Datalog = FALSE
  MainInputs <- SleepAndBad
  MaxFaults = 0
  MaxMsgs = 2
  MaxFlush = 0
  MaxCmds = 3
PROPERTIES
  SleepReached
