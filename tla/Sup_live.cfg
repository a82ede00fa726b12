SPECIFICATION FairSpec
CONSTANTS
  NumWorkers = 1
  Optional <- NoneOptional
  PipelineMethods <- NoMethods
  PacketKinds <- EmptyOrPose
  RestartTries = 2
  EstimatorObserves = FALSE
  Datalog = FALSE
  MainInputs <- OverrideOnly
  MaxFaults = 2
  MaxMsgs = 2
  MaxFlush = 0
  MaxCmds = 2
PROPERTIES
  DeathNoticed
  ShutdownCompletes
