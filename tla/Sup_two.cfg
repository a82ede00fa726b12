SPECIFICATION Spec
CONSTANTS
  NumWorkers = 2
  Optional <- SecondOptional
  PipelineMethods <- NoMethods
  PacketKinds <- EmptyOrPose
  RestartTries = 2
  EstimatorObserves = FALSE
  Datalog = FALSE
  MainInputs <- SleepOnly
  MaxFaults = 2
  MaxMsgs = 1
  MaxFlush = 0
  MaxCmds = 1
INVARIANTS
  NoOrphans
PROPERTIES
  StopsForCause
  Supervised
