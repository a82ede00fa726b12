SPECIFICATION Spec
CONSTANTS
  NumWorkers = 1
  Optional <- NoneOptional
  PipelineMethods <- BothMethods
  PacketKinds <- EmptyOrPose
  RestartTries = 2
  EstimatorObserves = TRUE
  Datalog = FALSE
  MainInputs <- AllInputs
  MaxFaults = 2
  MaxMsgs = 3
  MaxFlush = 2
  MaxCmds = 3
INVARIANTS
  GateOpenMeansFresh
  FlushesInOrder
  OwnMessages
  StateAnnounced
PROPERTIES
  StopsForCause
