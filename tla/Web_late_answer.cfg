SPECIFICATION WebSafeSpec
CONSTANTS
  r1 = r1
  r2 = r2
  a = a
  NoStream = NoStream
  NoJob = NoJob
  v1 = v1
  v2 = v2
  MsgCap = 1
  CmdCap = 1
  VidCap = 1
  TrackCap = 1
  MaxRestarts = 1
  Requests <- RequestSet
  Streams <- StreamSet
  Known <- KnownSet
  Viewers <- ViewerSet
INVARIANT DispatcherLives
CHECK_DEADLOCK FALSE
