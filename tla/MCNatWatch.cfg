SPECIFICATION WatchSpec
CONSTANTS
  MAX_Q = 2
  DEFAULT_Q = 1
  client = client
  remote = remote
  public = public
  client6 = client6
  remote6 = remote6
  public6 = public6
  NoAddr = NoAddr
  NoEntry = NoEntry
  Addr <- MCAddr
  Port <- MCPort
  Id <- MCId
  Protocol <- MCProtocol
  QueueSizes <- MCQueueSizes
  MaxEvents = 4
  Conns <- MCConns
  AttrsOf <- MCAttrsOf
  Frames <- MCFrames
  SocketSize = 2
  BufferSize = 2
  MaxChanges = 3
INVARIANTS
  WatchTypeOK
  BacklogExplainsLag
  RecoversConnection
PROPERTIES
  KeepsEventPromise
  Converges
CHECK_DEADLOCK FALSE
