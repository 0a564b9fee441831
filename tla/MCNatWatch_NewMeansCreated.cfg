SPECIFICATION WatchSpec
CONSTANTS
  MAX_Q = 2
  DEFAULT_Q = 1
  client = client
  remote = remote
  public = public
  NoAddr = NoAddr
  NoEntry = NoEntry
  Addr <- MCAddr
  Port <- MCPort
  Id <- MCId
  Protocol <- MCProtocol
  QueueSizes <- MCQueueSizes
  MaxEvents = 4
  Conns <- MCConns
  AttrsOf <- MCAttrsOf
  Frames = {}
  SocketSize = 2
  BufferSize = 2
  MaxChanges = 3
PROPERTY
  NewMeansCreated
