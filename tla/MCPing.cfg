SPECIFICATION FairSpec
CONSTANTS
  MAX_Q = 3
  DEFAULT_Q = 2
  U32 = 401
  SeqNo = {1, 2}
  QueueSizes <- MCQueueSizes
  TIMEOUT = 1
  MaxNow = 4
  MaxCount = 3
INVARIANTS
  TypeOK
  OneTimeoutPerRequest
  PendingIsLastRequest
  LossIsAllOrNothing
PROPERTIES
  TimeoutIsDue
  KeepsEventPromise
  StampedRequestResolves
  FullQueueRecovers
