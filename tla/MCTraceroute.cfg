SPECIFICATION Spec
CONSTANTS
  MAX_Q = 3
  DEFAULT_Q = 2
  U32 = 401
  SeqNo <- MCSeqNo
  MAX_HOPS = 2
  QueueSizes <- MCQueueSizes
  TIMEOUT = 1
  MaxNow = 3
  MaxCount = 2
  MaxRecords = 1
INVARIANTS
  TypeOK
  HopTableAddsUp
  AverageIsBetween
PROPERTIES
  TimeoutBookedToItsHop
  KeepsEventPromise
