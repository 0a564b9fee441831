SPECIFICATION Spec
CONSTANTS
  MAX_Q = 2
  DEFAULT_Q = 1
  U32 = 401
  Id = {1, 2}
  Rcode = {0, 3}
  QueueSizes <- MCQueueSizes
  MaxNow = 2
  MaxCount = 3
INVARIANTS
  TypeOK
  
  EventsFollowTheWire
PROPERTY
  KeepsEventPromise
