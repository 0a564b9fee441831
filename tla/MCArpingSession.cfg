SPECIFICATION Spec
CONSTANTS
  MAX_Q = 2
  DEFAULT_Q = 1
  U32 = 401
  Mac = {m1}
  NoMac = NoMac
  TIMEOUT = 1
  QueueSizes <- MCQueueSizes
  MaxNow = 5
  MaxCount = 3
INVARIANTS
  TypeOK
  EventsInDeliveryOrder
  BooksOfBothSides
PROPERTY
  TimeoutMeansSilence
