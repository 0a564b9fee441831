SPECIFICATION Spec
CONSTANTS
  MAX_Q = 3
  DEFAULT_Q = 2
  U32 = 501
  Mac = {m1, m2, m3}
  Ip = {a, b}
  NoMac = NoMac
  MAX_NEIGH = 2
  QueueSizes <- MCQueueSizes
  TIMEOUT = 1
  MaxNow = 3
  MaxCount = 4
INVARIANT
  ConflictsAreDetected
