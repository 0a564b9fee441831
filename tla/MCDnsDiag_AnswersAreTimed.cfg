SPECIFICATION ClaimSpec
CONSTANTS
  MAX_Q = 2
  DEFAULT_Q = 1
  U32 = 401
  Id = {1, 2}
  Rcode = {0, 3}
  QueueSizes <- MCQueueSizes
  MaxNow = 2
  MaxCount = 2
PROPERTY
  AnswersAreTimed
