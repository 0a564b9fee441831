SPECIFICATION ParsersSpec
CONSTANTS
  LenMod = 128
  AttrMod = 64
  Levels = 4
  MaxLen = 96
  RawBuffers <- MCRawBuffers
  MAX_Q = 2
  DEFAULT_Q = 1
  near = near
  far = far
  NoMac = NoMac
  Mac <- MCMac
  Byte <- MCByte
  Count <- MCCount
  Buffers <- MCBuffers
  Frames <- MCFrames
  QueueSizes <- MCQueueSizes
  MaxEvents = 3
INVARIANTS
  WalkTypeOK
  LevelsNest
  NothingReadTwice
  FindsWhatWasWritten
  TypeOK
  StationsAreIdentified
  StationsAreNotMixed
PROPERTIES
  WalkEnds
  EveryStationIsReported
CHECK_DEADLOCK FALSE
