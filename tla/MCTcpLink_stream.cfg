SPECIFICATION Spec
CONSTANTS
  Base = 4
  Start1 = 3
  Start2 = 2
  MaxFrame = 1
  Asks <- MCAsks
  Noise <- MCNoise
  WireLen = 6
  Chunk = 2
  Size <- MCSize
  QueueBytes = 4
INVARIANTS
  TypeOK
  HeardWhole
  ToldWhole
  DumpWhole
CHECK_DEADLOCK FALSE
