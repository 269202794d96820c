SPECIFICATION OneSpec
CONSTANTS
  Symbols = {0, 1}
  RunMax = 4
  BlockUnit = 20
  WordSize = 16
  Levels = {0, 1}
  InBound = 5
  ChunkIn = 3
  ChunkOut = 0
  BlockNoBound = 0
  BZ_MAX_UNUSED = 2
  Rooms = {0, 3, 4, 6, 7, 8, 10}
INVARIANTS FailureReported OneCallTells
PROPERTIES ClosedIsWhole CallsReturn
