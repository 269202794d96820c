SPECIFICATION OneSpec
CONSTANTS
  Sources = {}
  Files <- SmallFiles
  BlockUnit = 5
  WordSize = 16
  ChunkIn = 0
  ChunkOut = 3
  BZ_MAX_UNUSED = 3
  Rooms = {0, 1, 3, 4, 5}
  Generous = 1
  LeastRoom = 4
  SmallInput = 5
INVARIANT DecompressValidates
