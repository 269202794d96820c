SPECIFICATION Spec
CONSTANTS
  Symbols = {0, 1}
  RunMax = 5
  BlockUnit = 20
  WordSize = 4
  Levels = {0, 1}
  InBound = 6
  ChunkIn = 2
  ChunkOut = 2
  BlockNoBound = 3
INVARIANTS TypeOK BlockFits Conserved StreamEndIsComplete StreamDecodes
PROPERTIES FlushEndsClean NoSlippedInput
