SPECIFICATION FairSpec
CONSTANTS
  Symbols = {0, 1}
  RunMax = 5
  BlockUnit = 21
  WordSize = 16
  Levels = {1}
  InBound = 5
  ChunkIn = 2
  ChunkOut = 1
  BlockNoBound = 3
PROPERTIES ImplementsPipe RequestsEnd
