SPECIFICATION FairSpec
CONSTANTS
  Sources <- AllSources
  BlockUnit = 5
  WordSize = 4
  ChunkIn = 3
  ChunkOut = 3
INVARIANTS TypeOK OutputAccounted StreamEndSound SoundAccepted BlockInTable TotalsExact
PROPERTIES OkMeansStuck DecodeEnds
