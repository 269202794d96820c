SPECIFICATION Spec
CONSTANTS
  Files <- SmallFiles
  BLOCK_HEADER <- Header
  BLOCK_ENDMARK <- EndMark
  BZh9 <- StreamHeader
  CrcLen = 2
  MinBits = 4
  MinLast = 2
  BZ_MAX_HANDLED_BLOCKS = 4
  ByteBits = 3
  WordSize = 64
INVARIANTS BlocksExtracted TooManyRefused
CHECK_DEADLOCK FALSE
