SPECIFICATION Spec
CONSTANTS
  Columns <- TestColumns
  Symbols <- Letters
  GroupLimits <- Thresholds
  BZ_G_SIZE = 3
  BZ_N_ITERS = 2
  BZ_N_GROUPS = 4
  BZ_LESSER_ICOST = 0
  BZ_GREATER_ICOST = 15
  maxLen = 3
  LongestCode = 4
  BZ_MAX_SELECTORS = 6
  nblockMAX = 14
  MaxN = 16
  MTFA_SIZE = 8
  MTFL_SIZE = 2
  RoundUp = 2
INVARIANTS RoundTrip ArraysHold TablesSound
PROPERTY HalvingShrinks
CHECK_DEADLOCK FALSE
