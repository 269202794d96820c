SPECIFICATION Spec
CONSTANTS
  Blocks <- SmallBlocks
  Symbols <- Letters
  incs <- Increments
  MinMain = 6
  BZ_N_QSORT = 0
  BZ_N_SHELL = 1
  Plain = 1
  Chunk = 2
  MAIN_QSORT_SMALL_THRESH = 2
  FALLBACK_QSORT_SMALL_THRESH = 5
  MaxQuad = 2
INVARIANTS RotationsSorted BucketsTell ClassesTell Unsorts
CHECK_DEADLOCK FALSE
