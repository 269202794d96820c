SPECIFICATION Spec
CONSTANTS
  BZIP2_POOL_SIZE = 22
  BZIP2_SMALL_ALLOC_LIMIT = 4
  BZIP2_ALIGNMENT = 2
  Header = 2
  Slack = 1
  WordSize = 64
  Sizes = {1, 4, 5}
  SysMax = 1
  CountMax = 1
INVARIANTS PoolTiled HeldFits
CHECK_DEADLOCK FALSE
