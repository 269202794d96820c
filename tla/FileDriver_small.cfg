SPECIFICATION Spec
CONSTANTS
  Inputs = {"a", "b"}
  Outputs = {"x", "y"}
  Stdout = "stdout"
  Pieces = 2
  ArgCount = 2
INVARIANTS NothingLost StatusTells
PROPERTIES OthersKept
CHECK_DEADLOCK FALSE
