SPECIFICATION Spec
CONSTANTS
  Inputs = {"a"}
  Outputs = {"x"}
  Stdout = "stdout"
  Pieces = 2
  ArgCount = 1
INVARIANT NoErrorGetsHere
CHECK_DEADLOCK FALSE
