SPECIFICATION Spec
CONSTANTS
  Slots = {s1}
  Boards = {b1}
  OwnerCap = 2
  FatalCap = 2
  NumTx = 1
  ProbeDuringUnload = FALSE
INVARIANT FreeAllowedMeansStopped
CHECK_DEADLOCK FALSE
