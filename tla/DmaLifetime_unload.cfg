SPECIFICATION Spec
CONSTANTS
  Slots = {s1}
  Boards = {b1}
  OwnerCap = 2
  FatalCap = 2
  NumTx = 1
  ProbeDuringUnload = TRUE
INVARIANT MemoryAccountable
CHECK_DEADLOCK FALSE
