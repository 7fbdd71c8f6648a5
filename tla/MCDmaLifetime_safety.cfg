SPECIFICATION Spec
CONSTANTS
  Slots = {s1, s2, s3}
  Boards = {b1, b2}
  MaxPresent = 2
  OwnerCap = 2
  FatalCap = 2
  NumTx = 1
  ProbeDuringUnload = FALSE
INVARIANTS MemoryAccountable NeverDrivenAgain NoTxAfterFree
PROPERTY RetainedForever
CONSTRAINT FewPresent
SYMMETRY Symmetry
CHECK_DEADLOCK FALSE
