SPECIFICATION Spec
CONSTANTS
  Slots = {s1, s2}
  Boards = {b1}
  OwnerCap = 2
  FatalCap = 2
  FifoCap = 1
  MaxReads = 2
  NumEntries = 2
  NumMhf = 1
  NumRecords = 2
INVARIANTS NeverRetried TailOnlyWhenEarned OneDeadWrite NoLiveOwnerLeft
CHECK_DEADLOCK FALSE
SYMMETRY Symmetry
