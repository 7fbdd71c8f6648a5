SPECIFICATION Spec
CONSTANTS
  Slots = {s1}
  Boards = {b1}
  OwnerCap = 2
  FatalCap = 2
  FifoCap = 1
  MaxReads = 2
  NumEntries = 2
  NumMhf = 1
  NumRecords = 2
INVARIANTS ClassifiedIsRefused
CHECK_DEADLOCK FALSE
