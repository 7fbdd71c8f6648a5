SPECIFICATION Spec
CONSTANTS
  Capacity = 3
  MaxBatch = 2
  MaxEvents = 7
INVARIANTS Conserved InOrder FailureIsLast
PROPERTY NothingAfterStop
