SPECIFICATION Spec
INVARIANTS CompleteIsClean FailureIsTold
CHECK_DEADLOCK FALSE
