SPECIFICATION Spec
CONSTANTS
    MaxRefs = 1
    Stages = {"look", "rev4", "write", "w2"}
INVARIANTS OverrideHoldsWake ForeignPauseKept CleanOrRefusedIsBalanced LeftDownIsReported
CHECK_DEADLOCK FALSE
