SPECIFICATION Spec
CONSTANTS
    MaxRefs = 1
    Stages = {"rev4", "write", "w2"}
INVARIANT QuiescedEntryAccepted
CHECK_DEADLOCK FALSE
