SPECIFICATION Spec
CONSTANTS
    MaxRefs = 1
    Stages = {"rev4", "write", "w2"}
PROPERTY SuspendUnwinds
CHECK_DEADLOCK FALSE
