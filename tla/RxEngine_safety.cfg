SPECIFICATION FairSpec
CONSTANTS
  BufSize = 4
  Prefix = 2
  MinFrame = 1
  MaxSegments = 3
  Posted = 4
  DrainMax = 2
  Lens = {0, 2, 7}
  ActivationSupported = TRUE
INVARIANTS DeviceMemoryStays TeardownAlone NoLostWakeup ConsumerInStep
PROPERTIES TeardownEnds
CHECK_DEADLOCK FALSE
