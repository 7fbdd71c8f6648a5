SPECIFICATION Spec
CONSTANTS
  N = 3
  GenMax = 2
  NoPacket = NoPacket
  Packets = {p1}
  NumQueues = 2
  Capacity = 2
  Dmas = {0}
  Submissions = 6
  IdValid = {TRUE}
PROPERTIES PublishedIsOwned
CHECK_DEADLOCK FALSE
