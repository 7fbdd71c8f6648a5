SPECIFICATION Spec
CONSTANTS
  N = 4
  GenMax = 2
  NoPacket = NoPacket
  Packets = {p1, p2, p3}
  NumQueues = 2
  Capacity = 2
  Dmas = {0}
  Submissions = 6
  IdValid = {TRUE}
INVARIANTS SlotAgreement ConsumerAtOldest MappingsExact FullQueueIsStopped
CHECK_DEADLOCK FALSE
SYMMETRY Symmetry
