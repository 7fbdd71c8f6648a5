SPECIFICATION FairSpec
CONSTANTS
  N = 4
  GenMax = 2
  NoPacket = NoPacket
  Packets = {p1, p2, p3}
  NumQueues = 2
  Capacity = 2
  Dmas = {0}
  Submissions = 4
  IdValid = {TRUE}
INVARIANTS SlotAgreement ConsumerAtOldest MappingsExact FullQueueIsStopped
PROPERTIES ImplementsQueues EveryPacketDisposed StoppedQueueWakes
CHECK_DEADLOCK FALSE
