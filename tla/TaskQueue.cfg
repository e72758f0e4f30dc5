SPECIFICATION FairSpec
CONSTANTS
  QUEUE_TASK_LENGTH = 3
  MaxArrivals = 6
  MaxMallocFailures = 1
INVARIANTS
  TypeOK
  RingConsistent
  TaskHeld
  TablesExclusive
  IInv
PROPERTIES
  ChannelSpec
  EveryTaskDelivered
  SendsForEver
