SPECIFICATION Spec
CONSTANTS
  Topics <- MCTopics
  EventIds = {1, 2}
  Bodies = {"a", "b"}
  Singles <- SafetySingles
  Batches <- NoBatches
  FlowBatches <- SafetyFlows
  QueueLimit = 2
  GroupLimit = 2
  MaxRows = 2
  PubackLimit = 2
  MaxCalls = 2
  MaxFaults = 2
  FaultKinds = {"crash", "close", "disk", "publish", "settle", "read", "cancel"}
INVARIANTS
  TypeOK
  NothingLost
  FlowPairAtomic
PROPERTIES
  CloseKeepsAcks
  ImplementsPromise
CHECK_DEADLOCK FALSE
