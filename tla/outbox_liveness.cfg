SPECIFICATION FairSpec
CONSTANTS
  Topics <- MCTopics
  EventIds = {1, 2}
  Bodies = {"a"}
  Singles <- LiveSingles
  Batches <- LiveBatches
  FlowBatches <- NoBatches
  QueueLimit = 2
  GroupLimit = 2
  MaxRows = 2
  PubackLimit = 1
  MaxCalls = 2
  MaxFaults = 1
  FaultKinds = {"crash", "close", "disk", "publish", "settle", "cancel"}
PROPERTIES
  EventuallyDelivered
  CallersAnswered
CHECK_DEADLOCK FALSE
