SPECIFICATION FairSpec
CONSTANTS
  e1 = e1
  e2 = e2
  e3 = e3
  e4 = e4
  Events <- MCEvents
  Singles <- TwoSingles
  Batches <- PairAndParts
  Workers = {w1, w2}
  Poller = p
  Sentinel = Sentinel
  QueueSize = 1
  BufferSize = 2
  Attempts = 2
  FailureThreshold = 1
  SuccessThreshold = 1
  MaxFailures = 3
  MaxCalls = 2
  MaxFaults = 2
  FaultKinds = {"outage", "timeout", "item", "cancel", "close"}
INVARIANTS
  TypeOK
  EventsKept
  OneCopy
PROPERTIES
  Dispatched
CHECK_DEADLOCK FALSE
