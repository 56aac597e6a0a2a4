SPECIFICATION FairSpec
CONSTANTS
  Clients = {c1, c2}
  Streams <- TwoStreams
  Stocks = "stocks"
  Channels <- ThreeChannels
  Requests <- MCRequests
  Eager = {"stocks"}
  Tasks <- MCTasks
  MaxRetries = 1
  MaxRequests = 2
  MaxFaults = 2
INVARIANTS
  TypeOK
  OneLoop
  UpstreamMatchesIndex
  AncillaryCovers
CHECK_DEADLOCK FALSE
PROPERTIES
  FailedStaysDown
  Revived
