SPECIFICATION Spec
CONSTANTS
  Clients = {c1, c2}
  Streams <- TwoStreams
  Stocks = "stocks"
  Channels <- ThreeChannels
  Requests <- MCRequests
  Eager = {"stocks"}
  Tasks <- MCTasks
  MaxRetries = 1
  MaxRequests = 2
  MaxFaults = 2
INVARIANTS
  AccountedIsSubscribed
CHECK_DEADLOCK FALSE
