SPECIFICATION FairSpec
CONSTANTS
  Conns = {c1}
  Symbols = {"SPY", "QQQ"}
  SymbolOf <- MCSymbolOf
  Requests <- MCRequests
  MaxEvents = 4
  MaxLen = 3
  MaxReplay = 2
  MaxAsks = 2
  MaxResumes = 1
  MaxFaults = 1
INVARIANTS
  TypeOK
  NothingSkipped
  SentInOrder
  GapFailsClosed
PROPERTIES
  BarrierLifted
CHECK_DEADLOCK FALSE
