SPECIFICATION FairSpec
CONSTANTS
  p1 = p1
  p2 = p2
  l1 = l1
  l2 = l2
  e1 = e1
  Procs <- MCProcs
  LiveProcs <- MCLiveProcs
  LiveIds <- MCLiveIds
  EodIds <- MCEodIds
  MaxFaults = 1
INVARIANTS
  TypeOK
  NeverSuppressed
  CompletedCovers
PROPERTIES
  CompletedStays
  DaySwept
