SPECIFICATION FairSpec
CONSTANTS
  Callers = {c1, c2, c3}
  FailureThreshold = 2
  SuccessThreshold = 2
  MaxFaults = 5
INVARIANTS
  TypeOK
  SlotIsHeld
PROPERTIES
  Recovers
