SPECIFICATION Spec
CONSTANTS
  Tasks = {t1, t2, t3}
  Clients = {c1, c2}
  Kinds = {"create", "cancel", "close", "bulk", "thaw"}
  MaxFaults = 2
  FaultKinds = {"store", "read", "lag", "answer", "reject", "crash", "lapse"}
  None = None
INVARIANTS
  TypeOK
  SingleWriter
  MarkerCoversWrite
  ClaimCoversExposure
PROPERTIES
  OnlyThawLiftsFreeze
SYMMETRY Interchangeable
CHECK_DEADLOCK FALSE
