SPECIFICATION Spec
CONSTANTS
  Tasks = {t1, t2}
  Clients = {c1, c2}
  Kinds = {"create"}
  MaxFaults = 1
  FaultKinds = {"read"}
  None = None
PROPERTIES
  FrozenBlocksMutations
CHECK_DEADLOCK FALSE
