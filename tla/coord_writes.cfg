SPECIFICATION Spec
CHECK_DEADLOCK FALSE
CONSTANTS
  d1 = d1
  d2 = d2
  None = None
  Daemon = {d1, d2}
  TTL = 1
  MaxFaults = 2
  MaxGen = 3
PROPERTY WritesInGenerationOrder
