CONSTANTS
  c1 = c1
  c2 = c2
  l1 = l1
  o1 = o1
  None = None
  Client = {c1, c2}
  OldClient = {l1}
  Op = {o1}
  TTL = 1
  MaxTokens = 3
  MaxDaemons = 2
  Abandoning = TRUE
SPECIFICATION MCSpec
CHECK_DEADLOCK FALSE
INVARIANT OldClientsNotLockedOut
PROPERTY OwnerNotDetached
PROPERTY WorkInGenerationOrder
PROPERTY GenerationNamesOneHolder
PROPERTY ReattachedWhileLasting
