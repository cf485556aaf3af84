SPECIFICATION FairSpec
CHECK_DEADLOCK FALSE
CONSTANTS
  d1 = d1
  d2 = d2
  None = None
  Daemon = {d1, d2}
  TTL = 2
  MaxFaults = 3
  MaxGen = 6
INVARIANT TypeOK
PROPERTY FencedInGenerationOrder
PROPERTY OnlyAwayLosesAuthority
PROPERTY ServedAgain
