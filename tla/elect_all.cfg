SPECIFICATION MCSpec
CHECK_DEADLOCK FALSE
CONSTANTS
  l0 = l0
  l1 = l1
  l2 = l2
  l3 = l3
  d1 = d1
  d2 = d2
  None = None
  Launcher = {l0, l1, l2, l3}
  Daemon = {d1, d2}
  Build <- MCBuild
  Killing = {l2}
  MaxFaults = 3
PROPERTY SocketNotCutOff
PROPERTY NeverDowngraded
PROPERTY ServedAgainWhenFair
