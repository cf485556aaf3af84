SPECIFICATION MCSpec
CONSTANTS
  Session = {s1, s2}
  PR = {p1, p2}
  s1 = s1
  s2 = s2
  p1 = p1
  p2 = p2
  NoPR = NoPR
  Legacy = Legacy
  BundleHosts = {s1, s2}
  LeaseHosts = {s2}
  PollHosts = {s2}
  MaxEvents = 3
  MaxPerPoll = 2
  MaxHandoffs = 2
  Limit = 1
  Stale = 1
  ClaimLease = 1
INVARIANT BatchIsPendingPrefix
INVARIANT OneHandoffInFlight
INVARIANT SettledHandoffIdle
INVARIANT BundleWhole
PROPERTY PausedGetsNothing
PROPERTY DroppedGetsNothing
PROPERTY AckIsRepeatable
PROPERTY ImplementsDelivery
