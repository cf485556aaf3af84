SPECIFICATION MCSpec
CONSTANTS
  Session = {s1}
  PR = {p1, p2}
  s1 = s1
  p1 = p1
  p2 = p2
  NoPR = NoPR
  Legacy = Legacy
  BundleHosts = {s1}
  LeaseHosts = {}
  PollHosts = {}
  MaxEvents = 3
  MaxPerPoll = 1
  MaxHandoffs = 3
  Limit = 1
  Stale = 1
  ClaimLease = 1
INVARIANTS
  NothingLost
  ConfirmedNotRepeated
PROPERTIES
  EventuallyShown
