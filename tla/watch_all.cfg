SPECIFICATION MCSpec
CHECK_DEADLOCK FALSE
CONSTANTS
  d1 = d1
  d2 = d2
  s1 = s1
  s2 = s2
  p1 = p1
  p2 = p2
  None = None
  Daemon = {d1, d2}
  Session = {s1, s2}
  Pr = {p1, p2}
  MaxVersion = 2
  MaxFailures = 2
  MaxFaults = 2
INVARIANT RowsAreAuthoritative
INVARIANT NothingSkipped
PROPERTY WatchedIsPolledWhenFair
