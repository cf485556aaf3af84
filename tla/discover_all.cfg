SPECIFICATION MCSpec
CHECK_DEADLOCK FALSE
CONSTANTS
  s1 = s1
  t1 = t1
  t2 = t2
  b1 = b1
  b2 = b2
  None = None
  Session = {s1}
  Tree = {t1, t2}
  Branch = {b1, b2}
  Pr = {1, 2, 3, 4}
  MaxResolved = 1
  Etags = {TRUE, FALSE}
  MaxFaults = 1
  Own <- MCOwn
  HeadOf <- MCHead
  Home <- MCHome
  Slices = {"two", "foreign", "lasting", "branches", "trees", "others"}
INVARIANT DiscoveryTypeOK
INVARIANT FollowsAsBound
INVARIANT OptOutRespected
PROPERTY BindingSpec
PROPERTY PriorEndsFirst
PROPERTY NewPrIsFollowedWhenFair
