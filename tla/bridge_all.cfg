CONSTANTS
  d1 = d1
  d2 = d2
  None = None
  Old = Old
  Daemon = {d1, d2}
  Reminder = {r1, r2}
  Version <- MCVersion
  Minimum <- MCMinimum
  Manual = TRUE
  MaxGen = 4
  MaxFaults = 2
SPECIFICATION Spec
CHECK_DEADLOCK FALSE
INVARIANT BelowFloorKeptOut
INVARIANT OneAuthority
INVARIANT ReminderKept
PROPERTY NeitherCopyLowered
