SPECIFICATION FairSpec
CONSTANTS
  Admin = {}
  Slot = {s1, s2}
  Proc = {p1, p2}
  Dog = dog
  Closer = closer
  None = none
  Console = FALSE
  MaxOps = 0
  MaxCrashes = 2
  MaxFailures = 1
PROPERTIES  SickIsNotRouted CloseFinishes
CHECK_DEADLOCK FALSE
