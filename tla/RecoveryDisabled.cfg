SPECIFICATION Spec
CONSTANTS
  Admin = {a1}
  Slot = {s1, s2}
  Proc = {p1, p2, p3}
  Dog = dog
  Closer = closer
  None = none
  Console = FALSE
  MaxOps = 2
  MaxCrashes = 1
  MaxFailures = 0
INVARIANT DisabledStaysDown
SYMMETRY Interchangeable
CHECK_DEADLOCK FALSE
