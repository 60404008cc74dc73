SPECIFICATION Spec
CONSTANTS
  Admin = {a1}
  Slot = {s1, s2}
  Proc = {p1, p2}
  Dog = dog
  Closer = closer
  None = none
  Console = TRUE
  MaxOps = 2
  MaxCrashes = 1
  MaxFailures = 0
INVARIANTS WorkersAreKnown OneRecovery
SYMMETRY Interchangeable
CHECK_DEADLOCK FALSE
