SPECIFICATION Spec
CONSTANTS
  Account = {1, 2, 3, 4}
  Request = {r1, r2}
  RegionOf <- MCRegionOf
  DefaultRegion = 1
  Cap <- MCCap
  MaxAttempts = 2
  Pin <- MCPins
  MaxChanges = 1
SYMMETRY Interchangeable
INVARIANTS
  FailoverIsBounded
  OneRegion
  UpstreamErrorKept
CHECK_DEADLOCK FALSE
