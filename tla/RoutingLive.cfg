SPECIFICATION FairSpec
CONSTANTS
  Account = {1, 2}
  Request = {r1, r2}
  RegionOf <- TwoRegionOf
  DefaultRegion = 1
  Cap <- TwoCap
  MaxAttempts = 2
  Pin <- MCNoPin
  MaxChanges = 1
INVARIANTS
  SlotsConserved
  NoLeakedSlot
  CapRespected
PROPERTIES
  RequestsFinish
CHECK_DEADLOCK FALSE
