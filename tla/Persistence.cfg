SPECIFICATION FairSpec
CONSTANTS
  Account = {1, 2}
  Worker = {w1, w2}
  MaxVersion = 2
  MaxRestarts = 1
INVARIANTS
  FlushPersists
  NewestIsSaved
PROPERTIES
  CooldownsDurable
  StatusesDurable
  CallersReturn
  EventuallyPersisted
CHECK_DEADLOCK FALSE
