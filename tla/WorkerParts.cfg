SPECIFICATION FairSpec
CONSTANTS
  None = None
  Lines <- MCLines
  MaxLines = 3
  Ttfb = 1
  Stall = 2
  y = y
  t1 = t1
  t2 = t2
  Batches <- MCBatches
  ResultId <- MCResultId
  Tool = {t1}
  MaxMessages = 4
  Caller = {scheduler, console}
  Campaign = {k1, k2}
  MaxCalls = 2
  MaxStale = 1
INVARIANTS
  NoSilentTruncation
  
  
PROPERTIES
  CheckinIsHonest
  PartsAnswer
CHECK_DEADLOCK FALSE
