SPECIFICATION FairSpec
CONSTANTS
  Chat = {c1, c2}
  Streams = {c1}
  Device = {d1}
  Pat = {p1}
  MaxInFlight = 2
  MaxRejects = 2
  MaxRewarms = 1
  None = None
INVARIANTS
  SlotsAreChats
  ChainIsSound
  RetryIsFresh
  ContextIsCurrent
PROPERTIES
  StreamSentOnce
  ChatsAnswered
CHECK_DEADLOCK FALSE
