SPECIFICATION FairSpec
CONSTANTS
  w1 = w1
  Workers = {w1}
  QueueDepth = 2
  Redeliver = TRUE
  MaxMessages = 2
  MaxStreamFaults = 1
  MaxTrimmed = 1
  MaxStops = 1
  NoMsg = NoMsg
INVARIANT UnsettledStaysPending
PROPERTY EverythingEnds
CHECK_DEADLOCK FALSE
