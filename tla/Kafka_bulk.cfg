SPECIFICATION Spec
CONSTANTS
  s1 = s1
  s2 = s2
  t1 = t1
  t2 = t2
  None = None
  Subscriptions = {s1, s2}
  Topics = {t1, t2}
  TopicOf <- OneEach
  Modes <- BulkForever
  LastOf <- TwoAndOne
  MaxFaults = 1
INVARIANT NothingSkippedInBulk
CHECK_DEADLOCK FALSE
