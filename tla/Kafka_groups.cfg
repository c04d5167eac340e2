SPECIFICATION Spec
CONSTANTS
  s1 = s1
  s2 = s2
  t1 = t1
  t2 = t2
  None = None
  Subscriptions = {s1, s2}
  Topics = {t1, t2}
  TopicOf <- OneEach
  Modes <- AllModes
  LastOf <- TwoAndOne
  MaxFaults = 1
INVARIANT NothingSkipped
PROPERTIES ServedWhileLive HandledOnce CloseEnds
CHECK_DEADLOCK FALSE
