SPECIFICATION FairSpec
CONSTANTS
  s1 = s1 s2 = s2 l1 = l1 l2 = l2
  MaxMessages = 3
  SessionOf <- TwoSessions
  Loops = {l1, l2}
  Configs <- AllKinds
  MaxFaults = 1
  NoSession = NoSession AnySession = AnySession
INVARIANTS Accounted CompletedInOrder
PROPERTY EventuallyCompleted
CHECK_DEADLOCK FALSE
