SPECIFICATION FairSpec
CONSTANTS
  p1 = p1 p2 = p2
  Publishers = {p1, p2}
  Configs <- AllKinds
INVARIANT GoneWereHandled
PROPERTIES ChannelShared EveryoneGetsOn
CHECK_DEADLOCK FALSE
