SPECIFICATION FairSpec
CONSTANTS
  ab = ab ac = ac aStar = aStar s1 = s1 s2 = s2 p1 = p1 p2 = p2
  Publishers = {p1, p2}
  Subs = {s1, s2}
  Topics = {ab}
  Patterns = {ab, aStar}
  PatternOf <- OneSubPerTopic
  Matches <- Wildcard
  MaxPublish <- TwoAndOne
  NoTopic = NoTopic
INVARIANT EveryoneServedInOrder
PROPERTY CallsReturn
CHECK_DEADLOCK FALSE
