SPECIFICATION FairSpec
CONSTANTS
  k1 = k1 k2 = k2 k3 = k3 p1 = p1 p2 = p2 r1 = r1 s1 = s1
  Keys <- TwoKeys
  Prefixes <- AllPrefixes
  Parent <- ParentTwo
  Readers = {r1}
  Scanners = {}
  TTLs <- ExpiringTTLs
  Patterns = {}
  PageSizes = {1}
  BulkReads <- AtOnce
  MaxNow = 2
  MaxWrites = 2
  MaxOps = 2
  NoItem = NoItem NoKey = NoKey NoETag = NoETag Never = Never
INVARIANTS TypeOK AtMostOneWinner GetLinearizable
PROPERTIES ImplementsTTLStore ExpiredCollected
CHECK_DEADLOCK FALSE
