SPECIFICATION Spec
CONSTANTS
  k1 = k1 k2 = k2 k3 = k3 p1 = p1 p2 = p2 r1 = r1 s1 = s1
  Keys <- ThreeKeys
  Prefixes <- AllPrefixes
  Parent <- ParentThree
  Readers = {}
  Scanners = {s1}
  TTLs <- NoTTLs
  Patterns <- ScanPatterns
  PageSizes = {1, 2}
  BulkReads = {}
  MaxNow = 0
  MaxWrites = 4
  MaxOps = 1
  NoItem = NoItem NoKey = NoKey NoETag = NoETag Never = Never
INVARIANTS ScanMissesNothing ScanRepeatsOnlyRewritten
CHECK_DEADLOCK FALSE
