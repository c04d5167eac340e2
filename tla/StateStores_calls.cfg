SPECIFICATION Spec
CONSTANTS
  c1 = c1
  c2 = c2
  k1 = k1
  k2 = k2
  NoRow = NoRow
  NoETag = NoETag
  Clients <- MCClients
  Keys <- MCKeys
  Stores <- AllStores
  SetKeys = {k1}
  MaxRequests = 4
  MultiTTLs = {"nil"}
SYMMETRY MCSymmetry
PROPERTIES ETagGuards ReportsAreTrue ExpiryRespected
CHECK_DEADLOCK FALSE
