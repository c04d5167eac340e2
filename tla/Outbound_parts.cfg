SPECIFICATION OutboundSpec
CONSTANTS
  h1 = h1 h2 = h2 a1 = a1
  Sidecars = {h1, h2}
  Addresses = {a1}
  AddressOf <- SharedAddress
  TicksPerSecond = 2
  UpdateInterval = 4
  Timeout = 2
  CleanupInterval = 3
  MaxLatency = 2
  Cleanups = {TRUE, FALSE}
  MaxNow = 12
  MaxFaults = 1
  NoRow = NoRow Never = Never
  Bindings <- AllBindings
  Callers = {1, 2}
  ObjectNames = {1, 2}
  MaxStoreFaults = 2
  Senders <- AllSenders
  Publishers = {1, 2}
  MaxClients = 6
  MaxAttempts = 3
  MaxSendFaults = 2
  Components <- AllComponents
  PagedStores <- AllPaged
  BulkStores <- AllBulk
  RowKeys = {1, 2, 3}
  PageSizes = {0, 1, 2}
  FetchFirst = 1
  FetchFactor = 2
  FetchCap = 2
  ChunkSize = 2
  Parallelism = 2
  MaxRequest = 3
  MaxRowWrites = 1
  MaxReadFaults = 1
INVARIANTS RegistryIsTrue ObjectCallsAreTrue PublicationsAreTrue  ReadsAreComplete
PROPERTY RowsKeptByOthers
CHECK_DEADLOCK FALSE
