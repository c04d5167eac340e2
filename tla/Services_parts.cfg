SPECIFICATION ServicesSpec
CONSTANTS
  a4 = a4 a6 = a6 c1 = c1 c2 = c2
  Callers = {c1, c2}
  Hosts <- Dual
  V4 = {a4}
  AddressTTL = 2
  RefreshCap = 1
  MaxCalls = 3
  MaxTicks = 2
  MaxFaults = 1
  Idle = Idle p1 = p1 p2 = p2 r1 = r1 r2 = r2
  Apps = {p1, p2}
  Resolvers = {r1, r2}
  RegistrationCap = 1
  MaxResolves = 2
  MaxHealthChanges = 2
  MaxQueryFaults = 2
  i1 = i1 i2 = i2 Nobody = Nobody
  Databases <- AllDatabases
  Starters = {i1, i2}
  MaxCrashes = 1
  MaxRows = 2
  k1 = k1 k2 = k2 s1 = s1 s2 = s2
  Providers <- AllProviders
  Settings = {k1, k2}
  Subscriptions = {s1, s2}
  PoolSize = 2
  MaxChanges = 2
  MaxLosses = 1
INVARIANT RegistryIsFresh
PROPERTIES FoundIsAnswered ResolversGetOn MigrationsRunOnce StartersGetReady
  ToldInOrder SubscribersServed
CHECK_DEADLOCK FALSE
