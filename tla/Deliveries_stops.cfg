SPECIFICATION Spec
CONSTANTS
  Adapters <- AllAdapters
  Messages = {1, 2}
  MaxReceives = 2
  RetryLimit = 2
  MaxFaults = 2
INVARIANTS NothingLost RunsUntilStopped
PROPERTY OrderKept
CHECK_DEADLOCK FALSE
