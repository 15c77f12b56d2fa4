CONSTANTS
  MaxUnits = 3
  QueueLimit = 2
  MaxFaults = 2
SPECIFICATION FairSpec
INVARIANTS
  CrashKeepsPromise
  CompletionIsExact
PROPERTIES
  NeverOverwrites
  FinalizeReturnsInTime
CHECK_DEADLOCK FALSE
