SPECIFICATION FairSpec
CONSTANTS
  MaxUnits = 2
  MaxBytes = 3
  MaxAge = 1
  MaxShareEvents = 2
  MaxEncoded = 4
  Disturbances = 2
  UnitSizes <- SmallAndTooLarge
INVARIANTS
  RecorderMissesNothing
PROPERTIES
  EpochStartsWithIdr
  RevocationHolds
  StopEndsShare
