SPECIFICATION Spec
CONSTANTS
  MaxUnits = 2
  MaxBytes = 3
  MaxAge = 1
  MaxShareEvents = 3
  MaxEncoded = 2
  Disturbances = 1
  UnitSizes <- OneSize
INVARIANT
  RecordingOutlivesPeer
