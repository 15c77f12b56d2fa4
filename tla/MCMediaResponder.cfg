SPECIFICATION MCSpec
CONSTANTS
  Window = 1
  FloodTime = 1
  MaxFeedback = 2
  MaxNackIds = 1
  CacheAge = 1
  CachePackets = 2
  MaxRetransmissions = 1
  WireModulus = 3
  PacerCapacity = 2
  PacerAge = 1
  MaxAccessUnits = 2
  RspMaxEpoch = 2
  AccessUnitSizes <- PairOrTooLarge
  NackSize = 1
  MaxMessages = 4
  MaxInputs = 6
INVARIANTS OneEpochInFlight ChainUnbroken RetransmissionsSound
