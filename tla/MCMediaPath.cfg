SPECIFICATION MCSpec
CONSTANTS
  Senders = {s1, s2}
  Closers = {c1}
  Datagrams <- MCDatagrams
  MaxEpoch = 3
  MaxCount = 40
  MaxSends = 2
  MaxBoundaries = 2
  MaxUnits = 2
  MaxBytes = 3
  MaxAge = 2
  MaxPublished = 4
  MaxUnitEpoch = 3
  UnitSizes <- MCUnitSizes
  Window = 1
  FloodTime = 1
  MaxFeedback = 2
  MaxNackIds = 1
  CacheAge = 1
  CachePackets = 2
  MaxRetransmissions = 1
  WireModulus = 3
  PacerCapacity = 2
  PacerAge = 1
  MaxAccessUnits = 1
  RspMaxEpoch = 1
  AccessUnitSizes <- MCAccessUnitSizes
  NackSize = 2
  MaxMessages = 2
INVARIANTS
  MediaOnlyInItsEpoch
  AccountsSound
  QueueSound
PROPERTIES
  BoundaryIsFinal
  BoundarySpec
  TakenChain
  ResponderProgress
CHECK_DEADLOCK FALSE
