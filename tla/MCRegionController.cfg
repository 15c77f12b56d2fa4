SPECIFICATION RegSpec
CONSTANTS
  RegTop <- MCTop
  RegAction = 1
  RegReversal = 2
  RegEntry = 1
  RegReturn = 3
  RegUnusable = 2
  RegFresh = 1
  RegPending = 1
INVARIANT RecoveryReturns
CHECK_DEADLOCK FALSE
