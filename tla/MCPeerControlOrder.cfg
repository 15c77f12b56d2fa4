SPECIFICATION PeerSpec
CONSTANTS
  CtlBurst = 1
  CtlMaxClocks = 2
  CtlMaxSend = 4
  CtlMaxUp = 2
INVARIANT ControlInOrder
CHECK_DEADLOCK FALSE
