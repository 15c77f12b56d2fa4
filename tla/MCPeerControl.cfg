SPECIFICATION MCSpec
CONSTANTS
  CtlBurst = 1
  CtlMaxClocks = 2
  CtlMaxSend = 4
  CtlMaxUp = 2
INVARIANT PeerEndIsLast
PROPERTY PeerStopCompletes
CHECK_DEADLOCK FALSE
