SPECIFICATION MCSpec
CONSTANTS
  OwnMaxEvents = 2
  OwnTimeout = 2
  OwnMaxClient = 4
  OwnAutoJoin = TRUE
  CtlBurst = 2
  CtlMaxClocks = 2
  CtlMaxSend = 6
  CtlMaxUp = 4
  RegTop <- MCTop
  RegAction = 1
  RegReversal = 2
  RegEntry = 1
  RegReturn = 3
  RegUnusable = 2
  RegFresh = 1
  RegPending = 1
  ClkSamples = 3
  ClkVariation = 2
  ClkDelays = {0, 1, 3}
  ClkLeads = {0, 5}
INVARIANTS OwnNothingLost ControlAgrees LevelsFollowHistory ClockSound
PROPERTIES OwnSilentServerEnds DeadLinkStops
CHECK_DEADLOCK FALSE
