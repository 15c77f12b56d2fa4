SPECIFICATION Spec
CONSTANTS
  Conn = {c1, c2, c3}
  NoConn = NoConn
  JOIN_CAPABILITY_LIFETIME = 1
  OWNER_ONLY_LIFETIME = 2
  JOIN_RESERVATION_LIFETIME = 1
  ICE_DISCONNECTED_GRACE = 1
  ABSOLUTE_SESSION_LIFETIME = 3
  HEARTBEAT_INTERVAL = 1
  PEER_ACTIVITY_TIMEOUT = 2
  MaxTime = 3
  MaxSequence = 4
  MaxSends = 7
  MaxSessions = 1
SYMMETRY ConnSymmetry
CHECK_DEADLOCK FALSE
INVARIANTS StoreConsistent AdmissionSound
PROPERTIES ExpiredSessionIsInert OwnerStreamComplete
