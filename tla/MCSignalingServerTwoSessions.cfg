SPECIFICATION FairSpec
CONSTANTS
  Conn = {c1, c2, c3}
  NoConn = NoConn
  JOIN_CAPABILITY_LIFETIME = 1
  OWNER_ONLY_LIFETIME = 1
  JOIN_RESERVATION_LIFETIME = 1
  ICE_DISCONNECTED_GRACE = 1
  ABSOLUTE_SESSION_LIFETIME = 1
  HEARTBEAT_INTERVAL = 2
  PEER_ACTIVITY_TIMEOUT = 2
  MaxTime = 1
  MaxSequence = 3
  MaxSends = 5
  MaxSessions = 2
CHECK_DEADLOCK FALSE
PROPERTIES SessionsAreIsolated SessionsEnd
