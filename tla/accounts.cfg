CONSTANTS
  NULL = NULL
  MaxRequests = 3
  MaxNow = 2
  Usernames = {"u1", "u2"}
  Passwords = {"p1", "p2"}
  SESSION_CAP = 1
  LOGIN_RATE_MAX = 1
SPECIFICATION Spec
INVARIANTS
  OneAccountPerName
  UsesAccounted
  GrantedSeatIsHeld
  SessionsCapped
  SeatBoundByClaim
PROPERTIES
  SeatStaysBound
CHECK_DEADLOCK FALSE
