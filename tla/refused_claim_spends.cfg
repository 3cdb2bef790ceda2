CONSTANTS
  NULL = NULL
  MaxRequests = 1
  MaxNow = 0
  Usernames = {"u1", "u2"}
  Passwords = {"p1", "p2"}
  SESSION_CAP = 1
  LOGIN_RATE_MAX = 1
SPECIFICATION Spec
INVARIANT
  UseSpentForAccount
CHECK_DEADLOCK FALSE
