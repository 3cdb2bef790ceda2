CONSTANTS
  NULL = NULL
  MaxRequests = 3
  MaxStarts = 2
  MaxFlags = 1
  MaxNow = 2
  Secrets = {"p1"}
  MAX_ATTEMPTS = 1
SPECIFICATION Spec
INVARIANTS
  OneAdmin
  WayIn
  OneResetPerFlag
  AttemptsBounded
CHECK_DEADLOCK FALSE
