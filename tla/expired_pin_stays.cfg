CONSTANTS
  NULL = NULL
  MaxRequests = 2
  MaxStarts = 2
  MaxFlags = 1
  MaxNow = 2
  Secrets = {"p1"}
  MAX_ATTEMPTS = 1
SPECIFICATION Spec
PROPERTY RestartRenewsPin
CHECK_DEADLOCK FALSE
