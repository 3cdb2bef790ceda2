CONSTANTS
  NULL = NULL
  Names = {"n1", "n2"}
  Limit <- MCLimit
  MaxEvents = 2
  MaxCalls = 4
  MaxNow = 2
SPECIFICATION Spec
INVARIANT InvitesListed
CHECK_DEADLOCK FALSE
