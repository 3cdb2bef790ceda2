CONSTANTS
  Sockets = {w1, w2}
  NoSocket = NoSocket
  MaxRefreshes = 1
  MaxFaults = 1

SPECIFICATION ConnectionSpec
INVARIANTS
  DisconnectIsFinal
