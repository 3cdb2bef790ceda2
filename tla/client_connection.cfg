CONSTANTS
  Sockets = {w1, w2, w3}
  NoSocket = NoSocket
  MaxRefreshes = 2
  MaxFaults = 2

SPECIFICATION FairConnectionSpec
INVARIANTS
  OneLiveSocket
  StatusIsTrue
  NeverStranded
PROPERTIES
  Reconnects
