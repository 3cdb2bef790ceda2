CONSTANTS
  Connections = {k1, k2}
  Campaigns = {m1, m2}
  Engines = {e1, e2, e3}
  None = None
  StorageYields = TRUE
  MaxExtraReleases = 1

SPECIFICATION FairSpec
INVARIANTS
  HeldEngineIsOpen
  CountIsExact
  NoOrphanEngine
PROPERTIES
  ConnectSettles
  IdleEngineCloses

\* After the shutdown and the last close nothing is left to happen.
CHECK_DEADLOCK FALSE
