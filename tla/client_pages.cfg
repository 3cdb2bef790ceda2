CONSTANTS
  MaxSeq = 6
  MaxZ = 5
  MaxLost = 1
  Campaigns = {"c1", "c2"}
  MaxSeats = 2
  MaxOps = 3
  MaxElsewhere = 1
  CanvasTokens = {"t1", "t2"}
  Places = {"p1", "p2"}
  Pointers = {"mouse", "pen"}
  NoToken = "no token"
  Nowhere = "nowhere"
  MaxRenderers = 2
SPECIFICATION ClientPagesSpec
INVARIANTS
  EachWindowHasOneHome
  CanvasShowsStores
  GesturesCleanUp
  TreeIsSound
  CalmStoreIsTheServer
PROPERTIES
  AnswerShowsItsWrite
CHECK_DEADLOCK FALSE
