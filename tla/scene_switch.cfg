CONSTANTS
  s1 = s1  s2 = s2  t1 = t1  t2 = t2  a1 = a1
  gm = gm  pl = pl  p1 = p1  p2 = p2
  SceneIds = {s1, s2}
  TokenIds = {t1, t2}
  ActorIds = {a1}
  Seats = {gm, pl}
  GmSeats = {gm}
  Positions = {p1, p2}
  Data = {NoData}
  NoData = NoData
  None = None
  Me = pl
  Inputs <- SceneInputs
  Seed <- TwoScenes
  Rulesets = {}
  MaxEvents = 1
  MaxMoves = 0
  MaxDrops = 0

SPECIFICATION Spec
INVARIANTS
  CanvasIsProjection

\* After the last move and the last loss there is nothing left to happen.
CHECK_DEADLOCK FALSE
