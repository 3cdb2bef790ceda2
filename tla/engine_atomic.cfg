CONSTANTS
  s1 = s1  s2 = s2  t1 = t1  t2 = t2  a1 = a1  a2 = a2
  gm = gm  pl = pl  p1 = p1  p2 = p2  d1 = d1
  SceneIds = {s1, s2}
  TokenIds = {t1, t2}
  ActorIds = {a1, a2}
  Seats = {gm, pl}
  GmSeats = {gm}
  Positions = {p1, p2}
  Data = {empty, d1}
  NoData = empty
  None = None
  Clients = {}
  MaxDispatches = 3
  RecentLimit = 2
  Inputs <- AtomicInputs
  Seed <- DevSeed
  Rulesets = {"dnd"}
  Faults = {}

SPECIFICATION Spec
PROPERTIES
  ServesAtomically
