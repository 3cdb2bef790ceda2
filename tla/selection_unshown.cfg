CONSTANTS
  CanvasTokens = {"t1"}
  Places = {"p1", "p2"}
  Pointers = {"mouse"}
  NoToken = "no token"
  Nowhere = "nowhere"
  MaxRenderers = 1

SPECIFICATION CanvasSpec
INVARIANT SelectionIsShown

CHECK_DEADLOCK FALSE
