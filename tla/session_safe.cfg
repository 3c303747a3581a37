SPECIFICATION Spec
CONSTANTS
  Providers = {p1, p2}
  p1 = p1
  p2 = p2
  NoOne = NoOne
  MaxAlive = 2
  Calls = {1, 2}
  Connected = TRUE
  Langs = {"en"}
SYMMETRY Symmetry
INVARIANTS
  SessionKept
