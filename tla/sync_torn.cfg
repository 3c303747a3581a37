SPECIFICATION Spec
CONSTANTS
  Splashes = {s1, s2}
  s1 = s1
  s2 = s2
  NTables = 2
  NRows = 1
  MaxVersion = 1
  Faults = {"overlap"}
SYMMETRY Symmetry
INVARIANTS
  OpensOnlyWhole
