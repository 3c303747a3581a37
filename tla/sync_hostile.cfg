SPECIFICATION Spec
CONSTANTS
  Splashes = {s1, s2}
  s1 = s1
  s2 = s2
  NTables = 2
  NRows = 1
  MaxVersion = 2
  Faults = {"crash", "offline", "badReply", "overlap", "lostInsert", "lateFlush"}
SYMMETRY Symmetry
INVARIANTS
  TablesExistWhenOpen
