SPECIFICATION Spec
CONSTANTS
  Splashes = {s1}
  s1 = s1
  NTables = 5
  NRows = 2
  MaxVersion = 3
  Faults = {"crash", "offline", "badReply"}
INVARIANTS
  UncheckedBounded
  OpensOnlyWhole
  VersionIsBacked
PROPERTIES
  ImplementsCatalogCache
