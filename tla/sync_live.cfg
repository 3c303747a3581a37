SPECIFICATION UserSpec
CONSTANTS
  Splashes = {s1}
  s1 = s1
  NTables = 5
  NRows = 2
  MaxVersion = 3
  Faults = {}
PROPERTIES
  LaunchOpens
  NewCatalogueIsShown
