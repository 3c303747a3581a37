SPECIFICATION FairSpec
CONSTANTS
  Calls = {c1, c2}
  c1 = c1
  c2 = c2
  MaxPosted = 1
  Connected = FALSE
  Drifts = TRUE
CHECK_DEADLOCK FALSE
INVARIANTS
  CrashOnlyWhenLeft
  PanelTellsStatus
PROPERTIES
  PanelsAdvance
  SpinnerEnds
  PanelComes
