SPECIFICATION FairSpec
CONSTANTS
  Calls = {c1, c2}
  c1 = c1
  c2 = c2
  MaxUploads = 1
  MaxHides = 1
  Connected = TRUE
CHECK_DEADLOCK FALSE
PROPERTIES
  SpinnerEnds
  AcceptedGoesOn
