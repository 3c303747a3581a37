SPECIFICATION Spec
CONSTANTS
  Calls = {c1, c2}
  c1 = c1
  c2 = c2
  MaxUploads = 2
  MaxHides = 2
  Connected = FALSE
CHECK_DEADLOCK FALSE
INVARIANTS
  CrashOnlyOnOverlap
  KeepsForms
  ShowsTop
  LoginIsEarned
