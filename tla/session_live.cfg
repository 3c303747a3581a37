SPECIFICATION FairSpec
CONSTANTS
  Providers = {p1}
  p1 = p1
  NoOne = NoOne
  MaxAlive = 2
  Calls = {1}
  Connected = FALSE
  Langs = {"en", "ar"}
INVARIANTS
  LanguageKept
PROPERTIES
  SignInEnds
