SPECIFICATION Spec
CONSTANTS
  Alien = Alien
  NoPort = NoPort
  c0 = c0
  c1 = c1
  c2 = c2
  d1 = d1
  d2 = d2
  h1 = h1
  h2 = h2
  main = main
  none = none
  p1 = p1
  p2 = p2
  p3 = p3
  u1 = u1
  u2 = u2
  u3 = u3
CHECK_DEADLOCK FALSE
INVARIANTS
  TypesHold
  AnswersAreTrue
  DoneAsAsked
  LeftAsFound
  OthersSpared
  FleetAccounted
PROPERTIES
  NoStepHarms
