SPECIFICATION Spec
CONSTANTS
  Alien = Alien
  NoInode = NoInode
  NoPort = NoPort
  NoProc = NoProc
  d1 = d1
  h1 = h1
  h2 = h2
  i1 = i1
  i2 = i2
  i3 = i3
  main = main
  none = none
  p1 = p1
  p2 = p2
  t1 = t1
  t2 = t2
  u1 = u1
  u2 = u2
  u3 = u3
CHECK_DEADLOCK FALSE
PROPERTIES
  CallsEnd
  WhatIsHeldIsGivenBack
  ThreadsComeBack
  RecordingsEnd
  WaitsAreAnswered
