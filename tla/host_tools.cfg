SPECIFICATION Spec
CONSTANTS
  Damaged = Damaged
  NoInode = NoInode
  NoProc = NoProc
  Nothing = Nothing
  anywhere = anywhere
  atrace = atrace
  chrome = chrome
  d1 = d1
  d2 = d2
  empty = empty
  h1 = h1
  h2 = h2
  i1 = i1
  i2 = i2
  i3 = i3
  i4 = i4
  key = key
  key1 = key1
  key2 = key2
  linux = linux
  none = none
  p1 = p1
  p2 = p2
  p3 = p3
  pathA = pathA
  pathB = pathB
  t1 = t1
  t2 = t2
CHECK_DEADLOCK FALSE
INVARIANTS
  TypesHold
  OneAtATime
  
  TracesWhole
  ReadWhole
  RightOnes
PROPERTIES
  StepsInOrder
