CONSTANTS
  a = a
  b = b
  Points = {a, b}
  Boxes <- SomeBoxes
  Searchers = {s1, s2}
  MaxUpdates = 3
SPECIFICATION RebuildSpec
INVARIANTS
  NoUpdateLost
  NoSearchInHandOver
PROPERTIES
  NobodyStarves
CHECK_DEADLOCK FALSE
