CONSTANTS
  None = None
  Minimal_Unbalanced_Tree_Size = 2
  DeletePercent = 50
  BalancePercent = 70
  Points <- SomePoints
  Boxes <- SomeBoxes
  Voxels <- SomeVoxels
  BuildSets <- FirstScans
  Ranks <- SomeRanks
  Heights = {8}
  K = 2
  Radii = {2, 4}
  MaxUpdates = 4
SPECIFICATION Spec
INVARIANTS
  CountsExact
  NearestFound
  RadiusFound
  ReportedOnce
PROPERTY IsPointStore
CHECK_DEADLOCK FALSE
