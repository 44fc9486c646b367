CONSTANTS
  Axes = {"x", "y"}
  Landmarks <- MCLandmarks
  Home <- MCHome
  Region <- Grid
  DET_RANGE = 8
  cube_len = 44
  Voxel <- MCVoxel
  FromCentre <- MCFromCentre
  FewPoints = 2
  maximum_iter = 2
  None = None
SPECIFICATION Spec
INVARIANTS
  MapInCube
  RematchedBeforeUse
PROPERTIES
  InRangeKept
CHECK_DEADLOCK FALSE
