CONSTANTS
  a = a
  b = b
  c = c
  Cells = {a, b, c}
  InsertVotes = 2
  PendingLimit = 1
  Absent = Absent
  Scans <- FewScans
  VoteWindow = 1
  CarveEvery = 1
  CarveConfirm = 1
  MaxVoxels = 2
  StartMode = "loaded"
  MaxFrames = 2
  MaxClock = 2
  MaxCrashes = 1
SPECIFICATION MapSpec
INVARIANTS
  LoadedMapIsNavMap
  DisplayMatchesNav
PROPERTY ArchiveDurable
CHECK_DEADLOCK FALSE
