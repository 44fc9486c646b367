CONSTANTS
  a = a
  b = b
  c = c
  Cells = {a, b}
  Scans <- AllScans
  InsertVotes = 2
  VoteWindow = 3
  CarveEvery = 1
  CarveConfirm = 2
  MaxVoxels = 2
  PendingLimit = 1
  StartMode = "mapping"
  MaxFrames = 6
  MaxClock = 1
  MaxCrashes = 0
  Absent = Absent
SPECIFICATION MapSpec
INVARIANTS
  MappedHasNoVotes
PROPERTY EvidenceProtected
CHECK_DEADLOCK FALSE
