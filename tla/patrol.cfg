CONSTANTS
  p1 = p1
  p2 = p2
  Points = {p1, p2}
  Charger = Charger
  Missions <- AnyMission
  BatteryLevels = {"low", "full"}
  FailLimit = 2
  MaxGoals = 2
  MaxCmds = 2
  None = None
SPECIFICATION FairSpec
INVARIANTS
  RunningHasPoint
  NavNeverOrphaned
  PhotoWaitIsArmed
PROPERTIES
  SavedPhotoIsSteady
  MissionEnds
CHECK_DEADLOCK FALSE
