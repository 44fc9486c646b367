CONSTANTS
  p1 = p1
  p2 = p2
  Points = {p1, p2}
  Charger = Charger
  Missions <- AnyMission
  BatteryLevels = {"full"}
  FailLimit = 2
  MaxGoals = 2
  MaxCmds = 2
  None = None
SPECIFICATION Spec
PROPERTY CancelSticks
CHECK_DEADLOCK FALSE
