CONSTANTS
  Duration = 3
  InitCount = 1
  MaxGap = 2
  MaxLoops = 1
  MaxTime = 12
  LoopTimes = {0,3}
  None = None
  Garbage = {100}
  MaxWaiting = 2
  MaxSamples = 3
SPECIFICATION FairSpecImu
INVARIANTS
  ScansHaveTimes
  RegistersCurrentScan
  MovedOnce
PROPERTIES
  PropagatedToEnd
  NoScanStuck
CHECK_DEADLOCK FALSE
