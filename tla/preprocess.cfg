CONSTANTS
  GroupSize = 2
  N_SCANS = 2
  Turn = 4
  MinAviaLine = 5
  FilterNums = {1, 2, 3}
  Messages <- MCMessages
  None = None
SPECIFICATION Spec
INVARIANTS
  TimesAreTrue
  BlindNeverUsed
  GarbageNeverRead
  SurfaceOnce
PROPERTY ExtractionEnds
CHECK_DEADLOCK FALSE
