CONSTANTS
  l1 = l1
  l2 = l2
  Lidars <- TwoLidars
  UserConfig <- OneConfigured
  SettingCount = 2
  MaxSource = 2
  MaxInputs = 3
  MaxTroubles = 1
  None = None
SPECIFICATION FairFrontSpec
INVARIANTS
  SamplesConfigured
  EveryPointOnce
PROPERTIES
  AnnouncedSamples
CHECK_DEADLOCK FALSE
