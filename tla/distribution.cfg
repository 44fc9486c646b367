CONSTANTS
  LidarCount = 2
  Capacity = 2
  Formats = {"Custom", "PclPxyzi"}
  use_multi_topic_ = TRUE
  MaxFrames = 5
SPECIFICATION FairSpec
INVARIANTS
  NoLostWakeup
PROPERTIES
  StoredIsPublished
  PublishedInOrder
  OneFrameEndsIt
CHECK_DEADLOCK FALSE
