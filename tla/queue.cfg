CONSTANTS
  x = x
  y = y
  z = z
  Packets = {x, y, z}
  QueueSize = 3
  IndexBits = 3
  Torn = Torn
  None = None
SPECIFICATION RingSpec
INVARIANTS
  NeverSameSlot
PROPERTY IsChannel
CHECK_DEADLOCK FALSE
