CONSTANTS
  InnerLen = 1
  MinFrame = 3
  MaxTotal = 20
  Bodies <- MCBodies
  Chunks = {1, 6}
  Backlog = 6
  MaxPackets = 4
  MaxLosses = 1
SPECIFICATION Spec
CHECK_DEADLOCK FALSE
INVARIANTS FlushedWhenComplete
