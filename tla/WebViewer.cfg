CONSTANTS
  c1 = c1
  c2 = c2
  Conns = {c1, c2}
  Cap = 2
  MaxFrame = 4
SPECIFICATION FairSpec
CHECK_DEADLOCK FALSE
INVARIANTS TypeOK QueueIsNewest PutNeverRefused AccountedOnce
PROPERTIES LiveFeedSpec SnapshotNotBehind QueueMoves
