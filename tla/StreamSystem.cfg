CONSTANTS
  c1 = c1
  c2 = c2
  Conns = {c1, c2}
  NoConn = NoConn
  MaxPlugs = 2
  MaxFrames = 2
SPECIFICATION FairSpec
CHECK_DEADLOCK FALSE
INVARIANTS TypeOK NoTornRead OneCamera
PROPERTIES PublishesAfterHandshake LiveFeedSpec LatestReachesViewer FailureIsRetried QuitEnds InterruptEnds
