CONSTANTS
  Programs = {"stream", "connect", "full", "viewer"}
  Tries = 10
  Drains = 5
  Pings = 5
  DeviceSeqs = {255}
  MaxMarkers = 1
  MaxFaults = 1
  MaxJoin = 2
  MaxVideo = 2
SPECIFICATION FairSpec
CHECK_DEADLOCK FALSE
INVARIANTS TypeOK BothUp NoGap AcknowledgedIsUsed DoneMeansIdentified VideoInOrder
PROPERTIES SessionIsSetUp
