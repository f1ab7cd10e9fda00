CONSTANTS
  Programs = {"connect"}
  Tries = 10
  Drains = 5
  Pings = 5
  DeviceSeqs = {255}
  MaxMarkers = 1
  MaxFaults = 0
  MaxJoin = 2
  MaxVideo = 2
SPECIFICATION Spec
CHECK_DEADLOCK FALSE
INVARIANTS EachPacketOnce
