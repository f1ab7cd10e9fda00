CONSTANTS
  PipeSize = 2
  HeaderLen = 4
  Payloads <- MCPayloads
  MaxSent = 3
  MaxTransfers = 3
  HeaderBytes = 2
  MaxReads = 4
  MaxOpens = 2
SPECIFICATION Spec
CHECK_DEADLOCK FALSE
INVARIANTS TriesEachPacket
