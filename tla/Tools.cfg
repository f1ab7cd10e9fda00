CONSTANTS
  PipeSize = 5
  HeaderLen = 4
  Payloads <- MCPayloads
  MaxSent = 3
  MaxTransfers = 3
  HeaderBytes = 2
  MaxReads = 4
  MaxOpens = 2
SPECIFICATION FairSpec
CHECK_DEADLOCK FALSE
INVARIANTS TypeOK NoStaleAnswer CaptureOnFile CrashNeedsEnd FindsWholePackets
PROPERTIES ScriptEnds SplitEnds
