CONSTANTS
  InnerLen = 1
  MinFrame = 3
  MaxTotal = 20
  Bodies <- MCBodies
  Chunks = {6}
  Backlog = 6
  MaxPackets = 4
  MaxLosses = 1
SPECIFICATION FairSpec
CHECK_DEADLOCK FALSE
INVARIANTS TypeOK CutsDoNotMatter WholePictures OnlyFirstHeadless BufferBounded NothingHeldBack
PROPERTIES ParseShrinks PicturesArrive
