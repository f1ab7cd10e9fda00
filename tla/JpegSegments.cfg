CONSTANTS
  Levels = {40, 80, 160}
  Width = 28
  Height = 20
  Texts <- MCTexts
SPECIFICATION Spec
CHECK_DEADLOCK FALSE
INVARIANTS SegmentsAddUp
