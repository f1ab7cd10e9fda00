CONSTANTS
  Levels = {0, 40, 80, 160, 255}
  Width = 28
  Height = 20
  Texts <- MCTexts
SPECIFICATION Spec
CHECK_DEADLOCK FALSE
INVARIANTS TypeOK ScanDecodes
