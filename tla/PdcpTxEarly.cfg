SPECIFICATION Spec
CHECK_DEADLOCK FALSE
CONSTANTS
  SnCard = 8
  CountMod = 32
  Cfgs <- AmFinite
  InitCount = 0
  MaxHard = 4
  MaxNotify = 3
  DiscardTicks = 2
  MaxLag = 0
  DesiredSizes = {9}
  Failures = {}
  Bitmaps = TRUE
  MaxKey = 1
INVARIANT
  DiscardIsDue
