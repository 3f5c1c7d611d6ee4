SPECIFICATION Spec
CHECK_DEADLOCK FALSE
CONSTANTS
  SnCard = 8
  CountMod = 32
  Cfgs <- AllCfgs
  InitCount = 6
  MaxHard = 10
  MaxNotify = 9
  DiscardTicks = 2
  MaxLag = 1
  DesiredSizes = {0, 9}
  Failures = {"copy", "header"}
  Bitmaps = TRUE
  MaxKey = 2
INVARIANTS
  CountNotReused
  NothingLostSilently
  WindowIsWatched
