\* One bearer, PDUs across a change of the hyper frame number, one key change.
SPECIFICATION Spec
CONSTANTS
  SnCard = 8
  CountMod = 32
  Cfgs <- SomeCfgs
  NofDrbs = 1
  InitCount = 6
  MaxHard = 10
  MaxKey = 2
  MaxPdus = 4
  MaxInProcess = 2
INVARIANTS
  InOrderDelivery
  WaitingIsWatched
  UeRemovedWhenIdle
  OnlyInlineRestartLosesWakeup
CHECK_DEADLOCK FALSE
