\* One of two bearers is removed while a PDU of it is with a crypto worker.
SPECIFICATION Spec
CONSTANTS
  SnCard = 4
  CountMod = 16
  Cfgs <- AmFinite
  NofDrbs = 2
  InitCount = 0
  MaxHard = 3
  MaxKey = 2
  MaxPdus = 3
  MaxInProcess = 1
PROPERTY
  DestroyedWhenIdle
CHECK_DEADLOCK FALSE
