\* One bearer: the second key change, or the removal, after one that met a PDU.
SPECIFICATION Spec
CONSTANTS
  SnCard = 4
  CountMod = 16
  Cfgs <- AmFinite
  NofDrbs = 1
  InitCount = 0
  MaxHard = 3
  MaxKey = 2
  MaxPdus = 3
  MaxInProcess = 1
INVARIANTS
  WakeupIsNotLost
CHECK_DEADLOCK FALSE
