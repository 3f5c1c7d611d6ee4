SPECIFICATION Spec
CHECK_DEADLOCK FALSE
CONSTANTS
  Mod = 6
  AmWindow = 3
  SduLen = 2
  MaxNackRange = 255
  SizeofNackSn = 2
  MaxSnPerReport = 3
  TReassembly = 1
  TProhibit = 0
  max_window = 0
  poll_pdu = 2
  poll_byte = 0
  max_retx_thresh = 1
  QueueSize = 2
  FirstSn = 5
  NumSdus = 2
  MaxDiscards = 1
  Grants = {1, 2}
  StatusGrants = {3, 100}
  AirSize = 2
  StatusAirSize = 2
  MaxLosses = 1
  Overtake = 1
  StatusOvertake = 1
  RetxBound = 1
  EarlyTimeouts = TRUE
INVARIANTS
  DeliveredOnceAndIntact
  TxWindowIsExact
  WindowsOverlap
  MaxRetxIsReported
  SilenceIsExplained
PROPERTY
  ServiceSpec
