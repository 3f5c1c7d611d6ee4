SPECIFICATION Spec
CHECK_DEADLOCK FALSE
CONSTANTS
  Mod = 4
  AmWindow = 2
  SduLen = 1
  MaxNackRange = 255
  SizeofNackSn = 2
  MaxSnPerReport = 2
  TReassembly = 1
  TProhibit = 0
  max_window = 0
  poll_pdu = 2
  poll_byte = 0
  max_retx_thresh = 1
  QueueSize = 2
  FirstSn = 0
  NumSdus = 4
  MaxDiscards = 1
  Grants = {1}
  StatusGrants = {3, 100}
  AirSize = 2
  StatusAirSize = 2
  MaxLosses = 1
  Overtake = 0
  StatusOvertake = 1
  RetxBound = 1
  EarlyTimeouts = TRUE
INVARIANT
  NoProtocolFailure
