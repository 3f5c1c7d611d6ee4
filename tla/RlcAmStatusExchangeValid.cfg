SPECIFICATION ExchangeSpec
CHECK_DEADLOCK FALSE
CONSTANTS
  MaxVersion = 3
  ProhibitOn = TRUE
  DeferMayFail = FALSE
  TimerMayOvertake = FALSE
INVARIANT
  ReportIsValid
