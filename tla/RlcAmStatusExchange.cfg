SPECIFICATION ExchangeSpec
CHECK_DEADLOCK FALSE
CONSTANTS
  MaxVersion = 4
  ProhibitOn = TRUE
  DeferMayFail = FALSE
  TimerMayOvertake = FALSE
INVARIANTS
  ProhibitFlagMeansTimer
  RequestIsAnnounced
PROPERTY
  RequestIsAnswered
