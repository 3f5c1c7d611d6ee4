\* Two contexts create a timer and pass it on through the pool.
SPECIFICATION FairSpec
CONSTANTS
  NofContexts = 2
  Capacity = 0
  MaxTimers = 1
  Durations = {0, 2}
  MaxCmds = 5
INVARIANTS
  CallbackIsCurrent
  SignalledOnce
PROPERTIES
  RunningExpires
CHECK_DEADLOCK FALSE
