SPECIFICATION Spec
CONSTANTS
  Slices = {1, 2}
  CellRbs = 3
  MaxPriority = 1
  InitCfg <- MCInitCfg
  BudgetMsgs <- MCBudgetMsgs
  Garbled = Garbled
  Ues = {a}
  BearerSets <- MCBearerSets
  NumSlots = 8
  RingSize = 4
  TddPeriod = 4
  DlSlots = {0, 1}
  CsiRsSlots = {1}
  PuschDelays <- MCPuschDelays
  MaxSkip = 2
INVARIANTS TypeOK OffersWithinLimits MinimumFirst EveryoneServed
  CountsMatchGrants MembershipExact
PROPERTY SlotCompletes
