SPECIFICATION Spec
CONSTANTS
  Capacity = 2
  ByteLimit = 5
  W = 16
  MaxWrites = 4
  PdcpSns <- MCPdcpSns
  Sizes <- MCSizes
INVARIANTS
  NoInvalidRelease
  NothingLost
  TotalsAccountForHeld
  ByteLimitRespected
