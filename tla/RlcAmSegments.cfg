SPECIFICATION Spec
CONSTANTS
  Mod = 4
  SduLen = 4
  MaxNackRange = 2
  SizeofNackSn = 2
  MaxSns = 3
  MaxSegments = 3
  MaxGrant = 27
CHECK_DEADLOCK FALSE
INVARIANTS
  SegmentsAreExact
  ReportIsExact
  TrimIsSound
