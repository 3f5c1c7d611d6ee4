SPECIFICATION Spec
CONSTANTS
  Mod = 6
  AmWindow = 3
  SduLen = 2
  MaxNackRange = 255
  SizeofNackSn = 2
  MaxSnPerReport = 2
  TReassembly = 2
  TProhibit = 1
INVARIANTS
  StateVariablesOrdered
  TriggerIsAnchored
  MissingIsWatched
  ReportIsCurrent
