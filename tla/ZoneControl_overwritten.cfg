SPECIFICATION Spec
CONSTANTS
  None = None
  Refused = Refused
  MaxCode = 7
  Targets <- MCTargets
  Settings <- MCSettings
  Repeats = 2
  MaxMoves = 3
INVARIANTS ReportStands
CHECK_DEADLOCK FALSE
