SPECIFICATION FairSpec
CONSTANTS
  None = None
  Refused = Refused
  MaxCode = 7
  Targets <- MCTargets
  Settings <- MCSettings
  Repeats = 2
  MaxMoves = 3
INVARIANTS TypeOK ComfortIsSet CommandShown SentMeansSame ReportKept FileKept
PROPERTIES ModeSettles
CHECK_DEADLOCK FALSE
