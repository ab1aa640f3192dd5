SPECIFICATION Spec
CONSTANTS
  None = None
  Torn = Torn
  Documents <- MCDocuments
  ZoneNumbers <- MCZoneNumbers
  Modes = {"Max", "Eco"}
  Legacy <- MCLegacy
  MaxMoves = 3
  MaxInbox = 2
INVARIANTS TypeOK RecordIsShown NothingForgotten RunsAsMeant PairedFileLoads
PROPERTIES DhwSettles
CHECK_DEADLOCK FALSE
