SPECIFICATION FairSpec
CONSTANTS
  MaxChanges = 4
  MaxStops = 2
INVARIANTS TypeOK NoLostChange
PROPERTIES KeepsBoilerCurrent
