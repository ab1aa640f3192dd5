SPECIFICATION FairSpec
CONSTANTS
  Slope = 7
  MinFlow = 200
  MaxFlow = 650
  Fallback = 450
  Patience = 2
  Retained = TRUE
  Targets = {700}
  MaxMessages = 3
  MaxStops = 1
INVARIANTS TypeOK LastWriteGivesTarget
PROPERTIES NotBeforeItsTime HeatsWhileAway
