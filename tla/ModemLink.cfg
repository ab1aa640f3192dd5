SPECIFICATION FairSpec
CONSTANTS
  ffffffff = ffffffff
  home = home
  Network = {ffffffff, home}
  BootSync = ffffffff
  IdCount = 3
  MaxIssued = 3
  MaxResets = 1
INVARIANTS TypeOK SuccessMeansExecuted RadioAsAsked
PROPERTIES KeepsOrder
\* The bound on commands stops the host; KeepsOrder rules out one that hangs.
CHECK_DEADLOCK FALSE
