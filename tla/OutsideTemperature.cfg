SPECIFICATION FairSpec
CONSTANTS
  Interval = 4
  Retry = 1
  MinChange = 2
  Push = TRUE
  Callers = 2
  MaxChanges = 4
  MaxRestarts = 1
INVARIANTS TypeOK KeptChangeScheduled
PROPERTIES RateLimited KeepsBoilerCurrent
