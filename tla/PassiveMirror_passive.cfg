SPECIFICATION FairSpec
CONSTANTS
  IdCount = 3
  Blocks = {"sensors", "clock"}
  Size <- MCSize
  Transmits = FALSE
  MaxResets = 1
  MaxRestarts = 1
  Nothing = Nothing
PROPERTY BlocksKeepComing
