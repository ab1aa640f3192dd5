SPECIFICATION Spec
CONSTANTS
  IdCount = 3
  Blocks = {"sensors", "clock"}
  Size <- MCSize
  Transmits = TRUE
  MaxResets = 1
  MaxRestarts = 1
  Nothing = Nothing
INVARIANT MirrorsTheAskedBlock
