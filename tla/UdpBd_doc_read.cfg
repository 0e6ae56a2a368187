SPECIFICATION Spec
CONSTANTS
  CmdMod = 3
  SizeMod = 8
  BlockPkts = 1
  MaxBlocks = 2
  MaxRetries = 2
  MaxLag = 2
  MaxCmds = 4
  Writes = TRUE
INVARIANT ReadComplete
CHECK_DEADLOCK FALSE
