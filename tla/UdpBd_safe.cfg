SPECIFICATION FairSpec
CONSTANTS
  CmdMod = 3
  SizeMod = 8
  BlockPkts = 2
  MaxBlocks = 2
  MaxRetries = 3
  MaxLag = 2
  MaxCmds = 5
  Writes = TRUE
INVARIANT BufferInOrder
INVARIANT CleanReadComplete
INVARIANT BdmAgrees
PROPERTY BufferOwned
PROPERTY CallReturns
CHECK_DEADLOCK FALSE
