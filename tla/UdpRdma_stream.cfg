SPECIFICATION FairSpec
CONSTANTS
  SeqMod = 5
  MaxRetries = 2
  AckWindow = 1
  SendWindow = 2
  MaxLag = 2
  MaxChunks = 1
  MaxReply = 2
  MaxCalls = 1
  Servers = {s1}
  Foreign = {}
  Consoles = {}
  NoHost = NoHost
INVARIANT TypeOK
INVARIANT CallComplete
INVARIANT AckHonest
PROPERTY CallReturns
CHECK_DEADLOCK FALSE
