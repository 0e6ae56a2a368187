SPECIFICATION Spec
CONSTANTS
  SeqMod = 3
  MaxRetries = 2
  AckWindow = 1
  SendWindow = 1
  MaxLag = 1
  MaxChunks = 1
  MaxReply = 1
  MaxCalls = 0
  Servers = {s1}
  Foreign = {}
  Consoles = {c1}
  NoHost = NoHost
INVARIANT DestOffersService
CHECK_DEADLOCK FALSE
