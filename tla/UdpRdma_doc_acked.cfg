SPECIFICATION Spec
CONSTANTS
  SeqMod = 3
  MaxRetries = 2
  AckWindow = 1
  SendWindow = 1
  MaxLag = 1
  MaxChunks = 1
  MaxReply = 0
  MaxCalls = 2
  Servers = {s1}
  Foreign = {}
  Consoles = {}
  NoHost = NoHost
INVARIANT SendOkMeansAcknowledged
CHECK_DEADLOCK FALSE
