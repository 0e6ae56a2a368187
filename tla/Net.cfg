SPECIFICATION NetFairSpec
CONSTANTS
  Senders = {rx, app}
  Rx = rx
  App = app
  NumBds = 2
  IndexMod = 4
  TxBufSize = 20
  FrameSizes <- MCFrameSizes
  ArpSize <- MCArpSize
  NumRxBds = 2
  RxIndexMod = 4
  h1 = h1
  h2 = h2
  h3 = h3
  Hosts = {h1, h2, h3}
  NoHost = NoHost
  ArpEntries = 2
  ArpAttempts = 2
  Loads <- MCLoads
INVARIANT NoFrameForgotten
INVARIANT RxInOrder
INVARIANT DestReaches
PROPERTY ImplementsTxQueue
PROPERTY NobodyStuck
PROPERTY LateAnswerUsed
CHECK_DEADLOCK FALSE
