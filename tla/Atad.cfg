SPECIFICATION FairSpec
CONSTANTS
  ByteMod = 2
  NibbleMod = 2
  FifoMax = 2
  Requests <- MCRequests
  MaxCalls = 3
INVARIANT DoneMeansDone
INVARIANT TransferExact
INVARIANT SecurityKnown
PROPERTY TimeoutsOwned
PROPERTY CallsReturn
CHECK_DEADLOCK FALSE
