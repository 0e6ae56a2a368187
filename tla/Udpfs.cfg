SPECIFICATION FairSpec
CONSTANTS
  Files = {f1, f2}
  NumSlots = 2
  Handles = {1, 2, 3}
  FileLen = 2
  MaxRead = 1
  MaxSize = 2
  IntMod = 4
  Threads = {t1, t2}
  FileSize <- MCFileSize
  MaxSectors = 1
  MaxCount = 2
  DevSizes <- MCDevSizes
  WordMod = 16
INVARIANT HandlesAgree
INVARIANT ReadAccounted
INVARIANT OwnBuffer
INVARIANT ReadComplete
PROPERTY NoRequestAfterLoss
PROPERTY FhiReturns
CHECK_DEADLOCK FALSE
