CONSTANTS
  Fds = {f1}
  Nil = Nil
  MaxMsgs = 2
  Wire <- AllKinds
  CacheHits = TRUE
  MaxFaults = 2
SPECIFICATION FairSpec
PROPERTY EveryCallReturns
CHECK_DEADLOCK FALSE
