CONSTANTS
  Fds = {f1}
  Nil = Nil
  MaxMsgs = 1
  Wire <- AllKinds
  CacheHits = FALSE
  MaxFaults = 0
SPECIFICATION Spec
INVARIANT ApiCallsReachApi
CHECK_DEADLOCK FALSE
