CONSTANTS
  Fds = {f1}
  Nil = Nil
  MaxMsgs = 2
  Wire <- Counting
  CacheHits = FALSE
  MaxFaults = 0
SPECIFICATION Spec
INVARIANT MissingSessionsIsTrue
CHECK_DEADLOCK FALSE
