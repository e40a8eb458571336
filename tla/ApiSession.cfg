CONSTANTS
  Fds = {f1}
  Nil = Nil
  MaxMsgs = 3
  Wire <- InOrder
  CacheHits = TRUE
  MaxFaults = 1
SPECIFICATION Spec
INVARIANTS TypeOK SessionIsAnUnbrokenRun RepliesAreLogins ResponsesAreOwn NothingWaitsAtRest
CHECK_DEADLOCK FALSE
