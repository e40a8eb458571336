CONSTANTS
  Fds = {f1, f2}
  Nil = Nil
  MaxMsgs = 2
  Wire <- TwoClients
  CacheHits = FALSE
  MaxFaults = 1
SPECIFICATION Spec
SYMMETRY Symmetry
INVARIANTS SessionIsAnUnbrokenRun ResponsesAreOwn
CHECK_DEADLOCK FALSE
