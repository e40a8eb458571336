CONSTANTS
  Keys = {k1, k2}
  Values = {v1, v2}
  Nil = Nil
  MAX_RETRY_TIMES = 3
  MaxContexts = 3
  MaxChanges = 5
SPECIFICATION Spec
INVARIANTS TypeOK FailureMeansAllRefused
CHECK_DEADLOCK FALSE
